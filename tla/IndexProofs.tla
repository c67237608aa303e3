------------------------------ MODULE IndexProofs ------------------------------
(***************************************************************************)
(* Proofs about IndexDocument, for texts of any length, any size, overlap, *)
(* batch and dimension, and any answers of the provider.                   *)
(***************************************************************************)
EXTENDS IndexProperties, SequenceTheorems, WellFoundedInduction, TLAPS

(* Every set of naturals has a least number: < is well-founded on Nat.     *)
Below == {ss \in Nat \X Nat : ss[1] < ss[2]}

LEMMA LeastExists ==
  ASSUME NEW S, S \subseteq Nat, S # {}
  PROVE  \E x \in S : \A y \in S : x <= y
<1>1. IsWellFoundedOn(Below, Nat)
  BY NatLessThanWellFounded, Zenon DEF OpToRel, Below
<1>2. PICK x \in S : \A y \in S : ~ (<<y, x>> \in Below)
  BY <1>1, WFMin, Zenon
<1>3. ASSUME NEW y \in S PROVE x <= y
  <2>1. x \in Nat /\ y \in Nat
    OBVIOUS
  <2>2. ~ (<<y, x>> \in Below)
    BY <1>2
  <2>3. ~ (y < x)
    BY <2>1, <2>2 DEF Below
  <2> QED BY <2>1, <2>3
<1> QED BY <1>3

(* What CHOOSE finds.                                                      *)
LEMMA LeastIn ==
  ASSUME NEW S, S \subseteq Nat, S # {}
  PROVE  LeastOf(S) \in S /\ \A y \in S : LeastOf(S) <= y
BY LeastExists, Zenon DEF LeastOf

LEMMA GreatestIn ==
  ASSUME NEW S, NEW n \in Nat, S \subseteq 0 .. n, S # {}
  PROVE  GreatestOf(S) \in S /\ \A y \in S : y <= GreatestOf(S)
<1> DEFINE T == {n - x : x \in S}
<1>1. T \subseteq Nat
  <2>1. \A x \in S : x \in Nat /\ x <= n
    OBVIOUS
  <2>2. \A x \in S : n - x \in Nat
    BY <2>1
  <2> QED BY <2>2
<1>2. T # {}
  OBVIOUS
<1>3. \E t \in T : \A u \in T : t <= u
  <2> HIDE DEF T
  <2> QED BY <1>1, <1>2, LeastExists
<1>4. PICK x \in S : \A u \in T : n - x <= u
  BY <1>3
<1>5. \A y \in S : n - x <= n - y
  BY <1>4
<1>6. \A y \in S : y <= x
  BY <1>5
<1> QED BY <1>6, Zenon DEF GreatestOf

-----------------------------------------------------------------------------
(* The overlap is at most half of the size.                                *)
LEMMA Clamped ==
  ASSUME NEW sz \in Nat, NEW ov \in Nat
  PROVE  /\ EffectiveSize(sz) \in Nat \ {0}
         /\ EffectiveOverlap(EffectiveSize(sz), ov) \in Nat
         /\ EffectiveOverlap(EffectiveSize(sz), ov) <= EffectiveSize(sz) \div 2
<1> DEFINE s == EffectiveSize(sz)
<1>1. s \in Nat \ {0}
  BY DEF EffectiveSize
<1> HIDE DEF s
<1>2. s \div 5 \in Nat /\ s \div 2 \in Nat /\ s \div 5 <= s \div 2
  BY <1>1
<1> QED BY <1>1, <1>2 DEF EffectiveOverlap, s

(* A separator that is usable ends in the second half of the text.         *)
LEMMA LateBounds ==
  ASSUME NEW s \in Seq(STRING), NEW sep, Len(sep) \in {1, 2}, Late(s, sep) # {}
  PROVE  GreatestOf(Late(s, sep)) \in (Len(s) \div 2 + 1) .. Len(s)
<1>1. Len(s) \in Nat /\ Len(sep) \in Nat
  BY LenProperties
<1>2. ASSUME NEW e \in Late(s, sep) PROVE e \in 0 .. Len(s)
  <2>1. PICK p \in 1 .. (Len(s) - Len(sep)) : e = p + Len(sep)
    BY DEF Late, EndsOf
  <2> QED BY <1>1, <2>1
<1>3. GreatestOf(Late(s, sep)) \in Late(s, sep)
  <2>1. Late(s, sep) \subseteq 0 .. Len(s)
    BY <1>2
  <2> QED BY <1>1, <2>1, GreatestIn
<1>4. GreatestOf(Late(s, sep)) > Len(s) \div 2
  BY <1>3 DEF Late
<1> QED BY <1>1, <1>2, <1>3, <1>4

(* The cut leaves more than half of the text in front of it.               *)
LEMMA SplitBounds ==
  ASSUME NEW s \in Seq(STRING), Len(s) > 0
  PROVE  BestSplitOffset(s) \in (Len(s) \div 2 + 1) .. Len(s)
<1> DEFINE usable == {k \in DOMAIN Separators : Late(s, Separators[k]) # {}}
<1>1. Len(s) \in Nat \ {0}
  BY LenProperties
<1>2. CASE usable = {}
  BY <1>1, <1>2 DEF BestSplitOffset
<1>3. CASE usable # {}
  <2>1. DOMAIN Separators = 1 .. 5
    BY DEF Separators
  <2>a. \A k \in 1 .. 5 : Len(Separators[k]) \in {1, 2}
    BY DEF Separators
  <2>b. usable \subseteq Nat
    BY <2>1
  <2>2. LeastOf(usable) \in usable
    <3> HIDE DEF usable
    <3> QED BY <1>3, <2>b, LeastIn
  <2>3. Len(Separators[LeastOf(usable)]) \in {1, 2} /\ Late(s, Separators[LeastOf(usable)]) # {}
    BY <2>1, <2>a, <2>2
  <2>4. BestSplitOffset(s) = GreatestOf(Late(s, Separators[LeastOf(usable)]))
    BY <1>3 DEF BestSplitOffset
  <2> DEFINE sep == Separators[LeastOf(usable)]
  <2> HIDE DEF sep
  <2>5. Len(sep) \in {1, 2} /\ Late(s, sep) # {}
    BY <2>3 DEF sep
  <2>6. GreatestOf(Late(s, sep)) \in (Len(s) \div 2 + 1) .. Len(s)
    BY <2>5, LateBounds
  <2> QED BY <2>4, <2>6 DEF sep
<1> QED BY <1>2, <1>3

(* Trimming keeps every character that is not blank.                       *)
LEMMA TrimKeeps ==
  ASSUME NEW s \in Seq(STRING)
  PROVE  /\ Trim(s) \in Seq(STRING)
         /\ (\E i \in DOMAIN s : s[i] \notin Blanks) => Trim(s) # <<>>
<1> DEFINE solid == {i \in DOMAIN s : s[i] \notin Blanks}
<1>1. Len(s) \in Nat /\ DOMAIN s = 1 .. Len(s)
  BY LenProperties
<1>2. CASE solid = {}
  BY <1>2 DEF Trim
<1>3. CASE solid # {}
  <2> DEFINE a == LeastOf(solid)  b == GreatestOf(solid)
  <2>1. solid \subseteq 1 .. Len(s)
    BY <1>1
  <2>2. a \in solid /\ \A y \in solid : a <= y
    <3>1. solid \subseteq Nat
      BY <2>1
    <3> HIDE DEF solid
    <3> QED BY <1>3, <3>1, LeastIn
  <2>3. b \in solid /\ \A y \in solid : y <= b
    <3> HIDE DEF solid
    <3>1. solid \subseteq 0 .. Len(s)
      BY <1>1, <2>1
    <3> QED BY <1>1, <1>3, <3>1, GreatestIn
  <2>4. Trim(s) = SubSeq(s, a, b)
    BY <1>3 DEF Trim
  <2>5. a \in 1 .. Len(s) /\ b \in 1 .. Len(s) /\ a <= b
    BY <2>1, <2>2, <2>3
  <2> HIDE DEF a, b
  <2>6. \A i \in a .. b : s[i] \in STRING
    BY <1>1, <2>5, ElementOfSeq
  <2>7. SubSeq(s, a, b) \in Seq(STRING) /\ Len(SubSeq(s, a, b)) = b - a + 1
    <3>1. a \in Int /\ b \in Int /\ a <= b
      BY <1>1, <2>5
    <3>2. /\ SubSeq(s, a, b) \in Seq(STRING)
          /\ Len(SubSeq(s, a, b)) = IF a <= b THEN b - a + 1 ELSE 0
      BY <2>6, <3>1, SubSeqProperties, Zenon
    <3> QED BY <3>1, <3>2
  <2>8. Len(SubSeq(s, a, b)) # 0
    BY <1>1, <2>5, <2>7
  <2>9. SubSeq(s, a, b) # <<>>
    BY <2>8, EmptySeq
  <2> QED BY <2>4, <2>7, <2>9
<1> QED BY <1>2, <1>3

-----------------------------------------------------------------------------
(* The inductive invariant.  Behind the last piece the chunker is either   *)
(* at the end of the text or exactly the overlap before that piece's end,  *)
(* and further than where the piece began.                                 *)
Half == overlap <= size \div 2

CutInv ==
  IF pieces = <<>> THEN start = 0
  ELSE /\ part \in 1 .. Len(doc)
       /\ LastEnd <= Len(Text)
       /\ IF LastEnd = Len(Text) THEN start = LastEnd
          ELSE start + overlap = LastEnd /\ pieces[Len(pieces)].start < start

IndexTypeInv == IndexTypeOK /\ Half

CoverInv == IndexTypeInv /\ CutInv /\ PiecesAdvance /\ NothingLost

(* Where a piece ends: behind its start, and unless that is the end of the *)
(* text by more than the overlap.                                          *)
LEMMA PieceBounds ==
  ASSUME IndexTypeInv, part <= Len(doc), start < Len(Text)
  PROVE  /\ Text \in Seq(STRING) /\ Len(Text) \in Nat
         /\ PieceEnd \in (start + 1) .. Len(Text)
         /\ PieceEnd <= start + size
         /\ PieceEnd = Len(Text) \/ PieceEnd > start + size \div 2
<1>1. /\ size \in Nat \ {0} /\ overlap \in Nat /\ start \in Nat
      /\ doc \in Seq(Seq(STRING)) /\ part \in 1 .. Len(doc) /\ Len(doc) \in Nat
  BY LenProperties DEF IndexTypeInv, IndexTypeOK
<1>2. Text \in Seq(STRING)
  BY <1>1, ElementOfSeq DEF Text
<1>3. Len(Text) \in Nat /\ DOMAIN Text = 1 .. Len(Text)
  BY <1>2, LenProperties
<1>4. CASE Len(Text) <= size \/ start + size >= Len(Text)
  BY <1>1, <1>2, <1>3, <1>4 DEF PieceEnd
<1>5. CASE ~(Len(Text) <= size \/ start + size >= Len(Text))
  <2> DEFINE window == SubSeq(Text, start + 1, start + size)
  <2>1. \A i \in (start + 1) .. (start + size) : Text[i] \in STRING
    BY <1>1, <1>2, <1>3, <1>5, ElementOfSeq
  <2>2. start + 1 \in Int /\ start + size \in Int /\ start + 1 <= start + size
    BY <1>1
  <2>3. /\ window \in Seq(STRING)
        /\ Len(window) = IF start + 1 <= start + size THEN (start + size) - (start + 1) + 1 ELSE 0
    BY <2>1, <2>2, SubSeqProperties, ZenonT(60)
  <2>4. Len(window) = size
    BY <1>1, <2>2, <2>3
  <2>5. PieceEnd = start + BestSplitOffset(window)
    BY <1>5 DEF PieceEnd
  <2> HIDE DEF window
  <2>6. BestSplitOffset(window) \in (size \div 2 + 1) .. size
    BY <1>1, <2>3, <2>4, SplitBounds
  <2>7. size \div 2 \in Nat
    BY <1>1
  <2> QED BY <1>1, <1>2, <1>3, <1>5, <2>5, <2>6, <2>7
<1> QED BY <1>4, <1>5

(* The chunk of a piece, if it has one, and when it must have one.         *)
LEMMA ChunkFacts ==
  ASSUME NEW from \in Nat, NEW to \in Nat, part \in Nat, Text \in Seq(STRING), to <= Len(Text)
  PROVE  /\ ChunkOf(from, to) \in Seq(Chunk)
         /\ \/ /\ Len(ChunkOf(from, to)) = 1
               /\ ChunkOf(from, to)[1].part = part
               /\ ChunkOf(from, to)[1].start = from
               /\ ChunkOf(from, to)[1].end = to
            \/ \A i \in (from + 1) .. to : Text[i] \in Blanks
<1> DEFINE piece == SubSeq(Text, from + 1, to)
           text == Trim(piece)
<1>1. Len(Text) \in Nat
  BY LenProperties
<1>2. \A i \in (from + 1) .. to : Text[i] \in STRING
  BY <1>1, ElementOfSeq
<1>3. from + 1 \in Int /\ to \in Int
  OBVIOUS
<1>4. /\ piece \in Seq(STRING)
      /\ Len(piece) = IF from + 1 <= to THEN to - (from + 1) + 1 ELSE 0
      /\ \A i \in 1 .. to - (from + 1) + 1 : piece[i] = Text[(from + 1) + i - 1]
  <2> DEFINE m == from + 1
  <2> HIDE DEF m
  <2>1. /\ SubSeq(Text, m, to) \in Seq(STRING)
        /\ Len(SubSeq(Text, m, to)) = IF m <= to THEN to - m + 1 ELSE 0
        /\ \A i \in 1 .. to - m + 1 : SubSeq(Text, m, to)[i] = Text[m + i - 1]
    <3>1. m \in Int /\ \A i \in m .. to : Text[i] \in STRING
      BY <1>2, <1>3 DEF m
    <3> QED BY <1>3, <3>1, SubSeqProperties
  <2> QED BY <2>1, Zenon DEF m
<1>5. text \in Seq(STRING) /\ ((\E i \in DOMAIN piece : piece[i] \notin Blanks) => text # <<>>)
  <2> HIDE DEF piece
  <2> QED BY <1>4, TrimKeeps
<1>6. ChunkOf(from, to) =
        IF text = <<>> THEN <<>> ELSE << [part |-> part, start |-> from, end |-> to, text |-> text] >>
  BY DEF ChunkOf
<1>7. CASE text # <<>>
  <2> DEFINE r == [part |-> part, start |-> from, end |-> to, text |-> text]
  <2> HIDE DEF text
  <2>1. r \in Chunk
    BY <1>5 DEF Chunk
  <2>2. ChunkOf(from, to) = <<r>>
    BY <1>6, <1>7
  <2>3. r.part = part /\ r.start = from /\ r.end = to
    OBVIOUS
  <2> HIDE DEF r
  <2>4. <<r>> \in Seq(Chunk) /\ Len(<<r>>) = 1 /\ <<r>>[1] = r
    BY <2>1
  <2> QED BY <2>2, <2>3, <2>4
<1>8. CASE text = <<>>
  <2>1. ChunkOf(from, to) \in Seq(Chunk)
    BY <1>6, <1>8, EmptySeq
  <2>2. ASSUME NEW i \in (from + 1) .. to PROVE Text[i] \in Blanks
    <3>1. i - from \in 1 .. to - (from + 1) + 1 /\ (from + 1) + (i - from) - 1 = i
      OBVIOUS
    <3> HIDE DEF piece, text
    <3>2. DOMAIN piece = 1 .. Len(piece) /\ Len(piece) = to - (from + 1) + 1
      BY <1>4, LenProperties
    <3>3. piece[i - from] = Text[i]
      BY <1>4, <3>1
    <3> QED BY <1>5, <1>8, <3>1, <3>2, <3>3
  <2> QED BY <2>1, <2>2
<1> QED BY <1>7, <1>8

-----------------------------------------------------------------------------
(* The next piece, read off the code.                                      *)
LEMMA NextPiece ==
  ASSUME CoverInv, CutPiece
  PROVE  \E end \in (start + 1) .. Len(Text) :
           /\ Text \in Seq(STRING) /\ Len(Text) \in Nat /\ part \in 1 .. Len(doc)
           /\ pieces' = Append(pieces, [start |-> start, end |-> end])
           /\ chunks' = chunks \o ChunkOf(start, end)
           /\ end <= start + size
           /\ LastEnd \in Nat /\ LastEnd < end /\ start <= LastEnd
           /\ pieces # <<>> => pieces[Len(pieces)].start < start
           /\ \/ end = Len(Text) /\ start' = end
              \/ end < Len(Text) /\ start' \in Nat /\ start' + overlap = end /\ start < start'
<1> DEFINE end == PieceEnd
<1>1. /\ size \in Nat \ {0} /\ overlap \in Nat /\ start \in Nat /\ pieces \in Seq(Piece)
      /\ overlap <= size \div 2 /\ size \div 2 \in Nat /\ part \in 1 .. Len(doc) /\ start < Len(Text)
  BY LenProperties DEF CoverInv, IndexTypeInv, IndexTypeOK, Half, CutPiece
<1>2. /\ Text \in Seq(STRING) /\ Len(Text) \in Nat
      /\ end \in (start + 1) .. Len(Text) /\ end <= start + size
      /\ end = Len(Text) \/ end > start + size \div 2
  BY <1>1, PieceBounds DEF CoverInv
<1>3. /\ pieces' = Append(pieces, [start |-> start, end |-> end])
      /\ chunks' = chunks \o ChunkOf(start, end)
      /\ start' = IF end >= Len(Text) THEN end ELSE AfterPiece(end)
  BY DEF CutPiece
<1> HIDE DEF end
<1>4. \/ end = Len(Text) /\ start' = end
      \/ end < Len(Text) /\ start' \in Nat /\ start' + overlap = end /\ start < start'
  BY <1>1, <1>2, <1>3 DEF AfterPiece
<1>5. /\ LastEnd \in Nat /\ LastEnd < end /\ start <= LastEnd
      /\ pieces # <<>> => pieces[Len(pieces)].start < start
  <2>1. CASE pieces = <<>>
    <3>1. LastEnd = 0 /\ start = 0
      BY <2>1 DEF CoverInv, CutInv, LastEnd
    <3> QED BY <1>2, <2>1, <3>1
  <2>2. CASE pieces # <<>>
    <3>1. Len(pieces) \in 1 .. Len(pieces)
      BY <1>1, <2>2, EmptySeq
    <3>2. pieces[Len(pieces)] \in Piece
      BY <1>1, <3>1, ElementOfSeq
    <3>3. LastEnd \in Nat
      BY <2>2, <3>2 DEF LastEnd, Piece
    <3>4. LastEnd < Len(Text) /\ start + overlap = LastEnd /\ pieces[Len(pieces)].start < start
      BY <1>1, <1>2, <2>2, <3>3 DEF CoverInv, CutInv
    <3>5. LastEnd < end /\ start <= LastEnd
      BY <1>1, <1>2, <3>3, <3>4
    <3> QED BY <3>3, <3>4, <3>5
  <2> QED BY <2>1, <2>2
<1> QED BY <1>1, <1>2, <1>3, <1>4, <1>5, Zenon

LEMMA CutType == ASSUME CoverInv, CutPiece PROVE IndexTypeInv'
<1>1. PICK end \in (start + 1) .. Len(Text) :
        /\ Text \in Seq(STRING) /\ Len(Text) \in Nat /\ part \in 1 .. Len(doc)
        /\ pieces' = Append(pieces, [start |-> start, end |-> end])
        /\ chunks' = chunks \o ChunkOf(start, end)
        /\ start' \in Nat
  BY NextPiece
<1>2. start \in Nat /\ end \in Nat /\ part \in Nat /\ end <= Len(Text)
  BY <1>1 DEF CoverInv, IndexTypeInv, IndexTypeOK
<1>3. pieces' \in Seq(Piece)
  <2>1. [start |-> start, end |-> end] \in Piece
    BY <1>2 DEF Piece
  <2>2. pieces \in Seq(Piece)
    BY DEF CoverInv, IndexTypeInv, IndexTypeOK
  <2> QED BY <1>1, <2>1, <2>2, AppendProperties
<1>4. chunks' \in Seq(Chunk)
  <2>1. ChunkOf(start, end) \in Seq(Chunk)
    BY <1>1, <1>2, ChunkFacts
  <2>2. chunks \in Seq(Chunk)
    BY DEF CoverInv, IndexTypeInv, IndexTypeOK
  <2> QED BY <1>1, <2>1, <2>2, ConcatProperties
<1> QED BY <1>1, <1>3, <1>4 DEF CutPiece, CoverInv, IndexTypeInv, IndexTypeOK, Half, chunker, storing

(* Each piece joins the one before it.                                     *)
LEMMA CutAdvances == ASSUME CoverInv, CutPiece PROVE CutInv' /\ PiecesAdvance'
<1>1. PICK end \in (start + 1) .. Len(Text) :
        /\ Len(Text) \in Nat /\ part \in 1 .. Len(doc)
        /\ pieces' = Append(pieces, [start |-> start, end |-> end])
        /\ end <= start + size
        /\ LastEnd \in Nat /\ LastEnd < end /\ start <= LastEnd
        /\ pieces # <<>> => pieces[Len(pieces)].start < start
        /\ \/ end = Len(Text) /\ start' = end
           \/ end < Len(Text) /\ start' \in Nat /\ start' + overlap = end /\ start < start'
  BY NextPiece
<1>2. start \in Nat /\ end \in Nat /\ pieces \in Seq(Piece) /\ Len(pieces) \in Nat
  BY <1>1, LenProperties DEF CoverInv, IndexTypeInv, IndexTypeOK
<1>3. doc' = doc /\ part' = part /\ size' = size /\ overlap' = overlap /\ Text' = Text
  BY DEF CutPiece, chunker, Text
<1> DEFINE new == [start |-> start, end |-> end]
<1>4. new \in Piece /\ new.start = start /\ new.end = end
  BY <1>2 DEF Piece
<1> HIDE DEF new
<1>5. /\ pieces' \in Seq(Piece) /\ pieces' # <<>> /\ Len(pieces') = Len(pieces) + 1
      /\ \A i \in 1 .. Len(pieces) : pieces'[i] = pieces[i]
      /\ pieces'[Len(pieces) + 1] = new
  BY <1>1, <1>2, <1>4, AppendProperties DEF new
<1>6. DOMAIN pieces = 1 .. Len(pieces) /\ DOMAIN pieces' = 1 .. Len(pieces) + 1
  BY <1>2, <1>5, LenProperties
<1>7. LastEnd' = end
  BY <1>4, <1>5 DEF LastEnd
<1>8. CutInv'
  <2>1. pieces'[Len(pieces')].start = start
    BY <1>4, <1>5
  <2> QED BY <1>1, <1>2, <1>3, <1>5, <1>7, <2>1 DEF CutInv
<1>9. \A i \in DOMAIN pieces' : /\ pieces'[i].start < pieces'[i].end
                                /\ pieces'[i].end <= pieces'[i].start + size
  <2> SUFFICES ASSUME NEW i \in 1 .. Len(pieces) + 1
               PROVE  /\ pieces'[i].start < pieces'[i].end
                      /\ pieces'[i].end <= pieces'[i].start + size
    BY <1>6
  <2>1. CASE i = Len(pieces) + 1
    BY <1>1, <1>2, <1>4, <1>5, <2>1
  <2>2. CASE i \in 1 .. Len(pieces)
    BY <1>5, <1>6, <2>2 DEF CoverInv, PiecesAdvance
  <2> QED BY <1>2, <2>1, <2>2
<1>10. \A i \in DOMAIN pieces' : i > 1 =>
         /\ pieces'[i - 1].start < pieces'[i].start
         /\ pieces'[i].start <= pieces'[i - 1].end
         /\ pieces'[i - 1].end < pieces'[i].end
  <2> SUFFICES ASSUME NEW i \in 1 .. Len(pieces) + 1, i > 1
               PROVE  /\ pieces'[i - 1].start < pieces'[i].start
                      /\ pieces'[i].start <= pieces'[i - 1].end
                      /\ pieces'[i - 1].end < pieces'[i].end
    BY <1>6
  <2>1. i - 1 \in 1 .. Len(pieces) /\ pieces'[i - 1] = pieces[i - 1]
    BY <1>2, <1>5
  <2>2. CASE i = Len(pieces) + 1
    <3>1. i - 1 = Len(pieces) /\ pieces # <<>>
      BY <1>2, <2>1, <2>2, EmptySeq
    <3>2. pieces[Len(pieces)].start < start /\ LastEnd = pieces[Len(pieces)].end
      BY <1>1, <3>1 DEF LastEnd
    <3> QED BY <1>1, <1>4, <1>5, <2>1, <2>2, <3>1, <3>2
  <2>3. CASE i \in 1 .. Len(pieces)
    BY <1>5, <1>6, <2>1, <2>3 DEF CoverInv, PiecesAdvance
  <2> QED BY <1>2, <2>2, <2>3
<1> QED BY <1>3, <1>8, <1>9, <1>10 DEF PiecesAdvance

(* Nothing between the end of the last piece and the end of the next is    *)
(* left out, for that piece starts no later than the last one ended.       *)
LEMMA CutLosesNothing == ASSUME CoverInv, CutPiece PROVE NothingLost'
<1>1. PICK end \in (start + 1) .. Len(Text) :
        /\ Text \in Seq(STRING) /\ Len(Text) \in Nat /\ part \in 1 .. Len(doc)
        /\ pieces' = Append(pieces, [start |-> start, end |-> end])
        /\ chunks' = chunks \o ChunkOf(start, end)
        /\ LastEnd \in Nat /\ start <= LastEnd
  BY NextPiece
<1>2. /\ start \in Nat /\ end \in Nat /\ part \in Nat /\ end <= Len(Text)
      /\ pieces \in Seq(Piece) /\ chunks \in Seq(Chunk)
      /\ doc \in Seq(Seq(STRING))
  BY <1>1 DEF CoverInv, IndexTypeInv, IndexTypeOK
<1>3. doc' = doc /\ part' = part
  BY DEF CutPiece
<1>4. LastEnd' = end
  <2> DEFINE new == [start |-> start, end |-> end]
  <2>1. new \in Piece /\ new.end = end
    BY <1>2 DEF Piece
  <2> HIDE DEF new
  <2>2. /\ pieces' # <<>> /\ Len(pieces') = Len(pieces) + 1
        /\ pieces'[Len(pieces) + 1] = new
    <3>1. pieces' = Append(pieces, new) /\ pieces \in Seq(Piece)
      BY <1>1, <1>2 DEF new
    <3> QED BY <2>1, <3>1, AppendProperties
  <2> QED BY <2>1, <2>2 DEF LastEnd
<1> DEFINE add == ChunkOf(start, end)
<1>5. /\ add \in Seq(Chunk)
      /\ \/ Len(add) = 1 /\ add[1].part = part /\ add[1].start = start /\ add[1].end = end
         \/ \A i \in (start + 1) .. end : Text[i] \in Blanks
  BY <1>1, <1>2, ChunkFacts
<1>6. chunks' = chunks \o add
  BY <1>1
<1> HIDE DEF add
<1>7. /\ Len(chunks) \in Nat /\ Len(add) \in Nat /\ DOMAIN chunks = 1 .. Len(chunks)
      /\ chunks' \in Seq(Chunk) /\ DOMAIN chunks' = 1 .. Len(chunks) + Len(add)
      /\ \A c \in 1 .. Len(chunks) + Len(add) :
           chunks'[c] = IF c <= Len(chunks) THEN chunks[c] ELSE add[c - Len(chunks)]
  BY <1>2, <1>5, <1>6, ConcatProperties, LenProperties
<1> SUFFICES ASSUME NEW p \in DOMAIN doc, NEW i \in DOMAIN doc[p], doc[p][i] \notin Blanks,
                    p < part \/ (p = part /\ i <= end)
             PROVE  \E c \in DOMAIN chunks' :
                      chunks'[c].part = p /\ chunks'[c].start < i /\ i <= chunks'[c].end
  BY <1>3, <1>4 DEF NothingLost
<1>8. CASE p < part \/ (p = part /\ i <= LastEnd)
  <2>1. PICK c \in DOMAIN chunks :
          chunks[c].part = p /\ chunks[c].start < i /\ i <= chunks[c].end
    BY <1>8 DEF CoverInv, NothingLost
  <2>2. c \in DOMAIN chunks' /\ chunks'[c] = chunks[c]
    BY <1>7, <2>1
  <2> QED BY <2>1, <2>2
<1>9. CASE p = part /\ ~(i <= LastEnd)
  <2>1. i \in 1 .. Len(Text) /\ Text[i] \notin Blanks
    BY <1>1, <1>9, LenProperties DEF Text
  <2>2. i \in (start + 1) .. end
    BY <1>1, <1>2, <1>9, <2>1
  <2>3. Len(add) = 1 /\ add[1].part = part /\ add[1].start = start /\ add[1].end = end
    BY <1>5, <2>1, <2>2
  <2>4. Len(chunks) + 1 \in DOMAIN chunks' /\ chunks'[Len(chunks) + 1] = add[1]
    BY <1>7, <2>3
  <2> QED BY <1>2, <1>9, <2>2, <2>3, <2>4
<1> QED BY <1>8, <1>9

-----------------------------------------------------------------------------
(* The steps behind the cut do not touch it.                               *)
LEMMA NextPartCovers == ASSUME CoverInv, NextPart PROVE (CutInv /\ PiecesAdvance /\ NothingLost)'
<1>1. /\ part \in 1 .. Len(doc) /\ start >= Len(Text) /\ start \in Nat
      /\ doc' = doc /\ chunks' = chunks /\ part' = part + 1 /\ start' = 0 /\ pieces' = <<>>
      /\ overlap \in Nat /\ doc \in Seq(Seq(STRING)) /\ pieces \in Seq(Piece)
  BY LenProperties DEF NextPart, CoverInv, IndexTypeInv, IndexTypeOK
<1>2. CutInv' /\ PiecesAdvance'
  BY <1>1 DEF CutInv, PiecesAdvance
<1>3. Text \in Seq(STRING) /\ Len(Text) \in Nat /\ DOMAIN Text = 1 .. Len(Text)
  BY <1>1, ElementOfSeq, LenProperties DEF Text
<1>4. LastEnd \in Nat /\ LastEnd >= Len(Text)
  <2>1. CASE pieces = <<>>
    BY <1>1, <1>3, <2>1 DEF CoverInv, CutInv, LastEnd
  <2>2. CASE pieces # <<>>
    <3>1. Len(pieces) \in 1 .. Len(pieces)
      BY <1>1, <2>2, EmptySeq
    <3>2. pieces[Len(pieces)] \in Piece
      BY <1>1, <3>1, ElementOfSeq
    <3>3. LastEnd \in Nat
      BY <2>2, <3>2 DEF LastEnd, Piece
    <3>4. LastEnd = Len(Text) \/ start + overlap = LastEnd
      BY <2>2 DEF CoverInv, CutInv
    <3>5. start \in Nat /\ overlap \in Nat /\ start >= Len(Text) /\ Len(Text) \in Nat
      BY <1>1, <1>3
    <3> QED BY <3>3, <3>4, <3>5
  <2> QED BY <2>1, <2>2
<1>5. NothingLost'
  <2> SUFFICES ASSUME NEW p \in DOMAIN doc, NEW i \in DOMAIN doc[p], doc[p][i] \notin Blanks,
                      p < part + 1 \/ (p = part + 1 /\ i <= LastEnd')
               PROVE  \E c \in DOMAIN chunks :
                        chunks[c].part = p /\ chunks[c].start < i /\ i <= chunks[c].end
    BY <1>1 DEF NothingLost
  <2>1. DOMAIN doc = 1 .. Len(doc) /\ Len(doc) \in Nat
    BY <1>1, LenProperties
  <2>2. doc[p] \in Seq(STRING)
    BY <1>1, <2>1, ElementOfSeq
  <2>3. i \in 1 .. Len(doc[p]) /\ Len(doc[p]) \in Nat
    BY <2>2, LenProperties
  <2>4. LastEnd' = 0
    BY <1>1 DEF LastEnd
  <2>5. p < part \/ p = part
    BY <1>1, <2>1, <2>3, <2>4
  <2>6. p < part \/ (p = part /\ i <= LastEnd)
    BY <1>3, <1>4, <2>3, <2>5 DEF Text
  <2> QED BY <2>6 DEF CoverInv, NothingLost
<1> QED BY <1>2, <1>5

LEMMA CoverUnchanged ==
  ASSUME CoverInv, UNCHANGED <<doc, chunker, cutting>>
  PROVE  (CutInv /\ PiecesAdvance /\ NothingLost)'
BY DEF CoverInv, CutInv, PiecesAdvance, NothingLost, LastEnd, Text, chunker, cutting

-----------------------------------------------------------------------------
(* The vectors of a batch that passes: one for each text, its own, in the  *)
(* dimension asked for.  A text left out has a vector of dimension 0.      *)
LEMMA BatchIsOwn ==
  ASSUME IndexTypeInv, NEW n \in Nat, NEW data, Fits(VectorsOf(data, n))
  PROVE  /\ VectorsOf(data, n) \in Seq(Vector)
         /\ Len(VectorsOf(data, n)) = n
         /\ \A i \in 1 .. n : VectorsOf(data, n)[i] = [of |-> Len(vecs) + i, dim |-> dim]
<1> DEFINE batch == VectorsOf(data, n)
<1>1. dim \in Nat \ {0} /\ Len(vecs) \in Nat
  BY IndexAssumption, LenProperties DEF IndexTypeInv, IndexTypeOK
<1>2. DOMAIN batch = 1 .. n
  BY DEF VectorsOf
<1>3. ASSUME NEW i \in 1 .. n PROVE batch[i] = [of |-> Len(vecs) + i, dim |-> dim]
  <2>1. batch[i].dim = dim
    BY <1>2 DEF Fits
  <2>2. \/ batch[i] = NoVector
        \/ \E x : batch[i] = [of |-> Len(vecs) + i, dim |-> x]
    BY DEF VectorsOf
  <2>3. batch[i] # NoVector
    BY <1>1, <2>1 DEF NoVector
  <2>4. PICK x : batch[i] = [of |-> Len(vecs) + i, dim |-> x]
    BY <2>2, <2>3
  <2>5. x = dim
    BY <2>1, <2>4
  <2> QED BY <2>4, <2>5
<1>4. \A i \in 1 .. n : batch[i] \in Vector
  <2>1. \A i \in 1 .. n : [of |-> Len(vecs) + i, dim |-> dim] \in Vector
    BY <1>1 DEF Vector
  <2> HIDE DEF batch
  <2> QED BY <1>3, <2>1
<1>5. batch \in [1 .. n -> Vector]
  <2> DEFINE text(i) == LET mine == {k \in DOMAIN data : data[k].index = i - 1} IN
                        IF mine = {} THEN NoVector
                        ELSE [of |-> Len(vecs) + i, dim |-> data[GreatestOf(mine)].dim]
  <2>1. batch = [i \in 1 .. n |-> text(i)]
    BY DEF VectorsOf
  <2> HIDE DEF text
  <2>2. \A i \in 1 .. n : text(i) \in Vector
    <3> HIDE DEF batch
    <3> QED BY <1>4, <2>1
  <2> QED BY <2>1, <2>2
<1>6. batch \in Seq(Vector) /\ Len(batch) = n
  <2> HIDE DEF batch
  <2>1. batch \in Seq(Vector)
    BY <1>5, SeqDef
  <2> QED BY <1>2, <2>1, LenProperties
<1> QED BY <1>3, <1>6

-----------------------------------------------------------------------------
(* What has been received and inserted belongs, number by number, to the   *)
(* chunks of the document.                                                 *)
StoredRow == [chunk : Nat, vec : Vector]

RowOf(i) == [chunk |-> i, vec |-> [of |-> i, dim |-> StoreDim]]

RowInv ==
  /\ Len(vecs) <= Len(chunks) /\ Len(tx) <= Len(vecs)
  /\ step = "cut" => vecs = <<>>
  /\ step = "insert" => Len(vecs) = Len(chunks)
  /\ \A i \in 1 .. Len(vecs) : vecs[i] = [of |-> i, dim |-> dim]
  /\ \A i \in 1 .. Len(tx) : tx[i] = RowOf(i)
  /\ RowsAreWhole

IndexInv == CoverInv /\ RowInv

(* The lengths are numbers.                                                *)
LEMMA Lengths ==
  ASSUME IndexTypeInv
  PROVE  /\ Len(chunks) \in Nat /\ Len(vecs) \in Nat /\ Len(tx) \in Nat
         /\ vecs \in Seq(Vector) /\ tx \in Seq(StoredRow)
         /\ dim \in Nat \ {0} /\ StoreDim \in Nat
         /\ EmbedBatch \in Nat \ {0} /\ InsertBatch \in Nat \ {0}
BY IndexAssumption, LenProperties DEF IndexTypeInv, IndexTypeOK, StoredRow

(* A batch is appended to those before it.                                 *)
LEMMA EmbedKeeps == ASSUME IndexInv, EmbedSome PROVE IndexTypeInv' /\ RowInv'
<1>1. /\ step = "embed" /\ Len(vecs) < Len(chunks)
      /\ UNCHANGED <<doc, chunker, dim, cutting, storing, before>>
  BY DEF EmbedSome
<1>2. IndexTypeInv /\ RowInv
  BY DEF IndexInv, CoverInv
<1>3. /\ Len(chunks) \in Nat /\ Len(vecs) \in Nat /\ Len(tx) \in Nat
      /\ vecs \in Seq(Vector) /\ EmbedBatch \in Nat \ {0}
  BY <1>2, Lengths
<1>4. BatchSize \in Nat /\ Len(vecs) + BatchSize <= Len(chunks)
  BY <1>1, <1>3 DEF BatchSize
<1>5. PICK data \in Answers(BatchSize) :
        IF Fits(VectorsOf(data, BatchSize))
        THEN vecs' = vecs \o VectorsOf(data, BatchSize) /\ UNCHANGED step
        ELSE step' = "failed" /\ UNCHANGED vecs
  BY DEF EmbedSome
<1>6. CASE Fits(VectorsOf(data, BatchSize))
  <2> DEFINE batch == VectorsOf(data, BatchSize)
  <2>1. /\ batch \in Seq(Vector) /\ Len(batch) = BatchSize
        /\ \A i \in 1 .. BatchSize : batch[i] = [of |-> Len(vecs) + i, dim |-> dim]
    BY <1>2, <1>4, <1>6, BatchIsOwn
  <2>2. vecs' = vecs \o batch /\ step' = step
    BY <1>5, <1>6
  <2> HIDE DEF batch
  <2>3. /\ vecs' \in Seq(Vector) /\ Len(vecs') = Len(vecs) + BatchSize
        /\ \A i \in 1 .. Len(vecs) + BatchSize :
             vecs'[i] = IF i <= Len(vecs) THEN vecs[i] ELSE batch[i - Len(vecs)]
    BY <1>3, <2>1, <2>2, ConcatProperties, ZenonT(40)
  <2>4. ASSUME NEW i \in 1 .. Len(vecs') PROVE vecs'[i] = [of |-> i, dim |-> dim]
    <3>1. CASE i <= Len(vecs)
      <4>1. i \in 1 .. Len(vecs) /\ vecs'[i] = vecs[i]
        BY <1>3, <1>4, <2>3, <3>1
      <4> QED BY <1>2, <4>1 DEF RowInv
    <3>2. CASE i > Len(vecs)
      <4>1. i - Len(vecs) \in 1 .. BatchSize /\ Len(vecs) + (i - Len(vecs)) = i
        BY <1>3, <1>4, <2>3, <3>2
      <4>2. vecs'[i] = batch[i - Len(vecs)]
        BY <1>3, <1>4, <2>3, <3>2
      <4> QED BY <2>1, <4>1, <4>2
    <3> QED BY <1>3, <1>4, <2>3, <3>1, <3>2
  <2>5. IndexTypeInv'
    BY <1>1, <1>2, <2>2, <2>3 DEF IndexTypeInv, IndexTypeOK, Half, chunker, cutting, storing
  <2>6. Len(vecs') <= Len(chunks) /\ Len(tx) <= Len(vecs')
    BY <1>2, <1>3, <1>4, <2>3 DEF RowInv
  <2>7. RowsAreWhole'
    BY <1>1, <1>2, <2>2 DEF RowInv, RowsAreWhole, NewRows, storing, cutting
  <2> QED BY <1>1, <2>2, <2>4, <2>5, <2>6, <2>7, <1>2 DEF RowInv, chunker, cutting, storing
<1>7. CASE ~Fits(VectorsOf(data, BatchSize))
  <2>1. step' = "failed" /\ vecs' = vecs
    BY <1>5, <1>7
  <2> QED BY <1>1, <1>2, <2>1
          DEF IndexTypeInv, IndexTypeOK, Half, RowInv, RowsAreWhole, NewRows, chunker, cutting, storing
<1> QED BY <1>6, <1>7

(* An INSERT appends the next rows, if they have the column's dimension.   *)
LEMMA InsertKeeps == ASSUME IndexInv, InsertSome PROVE IndexTypeInv' /\ RowInv'
<1> DEFINE left == Len(chunks) - Len(tx)
           n    == IF left > InsertBatch THEN InsertBatch ELSE left
           rest == [k \in 1 .. n |-> Row(Len(tx) + k)]
<1>1. /\ step = "insert" /\ left > 0
      /\ IF \E k \in 1 .. n : rest[k].vec.dim # StoreDim
           THEN step' = "failed" /\ UNCHANGED tx
           ELSE tx' = tx \o rest /\ UNCHANGED step
      /\ UNCHANGED <<doc, chunker, dim, cutting, vecs, stored, before>>
  BY DEF InsertSome
<1>2. IndexTypeInv /\ RowInv
  BY DEF IndexInv, CoverInv
<1>3. /\ Len(chunks) \in Nat /\ Len(vecs) \in Nat /\ Len(tx) \in Nat
      /\ tx \in Seq(StoredRow) /\ InsertBatch \in Nat \ {0} /\ StoreDim \in Nat
  BY <1>2, Lengths
<1>4. n \in Nat \ {0} /\ Len(tx) + n <= Len(chunks) /\ Len(vecs) = Len(chunks)
  BY <1>1, <1>2, <1>3 DEF RowInv
<1> HIDE DEF n
<1>5. CASE \E k \in 1 .. n : rest[k].vec.dim # StoreDim
  <2>1. step' = "failed" /\ tx' = tx
    BY <1>1, <1>5
  <2> QED BY <1>1, <1>2, <2>1
          DEF IndexTypeInv, IndexTypeOK, Half, RowInv, RowsAreWhole, NewRows, chunker, cutting
<1>6. CASE ~ \E k \in 1 .. n : rest[k].vec.dim # StoreDim
  <2>1. tx' = tx \o rest /\ step' = step
    BY <1>1, <1>6
  <2>2. ASSUME NEW k \in 1 .. n PROVE rest[k] = RowOf(Len(tx) + k)
    <3>1. Len(tx) + k \in 1 .. Len(vecs)
      BY <1>3, <1>4
    <3>2. vecs[Len(tx) + k] = [of |-> Len(tx) + k, dim |-> dim]
      BY <1>2, <3>1 DEF RowInv
    <3>3. rest[k] = [chunk |-> Len(tx) + k, vec |-> vecs[Len(tx) + k]]
      BY DEF Row
    <3>4. rest[k].vec.dim = StoreDim
      BY <1>6
    <3>5. dim = StoreDim
      BY <3>2, <3>3, <3>4
    <3> QED BY <3>2, <3>3, <3>5 DEF RowOf
  <2>3. \A j \in Nat : RowOf(j) \in StoredRow
    BY <1>3 DEF RowOf, StoredRow, Vector
  <2>4. rest \in [1 .. n -> StoredRow]
    <3>1. \A k \in 1 .. n : rest[k] \in StoredRow
      <4> SUFFICES ASSUME NEW k \in 1 .. n PROVE rest[k] \in StoredRow
        OBVIOUS
      <4>1. rest[k] = RowOf(Len(tx) + k) /\ Len(tx) + k \in Nat
        BY <1>3, <2>2
      <4> HIDE DEF rest
      <4> QED BY <2>3, <4>1
    <3> QED BY <3>1
  <2>5. DOMAIN rest = 1 .. n
    OBVIOUS
  <2> HIDE DEF rest
  <2>6. rest \in Seq(StoredRow)
    BY <1>4, <2>4, SeqDef
  <2>7. Len(rest) = n
    BY <1>4, <2>5, <2>6, LenProperties
  <2>8. /\ tx' \in Seq(StoredRow) /\ Len(tx') = Len(tx) + n
        /\ \A i \in 1 .. Len(tx) + n :
             tx'[i] = IF i <= Len(tx) THEN tx[i] ELSE rest[i - Len(tx)]
    BY <1>3, <2>1, <2>6, <2>7, ConcatProperties
  <2>9. ASSUME NEW i \in 1 .. Len(tx') PROVE tx'[i] = RowOf(i)
    <3>1. CASE i <= Len(tx)
      BY <1>2, <1>3, <1>4, <2>8, <3>1 DEF RowInv
    <3>2. CASE i > Len(tx)
      <4>1. i - Len(tx) \in 1 .. n /\ Len(tx) + (i - Len(tx)) = i
        BY <1>3, <1>4, <2>8, <3>2
      <4>2. tx'[i] = rest[i - Len(tx)]
        BY <1>3, <1>4, <2>8, <3>2
      <4> QED BY <2>2, <4>1, <4>2
    <3> QED BY <1>3, <1>4, <2>8, <3>1, <3>2
  <2>10. IndexTypeInv'
    BY <1>1, <1>2, <2>1, <2>8 DEF IndexTypeInv, IndexTypeOK, Half, chunker, cutting, StoredRow
  <2>11. RowsAreWhole'
    BY <1>1, <1>2, <2>1 DEF RowInv, RowsAreWhole, NewRows, cutting
  <2>12. Len(tx') <= Len(vecs)
    BY <1>3, <1>4, <2>8
  <2> QED BY <1>1, <1>2, <2>1, <2>9, <2>10, <2>11, <2>12 DEF RowInv, chunker, cutting
<1> QED BY <1>5, <1>6

-----------------------------------------------------------------------------
LEMMA InitIndex == IndexInit => IndexInv
<1> SUFFICES ASSUME NEW d \in Documents, NEW c \in Configs, NEW m \in Dims,
                    NEW old \in {<<>>, OldRows}, IndexStart(d, c, m, old)
             PROVE  IndexInv
  BY DEF IndexInit
<1> USE DEF IndexStart
<1>1. d \in Seq(Seq(STRING)) /\ c[1] \in Nat /\ c[2] \in Nat /\ Dims \subseteq Nat \ {0}
  BY IndexAssumption
<1>2. size \in Nat \ {0} /\ overlap \in Nat /\ Half
  BY <1>1, Clamped DEF Half
<1>3. <<>> \in Seq(StoredRow) /\ OldRows \in Seq(StoredRow)
  <2>1. NoVector \in Vector
    BY DEF NoVector, Vector
  <2> DEFINE r == [chunk |-> 0, vec |-> NoVector]
  <2>2. r \in StoredRow
    BY <2>1 DEF StoredRow
  <2> HIDE DEF r
  <2>3. <<>> \in Seq(StoredRow) /\ <<r>> \in Seq(StoredRow)
    BY <2>2
  <2> QED BY <2>3 DEF OldRows, r
<1>4. Len(d) \in Nat
  BY <1>1, LenProperties
<1>5. IndexTypeInv
  <2>1. part \in 1 .. (Len(doc) + 1)
    BY <1>4
  <2>2. pieces \in Seq(Piece) /\ chunks \in Seq(Chunk) /\ vecs \in Seq(Vector)
    BY EmptySeq
  <2>3. tx \in Seq(StoredRow) /\ stored \in Seq(StoredRow) /\ before \in Seq(StoredRow)
    BY <1>3
  <2> QED BY <1>1, <1>2, <2>1, <2>2, <2>3 DEF IndexTypeInv, IndexTypeOK, StoredRow
<1>6. CutInv /\ PiecesAdvance
  BY DEF CutInv, PiecesAdvance
<1>7. NothingLost
  <2>1. DOMAIN doc = 1 .. Len(doc) /\ part = 1 /\ LastEnd = 0
    BY <1>1, LenProperties DEF LastEnd
  <2> SUFFICES ASSUME NEW p \in DOMAIN doc, NEW i \in DOMAIN doc[p],
                      p < part \/ (p = part /\ i <= LastEnd)
               PROVE  FALSE
    BY DEF NothingLost
  <2>2. doc[p] \in Seq(STRING)
    BY <1>1, <2>1, ElementOfSeq
  <2>3. i \in 1 .. Len(doc[p])
    BY <2>2, LenProperties
  <2> QED BY <1>4, <2>1, <2>3
<1>8. RowInv
  BY DEF RowInv, RowsAreWhole
<1> QED BY <1>5, <1>6, <1>7, <1>8 DEF IndexInv, CoverInv

LEMMA StepIndex == IndexInv /\ [IndexNext]_indexVars => IndexInv'
<1> SUFFICES ASSUME IndexInv, [IndexNext]_indexVars PROVE IndexInv'
  OBVIOUS
<1>1. CoverInv /\ IndexTypeInv /\ RowInv
  BY DEF IndexInv, CoverInv
<1>2. CASE CutPiece
  <2>1. IndexTypeInv' /\ CutInv' /\ PiecesAdvance' /\ NothingLost'
    BY <1>1, <1>2, CutType, CutAdvances, CutLosesNothing
  <2>2. Len(chunks') \in Nat
    BY <2>1, LenProperties DEF IndexTypeInv, IndexTypeOK
  <2>3. /\ UNCHANGED <<dim, step, vecs, tx, stored, before>>
        /\ step = "cut" /\ vecs = <<>> /\ Len(vecs) = 0
    BY <1>1, <1>2 DEF CutPiece, storing, RowInv
  <2>4. RowInv'
    BY <1>1, <2>2, <2>3 DEF RowInv, RowsAreWhole
  <2> QED BY <2>1, <2>4 DEF IndexInv, CoverInv
<1>3. CASE NextPart
  <2>1. (CutInv /\ PiecesAdvance /\ NothingLost)'
    BY <1>1, <1>3, NextPartCovers
  <2>2. part' \in 1 .. (Len(doc) + 1) /\ start' \in Nat /\ pieces' \in Seq(Piece)
    BY <1>1, <1>3, EmptySeq, LenProperties DEF NextPart, IndexTypeInv, IndexTypeOK
  <2>3. IndexTypeInv' /\ RowInv'
    BY <1>1, <1>3, <2>2
       DEF NextPart, IndexTypeInv, IndexTypeOK, Half, RowInv, RowsAreWhole, NewRows, chunker, storing
  <2> QED BY <2>1, <2>3 DEF IndexInv, CoverInv
<1>4. CASE EmbedSome
  <2>1. IndexTypeInv' /\ RowInv'
    BY <1>4, EmbedKeeps
  <2>2. (CutInv /\ PiecesAdvance /\ NothingLost)'
    BY <1>1, <1>4, CoverUnchanged DEF EmbedSome
  <2> QED BY <2>1, <2>2 DEF IndexInv, CoverInv
<1>5. CASE InsertSome
  <2>1. IndexTypeInv' /\ RowInv'
    BY <1>5, InsertKeeps
  <2>2. (CutInv /\ PiecesAdvance /\ NothingLost)'
    BY <1>1, <1>5, CoverUnchanged DEF InsertSome
  <2> QED BY <2>1, <2>2 DEF IndexInv, CoverInv
<1>6. CASE CutDone \/ EmbedError \/ Rollback \/ UNCHANGED indexVars
  <2>1. (CutInv /\ PiecesAdvance /\ NothingLost)'
    BY <1>1, <1>6, CoverUnchanged DEF CutDone, EmbedError, Rollback, indexVars
  <2>2. IndexTypeInv' /\ RowInv'
    BY <1>1, <1>6 DEF CutDone, EmbedError, Rollback, indexVars, IndexTypeInv, IndexTypeOK, Half,
                      RowInv, RowsAreWhole, NewRows, chunker, cutting, storing
  <2> QED BY <2>1, <2>2 DEF IndexInv, CoverInv
<1>7. CASE BeginTx
  <2>1. (CutInv /\ PiecesAdvance /\ NothingLost)'
    BY <1>1, <1>7, CoverUnchanged DEF BeginTx
  <2>2. tx' = <<>> /\ tx' \in Seq(StoredRow) /\ Len(tx') = 0 /\ Len(vecs) \in Nat
    BY <1>1, <1>7, EmptySeq, Lengths DEF BeginTx
  <2>3. IndexTypeInv' /\ RowInv'
    BY <1>1, <1>7, <2>2 DEF BeginTx, IndexTypeInv, IndexTypeOK, Half, StoredRow,
                            RowInv, RowsAreWhole, NewRows, chunker, cutting
  <2> QED BY <2>1, <2>3 DEF IndexInv, CoverInv
<1>8. CASE Commit
  <2>1. (CutInv /\ PiecesAdvance /\ NothingLost)'
    BY <1>1, <1>8, CoverUnchanged DEF Commit
  <2>2. /\ Len(tx) = Len(chunks) /\ stored' = tx /\ step' \in {"indexed", "failed"}
        /\ UNCHANGED <<doc, chunker, dim, cutting, vecs, tx, before>>
    BY <1>8 DEF Commit
  <2>3. tx \in Seq(StoredRow) /\ Len(tx) \in Nat
    BY <1>1, Lengths
  <2>4. tx = [i \in 1 .. Len(tx) |-> RowOf(i)]
    <3>1. tx \in [1 .. Len(tx) -> StoredRow]
      BY <2>3, LenProperties
    <3>2. \A i \in 1 .. Len(tx) : tx[i] = RowOf(i)
      BY <1>1 DEF RowInv
    <3> QED BY <3>1, <3>2
  <2>5. DOMAIN chunks = 1 .. Len(tx)
    BY <1>1, <2>2, LenProperties DEF IndexTypeInv, IndexTypeOK
  <2>6. RowsAreWhole'
    BY <2>2, <2>4, <2>5 DEF RowsAreWhole, NewRows, RowOf, cutting
  <2>7. IndexTypeInv'
    BY <1>1, <2>2, <2>3 DEF IndexTypeInv, IndexTypeOK, Half, StoredRow, chunker, cutting
  <2>8. RowInv'
    BY <1>1, <2>2, <2>6 DEF RowInv, chunker, cutting
  <2> QED BY <2>1, <2>7, <2>8 DEF IndexInv, CoverInv
<1> QED BY <1>2, <1>3, <1>4, <1>5, <1>6, <1>7, <1>8 DEF IndexNext

LEMMA IndexInductive == IndexSpec => []IndexInv
BY InitIndex, StepIndex, PTL DEF IndexSpec

-----------------------------------------------------------------------------
(* Every variable keeps its type.                                          *)
THEOREM IndexTypeCorrect == IndexSpec => []IndexTypeOK
<1>1. IndexInv => IndexTypeOK
  BY DEF IndexInv, CoverInv, IndexTypeInv
<1> QED BY <1>1, IndexInductive, PTL

(* For every text, size and overlap the chunker always gets on, leaves no  *)
(* gap between its pieces and loses no character that is not blank.        *)
THEOREM ChunkerLosesNothing == IndexSpec => []ChunksCoverText
<1>1. IndexInv => ChunksCoverText
  BY DEF IndexInv, CoverInv, ChunksCoverText
<1> QED BY <1>1, IndexInductive, PTL

(* Whatever the provider answers and wherever it fails, a lost answer of   *)
(* COMMIT included, the stored rows are all of the new ones, each with the *)
(* vector of its own chunk, or all of the old ones; the old ones before    *)
(* the commit, and the new ones when the document is reported indexed.     *)
THEOREM IndexIsAtomic == IndexSpec => []RowsAreWhole
<1>1. IndexInv => RowsAreWhole
  BY DEF IndexInv, RowInv
<1> QED BY <1>1, IndexInductive, PTL
=============================================================================
