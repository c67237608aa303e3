------------------------------ MODULE PartsProofs -------------------------------
(***************************************************************************)
(* The parts of the server that share no state with each other: each keeps *)
(* its promise, whatever the values of its constants.                      *)
(***************************************************************************)
EXTENDS ModelStream, Conversation, RateLimit, Projects, Paging, Accounts,
        SequenceTheorems, FiniteSetTheorems, TLAPS

-----------------------------------------------------------------------------
(* Projects: a patch that overlaps another is the only one that undoes it. *)

(* A row is a record, however it is written.                               *)
LEMMA RowByField ==
  ASSUME NEW A, NEW B, NEW g \in [Fields -> A \cup B], g["name"] \in A, g["settings"] \in B
  PROVE  /\ g = [name |-> g["name"], settings |-> g["settings"]]
         /\ g \in [name : A, settings : B]
<1>1. g = [name |-> g["name"], settings |-> g["settings"]]
  BY DEF Fields
<1>. QED
  BY <1>1

LEMMA ProjectsInitially == ProjectInit => ProjectsInv
<1> SUFFICES ASSUME NEW wishes \in [Patches -> Wishes], ProjectStart(wishes)
             PROVE  ProjectsInv
  BY DEF ProjectInit
<1>. QED
  BY ProjectsAssumption
     DEF ProjectStart, ProjectsInv, ProjectsTypeOK, Named, CopiesTell, PatchesSurvive, First,
         Gone, Rows, ProjectRow, Fields

(* The row an update writes.                                               *)
LEMMA RowPatched ==
  ASSUME ProjectsTypeOK, Named, NEW p \in Patches
  PROVE  /\ Patched(p) \in ProjectRow
         /\ Patched(p).name # "gone"
         /\ \A f \in Fields : Patched(p)[f] = IF asked[p][f] = "keep" THEN copy[p][f] ELSE asked[p][f]
<1> DEFINE row == Patched(p)
           A == Names \cup {"first", "gone"}
           B == {"initial", "new", "gone"}
<1>1. copy[p] \in ProjectRow /\ asked[p] \in Wishes
  BY DEF ProjectsTypeOK
<1>2. \A f \in Fields : row[f] = IF asked[p][f] = "keep" THEN copy[p][f] ELSE asked[p][f]
  BY DEF Patched
<1>3. row["name"] \in A /\ row["settings"] \in B /\ row["name"] # "gone"
  BY <1>1, <1>2, ProjectsAssumption DEF ProjectRow, Wishes, Fields, Named
<1>4. row = [f \in Fields |-> row[f]]
  BY DEF Patched
<1>5. row \in [Fields -> A \cup B]
  BY <1>3, <1>4 DEF Fields
<1> HIDE DEF row
<1>6. row \in ProjectRow
  BY <1>3, <1>5, RowByField DEF ProjectRow
<1>. QED
  BY <1>2, <1>3, <1>6 DEF row

LEMMA ProjectsStep == ProjectsInv /\ [ProjectNext]_projectVars => ProjectsInv'
<1> SUFFICES ASSUME ProjectsInv, [ProjectNext]_projectVars PROVE ProjectsInv'
  OBVIOUS
<1> USE DEF ProjectsInv, Rows
<1>1. CASE UNCHANGED projectVars
  BY <1>1 DEF projectVars, ProjectsTypeOK, Named, CopiesTell, PatchesSurvive
<1>2. ASSUME NEW p \in Patches, GetByID(p) PROVE ProjectsInv'
  <2> USE <1>2 DEF GetByID
  <2>1. ProjectsTypeOK'
    BY DEF ProjectsTypeOK
  <2>2. Named'
    BY DEF ProjectsTypeOK, Named
  <2>3. CopiesTell'
    BY DEF ProjectsTypeOK, CopiesTell, PatchesSurvive
  <2>4. PatchesSurvive'
    BY DEF PatchesSurvive
  <2>. QED
    BY <2>1, <2>2, <2>3, <2>4
<1>3. ASSUME NEW p \in Patches, Update(p) PROVE ProjectsInv'
  <2> DEFINE row == Patched(p)
  <2>0. /\ row \in ProjectRow
        /\ row.name # "gone"
        /\ \A f \in Fields : row[f] = IF asked[p][f] = "keep" THEN copy[p][f] ELSE asked[p][f]
    BY RowPatched
  <2> HIDE DEF row
  <2>1. /\ change[p] = "read" /\ change' = [change EXCEPT ![p] = "done"]
        /\ ~Taken(row.name, "project") /\ projects["project"] # Gone
        /\ projects' = [projects EXCEPT !["project"] = row]
        /\ latest' = [f \in Fields |-> IF Asks(p, f) THEN asked[p][f] ELSE latest[f]]
        /\ since' = [q \in Patches |-> since[q] \cup {f \in Fields : Asks(p, f)}]
        /\ overlaid' = {f \in overlaid \cup since[p] : ~Asks(p, f)}
        /\ UNCHANGED <<asked, copy>>
    BY <1>3 DEF Update, Step, row
  <2>2. latest' \in ProjectRow
    <3>1. asked[p] \in Wishes /\ latest \in ProjectRow
      BY DEF ProjectsTypeOK
    <3>2. latest' = [f \in Fields |-> latest'[f]]
      BY <2>1
    <3>3. /\ latest'["name"] \in Names \cup {"first", "gone"}
          /\ latest'["settings"] \in {"initial", "new", "gone"}
      BY <2>1, <3>1 DEF Fields, ProjectRow, Wishes, Asks
    <3>4. latest' \in [Fields -> (Names \cup {"first", "gone"}) \cup {"initial", "new", "gone"}]
      BY <3>2, <3>3 DEF Fields
    <3>. QED
      BY <3>3, <3>4, RowByField DEF ProjectRow
  <2>3. ProjectsTypeOK'
    BY <2>0, <2>1, <2>2 DEF ProjectsTypeOK
  <2>4. Named'
    BY <2>0, <2>1 DEF ProjectsTypeOK, Named
  <2>5. CopiesTell'
    BY <2>1 DEF ProjectsTypeOK, CopiesTell, Asks
  <2>6. \A f \in Fields : row[f] = latest'[f] \/ f \in overlaid'
    BY <2>0, <2>1 DEF CopiesTell, Asks
  <2>7. PatchesSurvive'
    BY <2>1, <2>6 DEF ProjectsTypeOK, PatchesSurvive, Taken
  <2>. QED
    BY <2>3, <2>4, <2>5, <2>7
<1>4. ASSUME NEW p \in Patches, UpdateFails(p) PROVE ProjectsInv'
  BY <1>4 DEF UpdateFails, Step, ProjectsTypeOK, Named, CopiesTell, PatchesSurvive
<1>5. ASSUME NEW c \in Creations, NEW name \in Names, Create(c, name) PROVE ProjectsInv'
  <2> USE <1>5, ProjectsAssumption DEF Create
  <2>1. ProjectsTypeOK'
    BY DEF ProjectsTypeOK, ProjectRow
  <2>2. Named'
    BY DEF ProjectsTypeOK, Named
  <2>3. CopiesTell'
    BY DEF ProjectsTypeOK, CopiesTell
  <2>4. PatchesSurvive'
    BY DEF ProjectsTypeOK, PatchesSurvive, Taken
  <2>. QED
    BY <2>1, <2>2, <2>3, <2>4
<1>6. CASE Delete
  BY <1>6 DEF Delete, ProjectsTypeOK, Named, CopiesTell, PatchesSurvive, Gone, ProjectRow
<1>. QED
  BY <1>1, <1>2, <1>3, <1>4, <1>5, <1>6 DEF ProjectNext, Patch

(* Whatever requests overlap, a patch is undone only by another that read  *)
(* the row before it, and names stay unique (project/service.go:35-145).   *)
THEOREM PatchesAreKept == ProjectSpec => []PatchesSurvive
<1>1. ProjectsInv => PatchesSurvive
  BY DEF ProjectsInv
<1>. QED
  BY ProjectsInitially, ProjectsStep, <1>1, PTL DEF ProjectSpec
-----------------------------------------------------------------------------
(* The model's stream: as long as the position of a piece in its chunk is  *)
(* its number, the calls are put together as they were sent.               *)

Piece == [call : Nat \ {0}, name : CallNames \cup {NoName}, args : Seq(Nat \X Nat)]

LEMMA StreamInitially == StreamInit => StreamInv
  BY DEF StreamInit, StreamStart, StreamInv, StreamTypeOK, InStep, CallsAsSent, AsSent, Call

LEMMA PieceRecord ==
  ASSUME NEW n \in Nat \ {0}, NEW name \in CallNames \cup {NoName}, NEW args \in Seq(Nat \X Nat)
  PROVE  /\ [call |-> n, name |-> name, args |-> args] \in Piece
         /\ [call |-> n, name |-> name, args |-> args].call = n
  BY DEF Piece

LEMMA PieceType ==
  ASSUME StreamTypeOK, NEW n \in Nat \ {0}, NEW name \in CallNames
  PROVE  PieceOf(n, name) \in Piece /\ PieceOf(n, name).call = n
<1>0. Len(sent) \in Nat
  BY DEF StreamTypeOK
<1>1. CASE n > Len(sent)
  <2> DEFINE args == <<>>
  <2>1. PieceOf(n, name) = [call |-> n, name |-> name, args |-> args]
    BY <1>1 DEF PieceOf
  <2>2. args \in Seq(Nat \X Nat) /\ name \in CallNames \cup {NoName}
    OBVIOUS
  <2> HIDE DEF args
  <2>. QED
    BY <2>1, <2>2, PieceRecord
<1>2. CASE ~(n > Len(sent))
  <2>1. sent[n] \in Call
    <3>1. n \in 1 .. Len(sent)
      BY <1>0, <1>2
    <3>. QED
      BY <3>1, ElementOfSeq DEF StreamTypeOK
  <2>1a. Len(sent[n].args) \in Nat
    BY <2>1 DEF Call
  <2> DEFINE args == << <<n, Len(sent[n].args) + 1>> >>
  <2>2. args \in Seq(Nat \X Nat)
    BY <2>1a
  <2>3. PieceOf(n, name) = [call |-> n, name |-> NoName, args |-> args]
    BY <1>2 DEF PieceOf
  <2> HIDE DEF args
  <2>. QED
    BY <2>2, <2>3, PieceRecord
<1>. QED
  BY <1>1, <1>2

(* The chunks a provider sends, in either style.                           *)
LEMMA ChunkForm ==
  ASSUME StreamTypeOK, NEW chunk \in Chunks
  PROVE  \E m \in Nat \ {0} :
           /\ chunk \in [1 .. m -> Piece]
           /\ \/ style # "one by one" /\ \A i \in 1 .. m : chunk[i].call = i
              \/ style = "one by one" /\ m = 1
                 /\ chunk[1].call \in {Len(sent), Len(sent) + 1}
<1>0. Len(sent) \in Nat
  BY DEF StreamTypeOK
<1>1. CASE style = "one by one"
  <2>1. chunk \in OneByOne
    BY <1>1, Zenon DEF Chunks
  <2>2. PICK n \in {Len(sent), Len(sent) + 1} \ {0}, name \in CallNames : chunk = <<PieceOf(n, name)>>
    BY <2>1 DEF OneByOne
  <2>3. n \in Nat \ {0} /\ n \in {Len(sent), Len(sent) + 1}
    BY <1>0
  <2> DEFINE piece == PieceOf(n, name)
  <2>4. piece \in Piece /\ piece.call = n
    BY <2>3, PieceType
  <2> HIDE DEF piece
  <2>5. chunk = <<piece>>
    BY <2>2 DEF piece
  <2>6. chunk \in [1 .. 1 -> Piece] /\ chunk[1] = piece
    BY <2>4, <2>5
  <2>7. style = "one by one" /\ 1 = 1 /\ chunk[1].call \in {Len(sent), Len(sent) + 1}
    BY <1>1, <2>3, <2>4, <2>6, Zenon
  <2>8. 1 \in Nat \ {0}
    OBVIOUS
  <2>. QED
    BY <2>6, <2>7, <2>8, Zenon
<1>2. CASE style # "one by one"
  <2>1. chunk \in UNION {SideBySide(m) : m \in Widths}
    BY <1>2, Zenon DEF Chunks
  <2>2. PICK m \in Widths : chunk \in SideBySide(m)
    BY <2>1
  <2>3. m \in Nat \ {0}
    <3>1. CASE sent = <<>>
      BY <2>2, <3>1 DEF Widths
    <3>2. CASE sent # <<>>
      BY <1>0, <2>2, <3>2 DEF StreamTypeOK, Widths
    <3>. QED
      BY <3>1, <3>2
  <2>4. PICK names \in [1 .. m -> CallNames] : chunk = [n \in 1 .. m |-> PieceOf(n, names[n])]
    BY <2>2 DEF SideBySide
  <2>5. \A n \in 1 .. m : PieceOf(n, names[n]) \in Piece /\ PieceOf(n, names[n]).call = n
    BY <2>3, <2>4, PieceType
  <2>6. chunk \in [1 .. m -> Piece] /\ \A i \in 1 .. m : chunk[i].call = i
    BY <2>4, <2>5
  <2>. QED
    BY <1>2, <2>3, <2>6, Zenon
<1>. QED
  BY <1>1, <1>2, Zenon

(* Pieces are added to the calls of their numbers.                         *)
Numbered(m, chunk, number, top) ==
  /\ m \in Nat \ {0} /\ chunk \in [1 .. m -> Piece] /\ number \in [1 .. m -> Nat \ {0}]
  /\ top \in 1 .. m /\ \A i \in 1 .. m : number[i] <= number[top]

LEMMA CallsWithPieces ==
  ASSUME NEW s \in Seq(Call), NEW m, NEW chunk, NEW number, NEW top, Numbered(m, chunk, number, top)
  PROVE  /\ WithPieces(s, chunk, number) \in Seq(Call)
         /\ Len(WithPieces(s, chunk, number)) = Longer(Len(s), number[top])
<1>0. /\ m \in Nat \ {0} /\ chunk \in [1 .. m -> Piece] /\ number \in [1 .. m -> Nat \ {0}]
      /\ top \in 1 .. m /\ \A i \in 1 .. m : number[i] <= number[top]
  BY DEF Numbered
<1> USE <1>0
<1> DEFINE last == CHOOSE n \in {number[i] : i \in DOMAIN chunk} :
                     \A i \in DOMAIN chunk : number[i] <= n
           mine(n) == {i \in DOMAIN chunk : number[i] = n}
           new(n) == IF mine(n) = {} THEN At(s, n)
                     ELSE LET p == chunk[CHOOSE i \in mine(n) : TRUE] IN
                          [name |-> IF p.name # NoName THEN p.name ELSE At(s, n).name,
                           args |-> At(s, n).args \o p.args]
<1>1. last = number[top]
  <2> DEFINE N == {number[i] : i \in DOMAIN chunk}
  <2>1. number[top] \in N
    OBVIOUS
  <2>2. \A n \in N : \A i \in DOMAIN chunk : number[i] <= number[top]
    OBVIOUS
  <2>3. \A n \in N : n \in Nat /\ (number[top] <= n => n = number[top])
    OBVIOUS
  <2> HIDE DEF N
  <2>4. last = CHOOSE n \in N : \A i \in DOMAIN chunk : number[i] <= n
    BY DEF N
  <2>5. last \in N /\ \A i \in DOMAIN chunk : number[i] <= last
    BY <2>1, <2>2, <2>4
  <2> HIDE DEF last
  <2>6. number[top] <= last
    BY <2>5
  <2>. QED
    BY <2>3, <2>5, <2>6
<1>2. \A n \in Nat \ {0} : At(s, n) \in Call
  <2>1. NoCall \in Call
    BY DEF NoCall, Call
  <2>2. ASSUME NEW n \in Nat \ {0}, n <= Len(s) PROVE s[n] \in Call
    BY <2>2
  <2>. QED
    BY <2>1, <2>2 DEF At
<1>3. ASSUME NEW n \in Nat \ {0} PROVE new(n) \in Call
  <2>1. At(s, n).name \in CallNames \cup {NoName} /\ At(s, n).args \in Seq(Nat \X Nat)
    BY <1>2 DEF Call
  <2>2. CASE mine(n) = {}
    BY <1>2, <2>2
  <2>3. CASE mine(n) # {}
    <3> DEFINE p == chunk[CHOOSE i \in mine(n) : TRUE]
    <3>1. (CHOOSE i \in mine(n) : TRUE) \in mine(n)
      BY <2>3
    <3>2. p \in Piece
      BY <3>1
    <3> HIDE DEF p, mine
    <3>3. p.name \in CallNames \cup {NoName} /\ p.args \in Seq(Nat \X Nat)
      BY <3>2, Zenon DEF Piece
    <3>4. At(s, n).args \o p.args \in Seq(Nat \X Nat)
      BY <2>1, <3>3
    <3>5. new(n) = [name |-> IF p.name # NoName THEN p.name ELSE At(s, n).name,
                    args |-> At(s, n).args \o p.args]
      BY <2>3 DEF p
    <3>. QED
      BY <2>1, <3>3, <3>4, <3>5 DEF Call
  <2>. QED
    BY <2>2, <2>3
<1> DEFINE k == Longer(Len(s), number[top])
<1>4. k \in Nat
  BY DEF Longer
<1>5. WithPieces(s, chunk, number) = [n \in 1 .. k |-> new(n)]
  BY <1>1 DEF WithPieces
<1> HIDE DEF new, k
<1>6. [n \in 1 .. k |-> new(n)] \in Seq(Call) /\ Len([n \in 1 .. k |-> new(n)]) = k
  BY <1>3, <1>4
<1>. QED
  BY <1>5, <1>6 DEF k
(* A call that is completed keeps its name.                                *)
LEMMA CompletedCall ==
  ASSUME NEW c \in Call
  PROVE  Completed(c) \in Call /\ Completed(c).name = c.name
<1> DEFINE empty == << <<0, 0>> >>
           args == IF c.args = <<>> THEN empty ELSE c.args
<1>1. empty \in Seq(Nat \X Nat)
  OBVIOUS
<1>2. c.args \in Seq(Nat \X Nat)
  BY DEF Call
<1>3. Completed(c) = [c EXCEPT !.args = args]
  BY DEF Completed
<1> HIDE DEF empty
<1>4. args \in Seq(Nat \X Nat)
  BY <1>1, <1>2
<1> HIDE DEF args
<1>. QED
  BY <1>3, <1>4 DEF Call

LEMMA StreamChunk ==
  ASSUME StreamInv, NEW chunk \in Chunks, RecvChunk(chunk)
  PROVE  StreamInv'
<1>0. StreamTypeOK
  BY DEF StreamInv
<1>1. PICK m \in Nat \ {0} :
        /\ chunk \in [1 .. m -> Piece]
        /\ \/ style # "one by one" /\ \A i \in 1 .. m : chunk[i].call = i
           \/ style = "one by one" /\ m = 1
              /\ chunk[1].call \in {Len(sent), Len(sent) + 1}
  BY <1>0, ChunkForm, Zenon
<1>2. /\ sent' = WithPieces(sent, chunk, Number(chunk))
      /\ deltas' = WithPieces(deltas, chunk, Position(chunk))
      /\ UNCHANGED <<style, calls, stream, code, cause>> /\ stream = "open"
  BY DEF RecvChunk
<1>a. chunk \in [1 .. m -> Piece] /\ DOMAIN chunk = 1 .. m
  BY <1>1, Zenon
<1>b. style # "one by one" => \A i \in 1 .. m : chunk[i].call = i
  BY <1>1, Zenon
<1>c. style = "one by one" => m = 1
  BY <1>1, Zenon
<1>d. \A i \in 1 .. m : chunk[i].call \in Nat \ {0}
  <2>1. \A i \in 1 .. m : chunk[i] \in Piece
    BY <1>a
  <2>. QED
    BY <2>1, Zenon DEF Piece
<1>3. PICK top \in 1 .. m : \A i \in 1 .. m : chunk[i].call <= chunk[top].call
  <2>1. CASE style = "one by one"
    <3>1. m = 1
      BY <1>c, <2>1, Zenon
    <3>2. chunk[1].call \in Nat /\ 1 .. m = {1}
      BY <1>d, <3>1
    <3>. QED
      BY <3>2
  <2>2. CASE style # "one by one"
    <3>1. \A i \in 1 .. m : chunk[i].call = i
      BY <1>b, <2>2, Zenon
    <3>2. m \in 1 .. m
      OBVIOUS
    <3>. QED
      BY <3>1, <3>2
  <2>. QED
    BY <2>1, <2>2, Zenon
<1>4. Number(chunk) \in [1 .. m -> Nat \ {0}] /\ \A i \in 1 .. m : Number(chunk)[i] = chunk[i].call
  BY <1>a, <1>d DEF Number
<1>5. \A i \in 1 .. m : Number(chunk)[i] <= Number(chunk)[top]
  BY <1>3, <1>4
<1>6. /\ Position(chunk) \in [1 .. m -> Nat \ {0}]
      /\ m \in 1 .. m /\ \A i \in 1 .. m : Position(chunk)[i] <= Position(chunk)[m]
  <2>1. Position(chunk) = [i \in 1 .. m |-> i]
    BY <1>a DEF Position
  <2>. QED
    BY <2>1
<1>6a. Position(chunk) = [i \in 1 .. m |-> i]
  BY <1>a DEF Position
<1>7. sent' \in Seq(Call) /\ Len(sent') = Longer(Len(sent), Number(chunk)[top])
  <2>1. sent \in Seq(Call)
    BY <1>0 DEF StreamTypeOK
  <2>2. PICK number : number = Number(chunk)
    OBVIOUS
  <2>3. Numbered(m, chunk, number, top)
    BY <1>a, <1>3, <1>4, <1>5, <2>2 DEF Numbered
  <2>4. /\ WithPieces(sent, chunk, number) \in Seq(Call)
        /\ Len(WithPieces(sent, chunk, number)) = Longer(Len(sent), number[top])
    <3>1. \A n, c, k, t : Numbered(n, c, k, t) =>
             /\ WithPieces(sent, c, k) \in Seq(Call)
             /\ Len(WithPieces(sent, c, k)) = Longer(Len(sent), k[t])
      BY <2>1, CallsWithPieces, Zenon
    <3>. QED
      BY <2>3, <3>1, SMT
  <2>. QED
    BY <1>2, <2>2, <2>4
<1>8. deltas' \in Seq(Call)
  <2>1. deltas \in Seq(Call)
    BY <1>0 DEF StreamTypeOK
  <2>2. Numbered(m, chunk, Position(chunk), m)
    BY <1>a, <1>6 DEF Numbered
  <2>3. \A n, c, k, t : Numbered(n, c, k, t) => WithPieces(deltas, c, k) \in Seq(Call)
    BY <2>1, CallsWithPieces, Zenon
  <2>. QED
    BY <1>2, <2>2, <2>3
<1>9. StreamTypeOK'
  BY <1>0, <1>2, <1>7, <1>8 DEF StreamTypeOK
<1>10. ASSUME style # "one by one" \/ Len(sent') <= 1
       PROVE  sent' = deltas'
  <2>0. Len(sent) \in Nat
    BY <1>0 DEF StreamTypeOK
  <2>1. Number(chunk) = Position(chunk) /\ (style # "one by one" \/ Len(sent) <= 1)
    <3>1. CASE style # "one by one"
      <4>1. \A i \in 1 .. m : Number(chunk)[i] = i
        BY <1>4, <1>b, <3>1, Zenon
      <4>. QED
        BY <1>4, <1>6a, <3>1, <4>1, Zenon
    <3>2. CASE style = "one by one"
      <4>0. m = 1 /\ Len(sent') <= 1
        BY <1>c, <1>10, <3>2, Zenon
      <4>1. m = 1 /\ top = 1 /\ Len(sent') <= 1
        BY <4>0
      <4>2. Number(chunk)[1] \in Nat \ {0}
        BY <1>4, <4>1
      <4>3. Len(sent) <= 1 /\ Number(chunk)[1] = 1
        BY <1>7, <2>0, <4>1, <4>2 DEF Longer
      <4>4. Number(chunk) \in [1 .. 1 -> Nat \ {0}] /\ Position(chunk) \in [1 .. 1 -> Nat \ {0}]
        BY <1>4, <1>6, <4>1
      <4>5. Position(chunk)[1] = 1
        BY <1>6a, <4>1
      <4>6. Number(chunk) = Position(chunk)
        BY <4>3, <4>4, <4>5
      <4>. QED
        BY <4>3, <4>6, Zenon
    <3>. QED
      BY <3>1, <3>2, Zenon
  <2>2. deltas = sent
    BY <1>2, <2>1, Zenon DEF StreamInv, InStep
  <2>. QED
    BY <1>2, <2>1, <2>2, Zenon
<1>11. InStep'
  BY <1>2, <1>10, Zenon DEF InStep
<1>12. CallsAsSent'
  BY <1>2 DEF StreamInv, CallsAsSent
<1>. QED
  BY <1>9, <1>11, <1>12 DEF StreamInv

LEMMA StreamEnd == StreamInv /\ RecvEnd => StreamInv'
<1> SUFFICES ASSUME StreamInv, RecvEnd PROVE StreamInv'
  OBVIOUS
<1>1. CASE \E n \in DOMAIN deltas : deltas[n].name = NoName
  <2>1. Fails("unnamed", "MODEL_TOOL_CALL_INVALID")
    BY <1>1 DEF RecvEnd
  <2>. QED
    BY <2>1, Zenon DEF Fails, StreamInv, StreamTypeOK, InStep, CallsAsSent
<1>2. CASE ~\E n \in DOMAIN deltas : deltas[n].name = NoName
  <2>1. /\ calls' = [n \in DOMAIN deltas |-> Completed(deltas[n])]
        /\ stream' = "done" /\ stream = "open"
        /\ UNCHANGED <<style, sent, deltas, code, cause>>
    BY <1>2 DEF RecvEnd
  <2>2. deltas \in Seq(Call) /\ DOMAIN deltas = 1 .. Len(deltas) /\ Len(deltas) \in Nat
    BY DEF StreamInv, StreamTypeOK
  <2>3. \A n \in DOMAIN deltas : deltas[n] \in Call
    BY <2>2
  <2>4. \A n \in DOMAIN deltas :
          Completed(deltas[n]) \in Call /\ Completed(deltas[n]).name = deltas[n].name
    BY <2>3, CompletedCall
  <2>5. calls' \in Seq(Call)
    BY <2>1, <2>2, <2>4
  <2>6. \A n \in DOMAIN calls' : calls'[n].name # NoName
    BY <1>2, <2>1, <2>4
  <2>7. (style = "side by side" \/ Len(sent) <= 1) => AsSent'
    BY <2>1, Zenon DEF StreamInv, InStep, AsSent
  <2>8. StreamTypeOK' /\ InStep'
    BY <2>1, <2>5, Zenon DEF StreamInv, StreamTypeOK, InStep
  <2>9. CallsAsSent'
    BY <2>1, <2>6, <2>7, Zenon DEF StreamInv, CallsAsSent
  <2>. QED
    BY <2>8, <2>9 DEF StreamInv
<1>. QED
  BY <1>1, <1>2

LEMMA StreamStep == StreamInv /\ [StreamNext]_streamVars => StreamInv'
<1> SUFFICES ASSUME StreamInv, [StreamNext]_streamVars PROVE StreamInv'
  OBVIOUS
<1> USE DEF StreamInv, StreamTypeOK, InStep, CallsAsSent, AsSent, Fails
<1>1. CASE UNCHANGED streamVars
  BY <1>1, Zenon DEF streamVars
<1>2. CASE ChatOpens
  BY <1>2, Zenon DEF ChatOpens
<1>3. ASSUME NEW why \in {"timeout", "canceled", "transport"}, ChatFails(why) PROVE StreamInv'
  BY <1>3, Zenon DEF ChatFails, HttpCode
<1>4. ASSUME NEW status \in DOMAIN StatusCode, ChatRefused(status) PROVE StreamInv'
  <2>1. StatusCode[status] = "MODEL_TIMEOUT" <=> status = "timeout"
    <3>1. status \in {"auth", "limited", "timeout", "context", "rejected", "other"}
      BY Zenon DEF StatusCode
    <3>2. /\ StatusCode.auth = "MODEL_AUTH_FAILED" /\ StatusCode.limited = "MODEL_RATE_LIMITED"
          /\ StatusCode.timeout = "MODEL_TIMEOUT" /\ StatusCode.context = "MODEL_CONTEXT_EXCEEDED"
          /\ StatusCode.rejected = "TOOL_PARAM_INVALID" /\ StatusCode.other = "UNAVAILABLE"
      BY Zenon DEF StatusCode
    <3>. QED
      BY <3>1, <3>2, Zenon
  <2>. QED
    BY <1>4, <2>1, Zenon DEF ChatRefused
<1>5. ASSUME NEW why \in {"timeout", "canceled", "transport", "malformed"}, RecvFails(why)
      PROVE  StreamInv'
  BY <1>5, Zenon DEF RecvFails, Normalized
<1>. QED
  BY <1>1, <1>2, <1>3, <1>4, <1>5, StreamChunk, StreamEnd, Zenon DEF StreamNext

(* The calls of a turn are executed as they were sent, a call without a    *)
(* name never is, and a timeout is reported as one, however many calls and *)
(* pieces there are (openai_compat.go:198-307, orchestrator.go:358-398).   *)
THEOREM CallsArePutTogether == StreamSpec => []CallsAsSent
<1>1. StreamInv => CallsAsSent
  BY DEF StreamInv
<1>. QED
  BY StreamInitially, StreamStep, <1>1, PTL DEF StreamSpec
-----------------------------------------------------------------------------
(* Accounts: what clients are told stays true while others register and    *)
(* members come and go.                                                    *)

LEMMA NoAccountType == NoAccount \in Account
  BY DEF NoAccount, Account

Visit == [at : Places, user : Account, org : Orgs \cup {"none"},
          email : Emails \cup {"none"}, came : Nat]

LEMMA VisitType ==
  ASSUME NEW at \in Places, NEW org \in Orgs \cup {"none"}, NEW email \in Emails \cup {"none"},
         NEW came \in Nat
  PROVE  [at |-> at, user |-> NoAccount, org |-> org, email |-> email, came |-> came] \in Visit
  BY NoAccountType DEF Visit

LEMMA AccountsInitially == AccountsInit => AccountsInv
<1> SUFFICES ASSUME AccountsInit PROVE AccountsInv
  OBVIOUS
<1>1. AccountsTypeOK
  <2>1. NoAccount \in Account /\ "none" \in Orgs \cup {"none"} /\ "none" \in Emails \cup {"none"}
    BY NoAccountType
  <2>2. token \in [Clients -> [user : Account, org : Orgs \cup {"none"}, until : Nat]]
    BY <2>1 DEF AccountsInit, NoToken
  <2>3. visit \in [Clients -> [at : Places, user : Account, org : Orgs \cup {"none"},
                             email : Emails \cup {"none"}, came : Nat]]
    <3>1. /\ "none" \in Places /\ 0 \in Nat
          /\ "none" \in Orgs \cup {"none"} /\ "none" \in Emails \cup {"none"}
      BY DEF Places, Idle
    <3>2. [at |-> "none", user |-> NoAccount, org |-> "none", email |-> "none", came |-> 0] \in Visit
      BY <3>1, VisitType
    <3>. QED
      BY <3>2 DEF AccountsInit, Visit
  <2>. QED
    BY <2>2, <2>3 DEF AccountsInit, AccountsTypeOK
<1>2. OneAccount /\ WelcomedStay
  BY DEF AccountsInit, OneAccount, WelcomedStay
<1>3. ASSUME NEW c \in Clients PROVE VisitSound(c)
  BY DEF AccountsInit, VisitSound
<1>. QED
  BY <1>1, <1>2, <1>3 DEF AccountsInv

(* A step of one client's request leaves those of others alone.            *)
LEMMA OthersUndisturbed ==
  ASSUME AccountsInv, NEW c \in Clients,
         accounts \subseteq accounts', welcomed \subseteq welcomed',
         UNCHANGED <<enrolled, hour>>,
         \A d \in Clients : d # c => /\ visit'[d] = visit[d] /\ token'[d] = token[d]
                                     /\ known'[d] = known[d] /\ within'[d] = within[d],
         VisitSound(c)'
  PROVE  \A d \in Clients : VisitSound(d)'
<1> SUFFICES ASSUME NEW d \in Clients, d # c PROVE VisitSound(d)'
  OBVIOUS
<1>1. VisitSound(d)
  BY DEF AccountsInv
<1>. QED
  BY <1>1 DEF VisitSound, Of

(* A new request keeps the invariant.                                      *)
LEMMA ArrivesSound ==
  ASSUME AccountsInv, NEW c \in Clients,
         NEW at \in {"lookup", "find", "me?", "switch?", "tenant?"},
         NEW email \in Emails \cup {"none"}, NEW org \in Orgs \cup {"none"},
         Arrives(c, at, email, org)
  PROVE  AccountsInv'
<1> USE DEF Arrives, AccountsInv
<1>1. AccountsTypeOK'
  <2>1. NoAccount \in Account
    BY NoAccountType
  <2>2. visit' \in [Clients -> [at : Places, user : Account, org : Orgs \cup {"none"},
                              email : Emails \cup {"none"}, came : Nat]]
    <3>1. at \in Places /\ hour \in Nat
      BY DEF AccountsTypeOK, Places
    <3>2. [at |-> at, user |-> NoAccount, org |-> org, email |-> email, came |-> hour] \in Visit
      BY <3>1, VisitType
    <3>. QED
      BY <3>2 DEF AccountsTypeOK, Visit
  <2>. QED
    BY <2>2 DEF AccountsTypeOK
<1>2. OneAccount' /\ WelcomedStay'
  BY DEF OneAccount, WelcomedStay
<1>3. VisitSound(c)'
  BY DEF AccountsTypeOK, VisitSound
<1>4. \A d \in Clients : VisitSound(d)'
  BY <1>3, OthersUndisturbed DEF AccountsTypeOK
<1>. QED
  BY <1>1, <1>2, <1>4

(* The types after a step of a request.                                    *)
LEMMA MovedType ==
  ASSUME AccountsTypeOK, NEW c \in Clients, NEW from, NEW to \in Places, NEW user \in Account,
         Moves(c, from, to, user),
         accounts' \subseteq Account,
         token' \in [Clients -> [user : Account, org : Orgs \cup {"none"}, until : Nat]],
         welcomed' \subseteq (Emails \cup {"none"}) \X Clients
  PROVE  /\ AccountsTypeOK'
         /\ visit'[c].at = to /\ visit'[c].user = user /\ visit'[c].email = visit[c].email
         /\ visit'[c].org = visit[c].org /\ visit'[c].came = visit[c].came
<1>1. /\ visit \in [Clients -> Visit]
      /\ visit' = [visit EXCEPT ![c].at = to, ![c].user = user]
  BY DEF AccountsTypeOK, Visit, Moves
<1>2. visit[c] \in Visit
  BY <1>1
<1>3. /\ visit' \in [Clients -> Visit]
      /\ visit'[c].at = to /\ visit'[c].user = user /\ visit'[c].email = visit[c].email
      /\ visit'[c].org = visit[c].org /\ visit'[c].came = visit[c].came
  BY <1>1, <1>2 DEF Visit
<1>4. UNCHANGED <<enrolled, hour, known, within>>
  BY DEF Moves
<1>5. AccountsTypeOK'
  BY <1>3, <1>4 DEF AccountsTypeOK, Visit
<1>. QED
  BY <1>3, <1>5

(* So does a step of a request that changes nothing but the request.       *)
LEMMA MovesSound ==
  ASSUME AccountsInv, NEW c \in Clients, NEW from, NEW to \in Places, NEW user \in Account,
         Moves(c, from, to, user), UNCHANGED <<accounts, token, welcomed>>,
         VisitSound(c)'
  PROVE  AccountsInv'
<1> USE DEF Moves, AccountsInv
<1>1. AccountsTypeOK'
  <2>1. /\ accounts' \subseteq Account
        /\ token' \in [Clients -> [user : Account, org : Orgs \cup {"none"}, until : Nat]]
        /\ welcomed' \subseteq (Emails \cup {"none"}) \X Clients
    BY DEF AccountsTypeOK
  <2>. QED
    BY <2>1, MovedType
<1>2. OneAccount' /\ WelcomedStay'
  BY DEF OneAccount, WelcomedStay
<1>3. \A d \in Clients : VisitSound(d)'
  BY OthersUndisturbed DEF AccountsTypeOK
<1>. QED
  BY <1>1, <1>2, <1>3
(* A step that goes on with the user it has.                               *)
LEMMA GoesSound ==
  ASSUME AccountsInv, NEW c \in Clients, NEW from, NEW to \in Places, Goes(c, from, to),
         VisitSound(c)'
  PROVE  AccountsInv'
<1>1. visit[c].user \in Account
  BY DEF AccountsInv, AccountsTypeOK
<1>. QED
  BY <1>1, MovesSound DEF Goes

(* What a step to `to' has to establish.                                   *)
LEMMA MovedVisit ==
  ASSUME AccountsInv, NEW c \in Clients, NEW from, NEW to, NEW user,
         Moves(c, from, to, user), UNCHANGED <<accounts, token, welcomed>>,
         to \in {"register", "verify"} => user \in accounts /\ user.email = visit[c].email,
         to = "register" => user.password = c,
         to \in {"getUser", "me", "tenant", "served"} => visit[c].came < token[c].until,
         to = "invalid" => <<visit[c].email, c>> \notin known[c],
         to = "taken" => Of(visit[c].email) # {},
         to = "served" => <<user, visit[c].org>> \in within[c]
  PROVE  VisitSound(c)'
<1>1. VisitSound(c) /\ c \in DOMAIN visit
  BY DEF AccountsInv, AccountsTypeOK
<1>2. /\ visit'[c].at = to /\ visit'[c].user = user /\ visit'[c].email = visit[c].email
      /\ visit'[c].org = visit[c].org /\ visit'[c].came = visit[c].came
  BY DEF Moves, AccountsInv, AccountsTypeOK
<1>. QED
  BY <1>1, <1>2 DEF VisitSound, Moves, Of

(* Whoever has an account with that password is not refused with it.       *)
LEMMA RefusedRightly ==
  ASSUME AccountsInv, NEW c \in Clients,
         \A u \in Of(visit[c].email) : u.password # c
  PROVE  <<visit[c].email, c>> \notin known[c]
<1> SUFFICES ASSUME <<visit[c].email, c>> \in known[c] PROVE FALSE
  OBVIOUS
<1>1. <<visit[c].email, c>> \in welcomed
  BY DEF AccountsInv, VisitSound
<1>2. PICK u \in accounts : <<visit[c].email, c>> = <<u.email, u.password>>
  BY <1>1 DEF AccountsInv, WelcomedStay
<1>. QED
  BY <1>2 DEF Of

LEMMA SignUpSound ==
  ASSUME AccountsInv, NEW c \in Clients, SignUp(c)
  PROVE  AccountsInv'
<1> DEFINE user == [email |-> visit[c].email, password |-> c]
<1>0. /\ user \in Account /\ user.email = visit[c].email /\ user.password = c
      /\ visit[c].user \in Account /\ visit[c].email \in Emails \cup {"none"}
  BY DEF AccountsInv, AccountsTypeOK, Account
<1> HIDE DEF user
<1>1. CASE LookUp(c)
  <2> DEFINE to == IF Of(visit[c].email) = {} THEN "insert" ELSE "taken"
  <2>1. Goes(c, "lookup", to)
    BY <1>1 DEF LookUp
  <2>2. to \in {"insert", "taken"} /\ (to = "taken" => Of(visit[c].email) # {})
    OBVIOUS
  <2> HIDE DEF to
  <2>3. VisitSound(c)'
    BY <2>1, <2>2, MovedVisit DEF Goes
  <2>. QED
    BY <2>1, <2>2, <2>3, GoesSound, Zenon DEF Places, Idle
<1>2. CASE InsertUser(c)
  <2>1. /\ Of(user.email) = {} /\ accounts' = accounts \cup {user}
        /\ Moves(c, "insert", "register", user) /\ UNCHANGED <<token, welcomed>>
    BY <1>2 DEF InsertUser, Insert, user
  <2>2. AccountsTypeOK'
    <3>1. accounts' \subseteq Account
      BY <1>0, <2>1 DEF AccountsInv, AccountsTypeOK
    <3>. QED
      BY <1>0, <2>1, <3>1, MovedType DEF AccountsInv, AccountsTypeOK, Places
  <2>3. OneAccount'
    BY <2>1 DEF AccountsInv, OneAccount, Of
  <2>4. WelcomedStay'
    BY <2>1 DEF AccountsInv, WelcomedStay
  <2>5. /\ visit'[c].at = "register" /\ visit'[c].user = user /\ visit'[c].email = visit[c].email
        /\ visit'[c].org = visit[c].org /\ visit'[c].came = visit[c].came
    BY <2>1 DEF Moves, AccountsInv, AccountsTypeOK
  <2>6. VisitSound(c)'
    <3>1. VisitSound(c) /\ user \in accounts'
      BY <2>1 DEF AccountsInv
    <3>2. UNCHANGED <<enrolled, hour, known, within, token, welcomed>>
      BY <2>1 DEF Moves
    <3>. QED
      BY <1>0, <2>5, <3>1, <3>2 DEF VisitSound
  <2>7. \A d \in Clients : VisitSound(d)'
    BY <2>1, <2>6, OthersUndisturbed DEF Moves, AccountsInv, AccountsTypeOK
  <2>. QED
    BY <2>2, <2>3, <2>4, <2>7 DEF AccountsInv
<1>3. CASE InsertTaken(c)
  <2>1. Goes(c, "insert", "taken") /\ Of(visit[c].email) # {}
    BY <1>3 DEF InsertTaken
  <2>2. VisitSound(c)'
    BY <2>1, MovedVisit DEF Goes
  <2>. QED
    BY <2>1, <2>2, GoesSound, Zenon DEF Places, Idle
<1>4. CASE InsertError(c)
  <2>0. Moves(c, "insert", "error", NoAccount) /\ UNCHANGED <<token, welcomed>>
    BY <1>4 DEF InsertError
  <2>1. \/ Of(user.email) = {} /\ accounts' = accounts \cup {user}
        \/ accounts' = accounts
    BY <1>4 DEF InsertError, Insert, user
  <2>2. AccountsTypeOK'
    <3>1. accounts' \subseteq Account
      BY <1>0, <2>1 DEF AccountsInv, AccountsTypeOK
    <3>. QED
      BY <2>0, <3>1, NoAccountType, MovedType, Zenon DEF AccountsInv, AccountsTypeOK, Places, Idle
  <2>3. OneAccount'
    BY <2>1 DEF AccountsInv, OneAccount, Of
  <2>4. WelcomedStay'
    BY <2>0, <2>1 DEF AccountsInv, WelcomedStay
  <2>5. /\ visit'[c].at = "error" /\ visit'[c].email = visit[c].email
        /\ visit'[c].org = visit[c].org /\ visit'[c].came = visit[c].came
    BY <2>0 DEF Moves, AccountsInv, AccountsTypeOK
  <2>6. VisitSound(c)'
    BY <2>0, <2>5 DEF AccountsInv, VisitSound, Moves
  <2>7. \A d \in Clients : VisitSound(d)'
    BY <2>0, <2>1, <2>6, OthersUndisturbed DEF Moves, AccountsInv, AccountsTypeOK
  <2>. QED
    BY <2>2, <2>3, <2>4, <2>7 DEF AccountsInv
<1>5. CASE Welcome(c)
  <2>1. /\ Moves(c, "register", "welcome", visit[c].user) /\ UNCHANGED accounts
        /\ token' = [token EXCEPT ![c] = [user |-> visit[c].user, org |-> "none",
                                          until |-> hour + Lifetime]]
        /\ welcomed' = welcomed \cup {<<visit[c].email, c>>}
    BY <1>5 DEF Welcome, Issue
  <2>2. AccountsTypeOK'
    <3>1. token' \in [Clients -> [user : Account, org : Orgs \cup {"none"}, until : Nat]]
      <4>1. hour + Lifetime \in Nat /\ token \in [Clients -> [user : Account, org : Orgs \cup {"none"}, until : Nat]]
        BY AccountsAssumption DEF AccountsInv, AccountsTypeOK
      <4>2. [user |-> visit[c].user, org |-> "none", until |-> hour + Lifetime]
              \in [user : Account, org : Orgs \cup {"none"}, until : Nat]
        BY <1>0, <4>1
      <4>. QED
        BY <2>1, <4>1, <4>2
    <3>2. welcomed' \subseteq (Emails \cup {"none"}) \X Clients
      BY <1>0, <2>1 DEF AccountsInv, AccountsTypeOK
    <3>. QED
      BY <1>0, <2>1, <3>1, <3>2, MovedType, Zenon DEF AccountsInv, AccountsTypeOK, Places, Idle
  <2>3. OneAccount'
    BY <2>1 DEF AccountsInv, OneAccount
  <2>4. WelcomedStay'
    <3>1. /\ visit[c].user \in accounts /\ visit[c].user.email = visit[c].email
          /\ visit[c].user.password = c
      BY <2>1 DEF Moves, AccountsInv, VisitSound
    <3>. QED
      BY <2>1, <3>1 DEF AccountsInv, WelcomedStay
  <2>5. visit'[c].at = "welcome" /\ visit'[c].came = visit[c].came
    BY <2>1 DEF Moves, AccountsInv, AccountsTypeOK
  <2>6. VisitSound(c)'
    BY <2>1, <2>5 DEF AccountsInv, VisitSound, Moves
  <2>7. \A d \in Clients : VisitSound(d)'
    BY <2>1, <2>6, OthersUndisturbed DEF Moves, AccountsInv, AccountsTypeOK
  <2>. QED
    BY <2>2, <2>3, <2>4, <2>7 DEF AccountsInv
<1>. QED
  BY <1>1, <1>2, <1>3, <1>4, <1>5 DEF SignUp
(* A token is issued to a user who was known already.                      *)
LEMMA IssueSound ==
  ASSUME AccountsInv, NEW c \in Clients, NEW at, NEW org \in Orgs \cup {"none"},
         Issue(c, at, "token", org), UNCHANGED welcomed
  PROVE  AccountsInv'
<1>0. visit[c].user \in Account
  BY DEF AccountsInv, AccountsTypeOK
<1>1. /\ Moves(c, at, "token", visit[c].user) /\ UNCHANGED <<accounts, welcomed>>
      /\ token' = [token EXCEPT ![c] = [user |-> visit[c].user, org |-> org,
                                        until |-> hour + Lifetime]]
  BY DEF Issue
<1>2. token' \in [Clients -> [user : Account, org : Orgs \cup {"none"}, until : Nat]]
  <2>1. hour + Lifetime \in Nat
        /\ token \in [Clients -> [user : Account, org : Orgs \cup {"none"}, until : Nat]]
    BY AccountsAssumption DEF AccountsInv, AccountsTypeOK
  <2>2. [user |-> visit[c].user, org |-> org, until |-> hour + Lifetime]
          \in [user : Account, org : Orgs \cup {"none"}, until : Nat]
    BY <1>0, <2>1
  <2>. QED
    BY <1>1, <2>1, <2>2
<1>3. AccountsTypeOK' /\ visit'[c].at = "token" /\ visit'[c].came = visit[c].came
  <2>1. accounts' \subseteq Account /\ welcomed' \subseteq (Emails \cup {"none"}) \X Clients
    BY <1>1 DEF AccountsInv, AccountsTypeOK
  <2>2. "token" \in Places
    BY DEF Places, Idle
  <2>. QED
    BY <1>0, <1>1, <1>2, <2>1, <2>2, MovedType DEF AccountsInv
<1>4. OneAccount' /\ WelcomedStay'
  BY <1>1 DEF AccountsInv, OneAccount, WelcomedStay
<1>5. VisitSound(c)'
  <2>1. VisitSound(c)
    BY DEF AccountsInv
  <2>2. UNCHANGED <<enrolled, hour, known, within, welcomed>>
    BY <1>1 DEF Moves
  <2>3. visit[c].came <= hour /\ known[c] \subseteq welcomed /\ enrolled \subseteq within[c]
    BY <2>1 DEF VisitSound
  <2>. QED
    BY <1>3, <2>2, <2>3 DEF VisitSound
<1>6. \A d \in Clients : VisitSound(d)'
  BY <1>1, <1>5, OthersUndisturbed DEF Moves, AccountsInv, AccountsTypeOK
<1>. QED
  BY <1>3, <1>4, <1>6 DEF AccountsInv

LEMMA LogInSound ==
  ASSUME AccountsInv, NEW c \in Clients, LogIn(c)
  PROVE  AccountsInv'
<1>1. CASE FindUser(c)
  <2>1. PICK u \in Of(visit[c].email) :
          Moves(c, "find", "verify", u) /\ UNCHANGED <<accounts, token, welcomed>>
    BY <1>1 DEF FindUser
  <2>2. u \in accounts /\ u.email = visit[c].email /\ u \in Account
    BY <2>1 DEF Of, AccountsInv, AccountsTypeOK
  <2>3. VisitSound(c)'
    BY <2>1, <2>2, MovedVisit
  <2>. QED
    BY <2>1, <2>2, <2>3, MovesSound DEF Places
<1>2. CASE NoUser(c)
  <2>1. Goes(c, "find", "invalid") /\ Of(visit[c].email) = {}
    BY <1>2 DEF NoUser
  <2>2. <<visit[c].email, c>> \notin known[c]
    BY <2>1, RefusedRightly
  <2>3. VisitSound(c)'
    BY <2>1, <2>2, MovedVisit DEF Goes
  <2>. QED
    BY <2>1, <2>3, GoesSound, Zenon DEF Places, Idle
<1>3. CASE Verify(c)
  <2> DEFINE to == IF visit[c].user.password = c THEN "login" ELSE "invalid"
  <2>1. Goes(c, "verify", to)
    BY <1>3 DEF Verify
  <2>2. to \in {"login", "invalid"} /\ (to = "invalid" => visit[c].user.password # c)
    OBVIOUS
  <2> HIDE DEF to
  <2>3. visit[c].user \in accounts /\ visit[c].user.email = visit[c].email
    BY <2>1 DEF Goes, Moves, AccountsInv, VisitSound
  <2>4. ASSUME to = "invalid" PROVE <<visit[c].email, c>> \notin known[c]
    <3>1. \A u \in Of(visit[c].email) : u = visit[c].user
      BY <2>3 DEF Of, AccountsInv, OneAccount
    <3>. QED
      BY <2>2, <2>4, <3>1, RefusedRightly
  <2>5. VisitSound(c)'
    BY <2>1, <2>2, <2>4, MovedVisit DEF Goes
  <2>. QED
    BY <2>1, <2>2, <2>5, GoesSound, Zenon DEF Places, Idle
<1>4. CASE SignIn(c)
  BY <1>4, IssueSound DEF SignIn
<1>. QED
  BY <1>1, <1>2, <1>3, <1>4 DEF LogIn

(* Behind Auth, the request came before its token expired.                 *)
LEMMA AuthSound ==
  ASSUME AccountsInv, NEW c \in Clients, NEW from, NEW to \in {"getUser", "switch", "tenant"},
         Auth(c, from, to)
  PROVE  AccountsInv'
<1> DEFINE next == IF Expired(c) THEN "expired" ELSE to
<1>1. Moves(c, from, next, token[c].user) /\ UNCHANGED <<accounts, token, welcomed>>
  BY DEF Auth
<1>2. next \in {"expired", "getUser", "switch", "tenant"} /\ (next = "expired" \/ ~Expired(c))
  OBVIOUS
<1> HIDE DEF next
<1>3. ~Expired(c) => visit[c].came < token[c].until
  <2>1. visit[c].came \in Nat /\ hour \in Nat /\ token[c].until \in Nat
    BY DEF AccountsInv, AccountsTypeOK
  <2>2. visit[c].came <= hour
    BY DEF AccountsInv, VisitSound
  <2>. QED
    BY <2>1, <2>2 DEF Expired
<1>4. token[c].user \in Account
  BY DEF AccountsInv, AccountsTypeOK
<1>5. VisitSound(c)'
  BY <1>1, <1>2, <1>3, MovedVisit
<1>. QED
  BY <1>1, <1>2, <1>4, <1>5, MovesSound, Zenon DEF Places, Idle

LEMMA EnterSound ==
  ASSUME AccountsInv, NEW c \in Clients, Enter(c)
  PROVE  AccountsInv'
<1>1. CASE TokenShown(c)
  BY <1>1, AuthSound DEF TokenShown
<1>2. CASE Me(c)
  <2>1. Goes(c, "getUser", "me")
    BY <1>2 DEF Me
  <2>2. visit[c].came < token[c].until
    BY <2>1 DEF Goes, Moves, AccountsInv, VisitSound
  <2>3. VisitSound(c)'
    BY <2>1, <2>2, MovedVisit DEF Goes
  <2>. QED
    BY <2>1, <2>3, GoesSound, Zenon DEF Places, Idle
<1>3. CASE SwitchOrg(c)
  <2> DEFINE to == IF MayEnter(c, visit[c].org) THEN "issue" ELSE "forbidden"
  <2>1. Goes(c, "switch", to)
    BY <1>3 DEF SwitchOrg
  <2>2. to \in {"issue", "forbidden"}
    OBVIOUS
  <2> HIDE DEF to
  <2>3. VisitSound(c)'
    BY <2>1, <2>2, MovedVisit DEF Goes
  <2>. QED
    BY <2>1, <2>2, <2>3, GoesSound, Zenon DEF Places, Idle
<1>4. CASE IssueForOrg(c)
  <2>1. visit[c].org \in Orgs \cup {"none"}
    BY DEF AccountsInv, AccountsTypeOK
  <2>. QED
    BY <1>4, <2>1, IssueSound DEF IssueForOrg
<1>5. CASE Tenant(c)
  <2> DEFINE org == Resolved(c)
             to == IF org = "none" THEN "no org" ELSE IF MayEnter(c, org) THEN "served" ELSE "forbidden"
  <2>1. /\ visit[c].at = "tenant"
        /\ visit' = [visit EXCEPT ![c].org = org, ![c].at = to]
        /\ UNCHANGED <<accounts, enrolled, token, hour, welcomed, known, within>>
    BY <1>5, Zenon DEF Tenant
  <2>2. org \in Orgs \cup {"none"}
    BY DEF Resolved, AccountsInv, AccountsTypeOK
  <2>3. to \in {"no org", "served", "forbidden"} /\ (to = "served" => MayEnter(c, org))
    OBVIOUS
  <2> HIDE DEF to, org
  <2>4. AccountsTypeOK'
    <3>1. {"no org", "served", "forbidden"} \subseteq Places
      BY DEF Places, Idle
    <3>2. visit \in [Clients -> Visit]
      BY DEF AccountsInv, AccountsTypeOK, Visit
    <3>3. to \in Places
      BY <2>3, <3>1, Zenon
    <3>4. [visit[c] EXCEPT !.org = org, !.at = to] \in Visit
      BY <2>2, <3>2, <3>3 DEF Visit
    <3>5. visit' = [visit EXCEPT ![c] = [visit[c] EXCEPT !.org = org, !.at = to]]
      BY <2>1, <3>2
    <3>6. visit' \in [Clients -> Visit]
      BY <3>2, <3>4, <3>5
    <3>. QED
      BY <2>1, <3>6 DEF AccountsInv, AccountsTypeOK, Visit
  <2>5. OneAccount' /\ WelcomedStay'
    BY <2>1 DEF AccountsInv, OneAccount, WelcomedStay
  <2>6. /\ visit'[c].at = to /\ visit'[c].user = visit[c].user /\ visit'[c].org = org
        /\ visit'[c].came = visit[c].came /\ visit'[c].email = visit[c].email
    BY <2>1 DEF AccountsInv, AccountsTypeOK
  <2>7. to = "served" => <<visit[c].user, org>> \in enrolled
    BY <2>3 DEF MayEnter
  <2>8. VisitSound(c)'
    BY <2>1, <2>3, <2>6, <2>7, Zenon DEF AccountsInv, VisitSound
  <2>9. \A d \in Clients : VisitSound(d)'
    BY <2>1, <2>8, OthersUndisturbed DEF AccountsInv, AccountsTypeOK
  <2>. QED
    BY <2>4, <2>5, <2>9 DEF AccountsInv
<1>. QED
  BY <1>1, <1>2, <1>3, <1>4, <1>5 DEF Enter

LEMMA AccountsStep == AccountsInv /\ [AccountsNext]_accountVars => AccountsInv'
<1> SUFFICES ASSUME AccountsInv, [AccountsNext]_accountVars PROVE AccountsInv'
  OBVIOUS
<1>1. CASE UNCHANGED accountVars
  BY <1>1 DEF accountVars, AccountsInv, AccountsTypeOK, OneAccount, WelcomedStay, VisitSound, Of
<1>2. ASSUME NEW c \in Clients, Sends(c) PROVE AccountsInv'
  <2>1. ASSUME NEW email \in Emails, Register(c, email) \/ Login(c, email) PROVE AccountsInv'
    BY <2>1, ArrivesSound DEF Register, Login
  <2>2. CASE AskMe(c)
    BY <2>2, ArrivesSound DEF AskMe, Shows
  <2>3. ASSUME NEW org \in Orgs, AskToSwitch(c, org) PROVE AccountsInv'
    BY <2>3, ArrivesSound DEF AskToSwitch, Shows
  <2>4. ASSUME NEW header \in Orgs \cup {"none"}, AskTenant(c, header) PROVE AccountsInv'
    BY <2>4, ArrivesSound DEF AskTenant, Shows
  <2>. QED
    BY <1>2, <2>1, <2>2, <2>3, <2>4 DEF Sends
<1>3. ASSUME NEW c \in Clients, VisitFails(c) PROVE AccountsInv'
  <2>1. PICK at : Goes(c, at, "error")
    BY <1>3 DEF VisitFails
  <2>2. VisitSound(c)'
    BY <2>1, MovedVisit DEF Goes
  <2>. QED
    BY <2>1, <2>2, GoesSound, Zenon DEF Places, Idle
<1>4. ASSUME NEW user \in accounts, NEW org \in Orgs, Join(user, org) PROVE AccountsInv'
  <2>1. AccountsTypeOK'
    BY <1>4 DEF Join, AccountsInv, AccountsTypeOK
  <2>2. OneAccount' /\ WelcomedStay'
    BY <1>4 DEF Join, AccountsInv, OneAccount, WelcomedStay
  <2>3. ASSUME NEW c \in Clients PROVE VisitSound(c)'
    BY <1>4 DEF Join, AccountsInv, VisitSound, Of
  <2>. QED
    BY <2>1, <2>2, <2>3 DEF AccountsInv
<1>5. ASSUME NEW user \in accounts, NEW org \in Orgs, Leave(user, org) PROVE AccountsInv'
  <2>1. AccountsTypeOK'
    BY <1>5 DEF Leave, AccountsInv, AccountsTypeOK
  <2>2. OneAccount' /\ WelcomedStay'
    BY <1>5 DEF Leave, AccountsInv, OneAccount, WelcomedStay
  <2>3. ASSUME NEW c \in Clients PROVE VisitSound(c)'
    BY <1>5 DEF Leave, AccountsInv, VisitSound, Of
  <2>. QED
    BY <2>1, <2>2, <2>3 DEF AccountsInv
<1>6. CASE HourPasses
  <2>1. AccountsTypeOK'
    BY <1>6 DEF HourPasses, AccountsInv, AccountsTypeOK
  <2>2. OneAccount' /\ WelcomedStay'
    BY <1>6 DEF HourPasses, AccountsInv, OneAccount, WelcomedStay
  <2>3. ASSUME NEW c \in Clients PROVE VisitSound(c)'
    <3>1. visit[c].came \in Nat /\ hour \in Nat /\ hour' = hour + 1
      BY <1>6 DEF HourPasses, AccountsInv, AccountsTypeOK
    <3>2. visit[c].came <= hour => visit[c].came <= hour'
      BY <3>1
    <3>. QED
      BY <1>6, <3>2 DEF HourPasses, AccountsInv, VisitSound, Of
  <2>. QED
    BY <2>1, <2>2, <2>3 DEF AccountsInv
<1>. QED
  BY <1>1, <1>2, <1>3, <1>4, <1>5, <1>6, SignUpSound, LogInSound, EnterSound DEF AccountsNext

(* What clients are told about addresses, passwords and membership is so,  *)
(* however many of them race (auth/service.go:55-128, tenant.go:30-47).    *)
THEOREM AnswersAreSound == AccountsSpec => []AccountsAreSound
<1>1. AccountsInv => AccountsAreSound
  BY DEF AccountsInv, OneAccount, VisitSound, AccountsAreSound
<1>. QED
  BY AccountsInitially, AccountsStep, <1>1, PTL DEF AccountsSpec
-----------------------------------------------------------------------------
(* The conversation: a response that reads misses nothing it has to show,  *)
(* although others write.                                                  *)

LEMMA ConvInitially == ConvInit => ConvInv
<1> SUFFICES ASSUME ConvInit PROVE ConvInv
  OBVIOUS
<1>1. ConvTypeOK
  BY DEF ConvInit, ConvTypeOK
<1>2. ASSUME NEW t \in Turns PROVE TurnSound(t)
  BY DEF ConvInit, TurnSound, ReadsAll, Rising
<1>. QED
  BY <1>1, <1>2 DEF ConvInv

(* How response t may change the messages: its own get their text, and     *)
(* what it adds has none yet.                                              *)
Writes(t) ==
  /\ msgs' \in Seq(Message)
  /\ DOMAIN msgs \subseteq DOMAIN msgs'
  /\ \A i \in DOMAIN msgs : /\ msgs'[i].of = msgs[i].of /\ msgs'[i].role = msgs[i].role
                            /\ msgs[i].of # t => msgs'[i].text = msgs[i].text
  /\ \A i \in DOMAIN msgs' \ DOMAIN msgs : msgs'[i].text = FALSE

LEMMA NothingWritten ==
  ASSUME ConvTypeOK, NEW t \in Turns, UNCHANGED msgs
  PROVE  Writes(t)
  BY DEF ConvTypeOK, Writes

LEMMA MessageAdded ==
  ASSUME ConvTypeOK, NEW t \in Turns, NEW role \in {"user", "assistant"}, AddMessage(t, role)
  PROVE  Writes(t) /\ Wrote(t, role)'
<1> DEFINE m == [role |-> role, of |-> t, text |-> FALSE]
<1>1. m \in Message /\ m.of = t /\ m.role = role /\ m.text = FALSE
  BY DEF Message
<1>2. msgs' = Append(msgs, m) /\ msgs \in Seq(Message)
  BY DEF AddMessage, ConvTypeOK
<1> HIDE DEF m
<1>3. /\ msgs' \in Seq(Message) /\ Len(msgs) \in Nat
      /\ DOMAIN msgs = 1 .. Len(msgs) /\ DOMAIN msgs' = 1 .. Len(msgs) + 1
      /\ \A i \in 1 .. Len(msgs) : msgs'[i] = msgs[i]
      /\ msgs'[Len(msgs) + 1] = m
  BY <1>1, <1>2
<1>4. Len(msgs) + 1 \in DOMAIN msgs'
  BY <1>3
<1>5. DOMAIN msgs \subseteq DOMAIN msgs' /\ DOMAIN msgs' \ DOMAIN msgs = {Len(msgs) + 1}
  BY <1>3
<1>. QED
  BY <1>1, <1>3, <1>4, <1>5 DEF Writes, Wrote

LEMMA TextAdded ==
  ASSUME ConvTypeOK, NEW t \in Turns, NEW role, Wrote(t, role), GetText(t, role)
  PROVE  Writes(t)
<1> DEFINE o == Own(t, role)
<1>1. o \in DOMAIN msgs /\ msgs[o].of = t
  BY DEF Wrote, Own
<1>2. msgs' = [msgs EXCEPT ![o].text = TRUE]
  BY DEF GetText
<1> HIDE DEF o
<1>3. msgs \in Seq(Message) /\ msgs[o] \in Message
  BY <1>1 DEF ConvTypeOK
<1>4. DOMAIN msgs' = DOMAIN msgs /\ msgs' \in Seq(Message)
  <2> DEFINE m == [msgs[o] EXCEPT !.text = TRUE]
  <2>1. m \in Message
    BY <1>3 DEF Message
  <2>2. msgs' = [msgs EXCEPT ![o] = m]
    BY <1>2
  <2> HIDE DEF m
  <2>3. o \in 1 .. Len(msgs)
    BY <1>1, <1>3
  <2>. QED
    BY <1>3, <2>1, <2>2, <2>3, ExceptSeq
<1>5. \A i \in DOMAIN msgs : i # o => msgs'[i] = msgs[i]
  BY <1>2
<1>6. msgs'[o].of = msgs[o].of /\ msgs'[o].role = msgs[o].role
  BY <1>1, <1>2, <1>3 DEF Message
<1>. QED
  BY <1>1, <1>4, <1>5, <1>6 DEF Writes

(* Another response loses nothing of what it has to show.                  *)
LEMMA OthersReadOn ==
  ASSUME ConvInv, NEW t \in Turns, NEW u \in Turns, u # t,
         Writes(t), turn[t] # "completed",
         \A v \in Turns : v # t => turn'[v] = turn[v],
         listed'[u] = listed[u], shown'[u] = shown[u], earlier'[u] = earlier[u]
  PROVE  TurnSound(u)'
<1>1. TurnSound(u) /\ turn'[u] = turn[u] /\ earlier[u] \subseteq Turns
  BY DEF ConvInv, ConvTypeOK
<1>2. \A v \in earlier[u] : turn'[v] = "completed" /\ v # t
  BY <1>1 DEF TurnSound
<1>3. \A role : Wrote(u, role) => Wrote(u, role)'
  BY DEF Writes, Wrote
<1>4. ASSUME NEW i \in DOMAIN msgs', msgs'[i].text, Due(u, i)'
      PROVE  i \in DOMAIN msgs /\ msgs[i].text /\ Due(u, i)
  <2>1. i \in DOMAIN msgs
    BY <1>4 DEF Writes
  <2>2. msgs'[i].of = msgs[i].of /\ msgs'[i].role = msgs[i].role
    BY <2>1 DEF Writes
  <2>3. Due(u, i) /\ msgs[i].of # t
    BY <1>2, <1>4, <2>2 DEF Due
  <2>. QED
    BY <1>4, <2>1, <2>3 DEF Writes
<1>5. ReadsAll(u)'
  <2>1. ReadsAll(u)
    BY <1>1 DEF TurnSound
  <2>. QED
    BY <1>1, <1>4, <2>1 DEF ReadsAll, Rising, Has, Writes
<1>. QED
  BY <1>1, <1>2, <1>3, <1>5 DEF TurnSound
(* A step of response t that leaves the others where they are.             *)
LEMMA TurnTaken ==
  ASSUME ConvInv, NEW t \in Turns, Writes(t), turn[t] # "completed",
         \A v \in Turns : v # t => /\ turn'[v] = turn[v] /\ listed'[v] = listed[v]
                                   /\ shown'[v] = shown[v] /\ earlier'[v] = earlier[v],
         ConvTypeOK', TurnSound(t)'
  PROVE  ConvInv'
  BY OthersReadOn DEF ConvInv

LEMMA QuestionSound ==
  ASSUME ConvInv, NEW t \in Turns, Question(t)
  PROVE  ConvInv'
<1> USE DEF Move
<1>0. ConvTypeOK /\ TurnSound(t)
  BY DEF ConvInv
<1>1. CASE Ask(t)
  <2>1. Writes(t) /\ Wrote(t, "user")'
    BY <1>0, <1>1, MessageAdded DEF Ask
  <2>2. ConvTypeOK'
    BY <1>0, <1>1, <2>1 DEF Ask, ConvTypeOK, Writes
  <2>3. /\ turn[t] = "new" /\ turn'[t] = "asked"
        /\ earlier'[t] = {u \in Turns : turn[u] = "completed"}
        /\ \A u \in Turns : turn[u] = "completed" => turn'[u] = "completed"
        /\ listed'[t] = <<>> /\ shown'[t] = <<>>
    BY <1>0, <1>1 DEF Ask, ConvTypeOK, TurnSound
  <2>4. TurnSound(t)'
    BY <2>1, <2>3 DEF TurnSound, ReadsAll, Rising
  <2>. QED
    BY <1>0, <1>1, <2>1, <2>2, <2>3, <2>4, TurnTaken DEF Ask, ConvTypeOK
<1>2. CASE AddQuestion(t)
  <2>1. Writes(t)
    BY <1>0, <1>2, TextAdded DEF AddQuestion, TurnSound
  <2>2. ConvTypeOK'
    BY <1>0, <1>2, <2>1 DEF AddQuestion, ConvTypeOK, Writes
  <2>3. /\ turn[t] = "asked" /\ turn'[t] = "worded"
        /\ \A u \in Turns : turn[u] = "completed" => turn'[u] = "completed"
        /\ listed'[t] = <<>> /\ shown'[t] = <<>> /\ earlier'[t] = earlier[t]
        /\ earlier[t] \subseteq Turns
    BY <1>0, <1>2 DEF AddQuestion, ConvTypeOK, TurnSound
  <2>4. TurnSound(t)'
    BY <1>0, <2>1, <2>3 DEF TurnSound, ReadsAll, Rising
  <2>. QED
    BY <1>0, <1>2, <2>1, <2>2, <2>3, <2>4, TurnTaken DEF AddQuestion, ConvTypeOK
<1>3. CASE CreateAnswer(t)
  <2>1. Writes(t) /\ Wrote(t, "assistant")'
    BY <1>0, <1>3, MessageAdded DEF CreateAnswer
  <2>2. ConvTypeOK'
    BY <1>0, <1>3, <2>1 DEF CreateAnswer, ConvTypeOK, Writes
  <2>3. /\ turn[t] = "worded" /\ turn'[t] = "listing"
        /\ \A u \in Turns : turn[u] = "completed" => turn'[u] = "completed"
        /\ listed'[t] = <<>> /\ shown'[t] = <<>> /\ earlier'[t] = earlier[t]
        /\ earlier[t] \subseteq Turns
    BY <1>0, <1>3 DEF CreateAnswer, ConvTypeOK, TurnSound
  <2>4. TurnSound(t)'
    BY <1>0, <2>1, <2>3 DEF TurnSound, ReadsAll, Rising
  <2>. QED
    BY <1>0, <1>3, <2>1, <2>2, <2>3, <2>4, TurnTaken DEF CreateAnswer, ConvTypeOK
<1>. QED
  BY <1>1, <1>2, <1>3 DEF Question

LEMMA ListSound ==
  ASSUME ConvInv, NEW t \in Turns, ListMessages(t)
  PROVE  ConvInv'
<1>0. ConvTypeOK /\ TurnSound(t)
  BY DEF ConvInv
<1> DEFINE all == [i \in 1 .. Oldest |-> i]
<1>1. Oldest \in Nat /\ \A i \in DOMAIN msgs : i <= Limit => i \in 1 .. Oldest
  BY <1>0, ConversationAssumption DEF ConvTypeOK, Oldest
<1>2. 1 .. Oldest \subseteq DOMAIN msgs
  BY <1>0, ConversationAssumption DEF ConvTypeOK, Oldest
<1>3. all \in Seq(Nat) /\ Rising(all) /\ DOMAIN all = 1 .. Oldest
  BY <1>1 DEF Rising
<1>4. \A i \in 1 .. Oldest : all[i] = i
  OBVIOUS
<1> HIDE DEF all
<1>5. /\ turn[t] = "listing" /\ turn' = [turn EXCEPT ![t] = "reading"]
      /\ listed' = [listed EXCEPT ![t] = all] /\ UNCHANGED <<msgs, shown, earlier>>
  BY DEF ListMessages, Move, all
<1>6. /\ turn'[t] = "reading" /\ listed'[t] = all /\ shown'[t] = <<>>
      /\ earlier'[t] = earlier[t] /\ earlier[t] \subseteq Turns
      /\ \A u \in Turns : turn[u] = "completed" => turn'[u] = "completed"
  BY <1>0, <1>5 DEF ConvTypeOK, TurnSound
<1>7. ConvTypeOK'
  BY <1>0, <1>3, <1>5 DEF ConvTypeOK
<1>8. \A i \in DOMAIN msgs : i <= Limit => Has(listed'[t], i)
  BY <1>1, <1>3, <1>4, <1>6 DEF Has
<1>9. ReadsAll(t)'
  <2>1. Rising(shown'[t]) /\ Rising(listed'[t]) /\ DOMAIN shown'[t] = {}
    BY <1>3, <1>6 DEF Rising
  <2>2. \A j \in DOMAIN listed'[t] : listed'[t][j] \in DOMAIN msgs'
    <3>1. \A j \in DOMAIN all : all[j] \in DOMAIN msgs
      BY <1>2, <1>3, <1>4
    <3>. QED
      BY <1>5, <1>6, <3>1, Zenon
  <2>3. \A i \in DOMAIN msgs' : i <= Limit => Has(listed'[t], i)
    BY <1>5, <1>8
  <2>. QED
    BY <2>1, <2>2, <2>3 DEF ReadsAll, Rising, Has
<1>10. TurnSound(t)'
  BY <1>0, <1>5, <1>6, <1>9 DEF TurnSound, Wrote
<1>11. Writes(t)
  BY <1>0, <1>5, NothingWritten
<1>. QED
  BY <1>0, <1>5, <1>7, <1>10, <1>11, TurnTaken DEF ConvTypeOK
(* The next of the listed messages is read.                                *)
LEMMA ReadSound ==
  ASSUME ConvInv, NEW t \in Turns, ReadItems(t)
  PROVE  ConvInv'
<1>0. ConvTypeOK /\ TurnSound(t) /\ ReadsAll(t)
  BY DEF ConvInv, TurnSound
<1> DEFINE l == listed[t]
           s == shown[t]
           h == Head(l)
           r == IF msgs[h].text THEN Append(s, h) ELSE s
<1>1. /\ turn[t] = "reading" /\ l # <<>>
      /\ listed' = [listed EXCEPT ![t] = Tail(l)] /\ shown' = [shown EXCEPT ![t] = r]
      /\ UNCHANGED <<msgs, turn, earlier>>
  BY <1>0 DEF ReadItems, ConvTypeOK
<1>2. l \in Seq(Nat) /\ s \in Seq(Nat)
  BY <1>0 DEF ConvTypeOK
<1>3. /\ Rising(s) /\ Rising(l)
      /\ \A i \in DOMAIN s, j \in DOMAIN l : s[i] < l[j]
      /\ \A j \in DOMAIN l : l[j] \in DOMAIN msgs
      /\ \A i \in DOMAIN msgs : i <= Limit /\ msgs[i].text /\ Due(t, i) => Has(s, i) \/ Has(l, i)
  BY <1>0, <1>1 DEF ReadsAll
<1> HIDE DEF l, s
<1>4. /\ Len(l) \in Nat \ {0} /\ DOMAIN l = 1 .. Len(l) /\ h = l[1] /\ h \in Nat
      /\ Tail(l) \in Seq(Nat) /\ DOMAIN Tail(l) = 1 .. Len(l) - 1
      /\ \A j \in 1 .. Len(l) - 1 : Tail(l)[j] = l[j + 1]
  BY <1>1, <1>2
<1>5. /\ Rising(Tail(l))
      /\ \A j \in DOMAIN Tail(l) : h < Tail(l)[j] /\ Tail(l)[j] \in DOMAIN msgs
      /\ \A x : Has(l, x) => x = h \/ Has(Tail(l), x)
  <2>1. ASSUME NEW j \in 1 .. Len(l) - 1
        PROVE  j + 1 \in DOMAIN l /\ 1 \in DOMAIN l /\ Tail(l)[j] = l[j + 1] /\ 1 < j + 1
    BY <1>4
  <2>2. Rising(Tail(l))
    <3> SUFFICES ASSUME NEW i \in 1 .. Len(l) - 1, NEW j \in 1 .. Len(l) - 1, i < j
                 PROVE  Tail(l)[i] < Tail(l)[j]
      BY <1>4 DEF Rising
    <3>1. i + 1 < j + 1
      BY <1>4
    <3>. QED
      BY <1>3, <2>1, <3>1 DEF Rising
  <2>3. \A j \in DOMAIN Tail(l) : h < Tail(l)[j] /\ Tail(l)[j] \in DOMAIN msgs
    BY <1>3, <1>4, <2>1 DEF Rising
  <2>4. ASSUME NEW x, Has(l, x) PROVE x = h \/ Has(Tail(l), x)
    <3>1. PICK k \in DOMAIN l : l[k] = x
      BY <2>4 DEF Has
    <3>2. CASE k = 1
      BY <1>4, <3>1, <3>2
    <3>3. CASE k # 1
      <4>1. k - 1 \in 1 .. Len(l) - 1 /\ (k - 1) + 1 = k
        BY <1>4, <3>1, <3>3
      <4>2. Tail(l)[k - 1] = x
        BY <1>4, <3>1, <4>1
      <4>. QED
        BY <1>4, <4>1, <4>2 DEF Has
    <3>. QED
      BY <3>2, <3>3
  <2>. QED
    BY <2>2, <2>3, <2>4
<1>6. /\ Len(s) \in Nat /\ DOMAIN s = 1 .. Len(s)
      /\ Append(s, h) \in Seq(Nat) /\ DOMAIN Append(s, h) = 1 .. Len(s) + 1
      /\ \A i \in 1 .. Len(s) : Append(s, h)[i] = s[i]
      /\ Append(s, h)[Len(s) + 1] = h
  BY <1>2, <1>4
<1>7. \A i \in DOMAIN s : s[i] < h
  BY <1>3, <1>4
<1>8. /\ r \in Seq(Nat) /\ Rising(r)
      /\ \A i \in DOMAIN r : r[i] = h \/ \E k \in DOMAIN s : r[i] = s[k]
      /\ \A x : Has(s, x) => Has(r, x)
      /\ msgs[h].text => Has(r, h)
  <2>1. CASE ~msgs[h].text
    BY <1>2, <1>3, <2>1
  <2>2. CASE msgs[h].text
    <3>1. r = Append(s, h)
      BY <2>2
    <3>2. Rising(Append(s, h))
      BY <1>2, <1>3, <1>4, <1>6, <1>7 DEF Rising
    <3>3. \A i \in DOMAIN Append(s, h) : Append(s, h)[i] = h \/ \E k \in DOMAIN s : Append(s, h)[i] = s[k]
      BY <1>6
    <3>4. Len(s) + 1 \in DOMAIN Append(s, h) /\ DOMAIN s \subseteq DOMAIN Append(s, h)
      BY <1>6
    <3>5. \A x : Has(s, x) => Has(Append(s, h), x)
      BY <1>6, <3>4 DEF Has
    <3>6. Has(Append(s, h), h)
      BY <1>6, <3>4 DEF Has
    <3>. QED
      BY <1>6, <3>1, <3>2, <3>3, <3>5, <3>6, Zenon
  <2>. QED
    BY <2>1, <2>2
<1> HIDE DEF r
<1>9. \A i \in DOMAIN r, j \in DOMAIN Tail(l) : r[i] < Tail(l)[j]
  <2> SUFFICES ASSUME NEW i \in DOMAIN r, NEW j \in DOMAIN Tail(l) PROVE r[i] < Tail(l)[j]
    OBVIOUS
  <2>1. j + 1 \in DOMAIN l /\ Tail(l)[j] = l[j + 1]
    BY <1>4
  <2>2. CASE r[i] = h
    BY <1>5, <2>2
  <2>3. CASE \E k \in DOMAIN s : r[i] = s[k]
    BY <1>3, <2>1, <2>3
  <2>. QED
    BY <1>8, <2>2, <2>3
<1>10. \A i \in DOMAIN msgs : i <= Limit /\ msgs[i].text /\ Due(t, i) => Has(r, i) \/ Has(Tail(l), i)
  BY <1>3, <1>5, <1>8
<1>11. listed'[t] = Tail(l) /\ shown'[t] = r
  BY <1>0, <1>1 DEF ConvTypeOK
<1>12. ReadsAll(t)'
  BY <1>1, <1>5, <1>8, <1>9, <1>10, <1>11 DEF ReadsAll, Due
<1>13. TurnSound(t)'
  BY <1>0, <1>1, <1>12 DEF TurnSound, Wrote
<1>14. ConvTypeOK'
  BY <1>0, <1>1, <1>4, <1>8 DEF ConvTypeOK
<1>15. Writes(t)
  BY <1>0, <1>1, NothingWritten
<1>. QED
  BY <1>0, <1>1, <1>13, <1>14, <1>15, TurnTaken DEF ConvTypeOK

LEMMA AnswerSound ==
  ASSUME ConvInv, NEW t \in Turns, Answer(t)
  PROVE  ConvInv'
<1> USE DEF Move, Forget
<1>0. ConvTypeOK /\ TurnSound(t)
  BY DEF ConvInv
<1>1. CASE CallModel(t)
  <2>1. Writes(t) /\ UNCHANGED <<msgs, listed, shown, earlier>> /\ listed[t] = <<>>
    BY <1>0, <1>1, NothingWritten DEF CallModel
  <2>2. ConvTypeOK' /\ turn[t] = "reading" /\ turn'[t] = "answering"
        /\ \A u \in Turns : turn[u] = "completed" => turn'[u] = "completed"
    BY <1>0, <1>1 DEF CallModel, ConvTypeOK
  <2>3. TurnSound(t)'
    BY <1>0, <2>1, <2>2 DEF TurnSound, ReadsAll, Due, Wrote, ConvTypeOK
  <2>. QED
    BY <1>0, <1>1, <2>1, <2>2, <2>3, TurnTaken DEF CallModel, ConvTypeOK
<1>2. CASE AddAnswer(t) \/ NoAnswer(t)
  <2>1. Writes(t) /\ UNCHANGED earlier
    BY <1>0, <1>2, NothingWritten, TextAdded DEF AddAnswer, NoAnswer, TurnSound
  <2>2. /\ turn[t] = "answering" /\ turn' = [turn EXCEPT ![t] = "answered"]
        /\ listed' = [listed EXCEPT ![t] = <<>>] /\ shown' = [shown EXCEPT ![t] = <<>>]
    BY <1>2 DEF AddAnswer, NoAnswer
  <2>3. ConvTypeOK' /\ turn'[t] = "answered" /\ listed'[t] = <<>> /\ shown'[t] = <<>>
        /\ \A u \in Turns : turn[u] = "completed" => turn'[u] = "completed"
    BY <1>0, <2>1, <2>2 DEF ConvTypeOK, Writes
  <2>4. TurnSound(t)'
    BY <1>0, <2>1, <2>3 DEF TurnSound, ReadsAll, Rising, ConvTypeOK
  <2>. QED
    BY <1>0, <2>1, <2>2, <2>3, <2>4, TurnTaken DEF ConvTypeOK
<1>3. CASE Complete(t)
  <2>1. Writes(t) /\ UNCHANGED <<msgs, listed, shown, earlier>>
    BY <1>0, <1>3, NothingWritten DEF Complete
  <2>2. ConvTypeOK' /\ turn[t] = "answered" /\ turn'[t] = "completed"
        /\ \A u \in Turns : turn[u] = "completed" => turn'[u] = "completed"
    BY <1>0, <1>3 DEF Complete, ConvTypeOK
  <2>3. TurnSound(t)'
    BY <1>0, <2>1, <2>2 DEF TurnSound, ReadsAll, ConvTypeOK
  <2>. QED
    BY <1>0, <1>3, <2>1, <2>2, <2>3, TurnTaken DEF Complete, ConvTypeOK
<1>. QED
  BY <1>1, <1>2, <1>3, ListSound, ReadSound DEF Answer

LEMMA FailureSound ==
  ASSUME ConvInv, NEW t \in Turns, FailTurn(t)
  PROVE  ConvInv'
<1>0. ConvTypeOK /\ TurnSound(t)
  BY DEF ConvInv
<1>1. Writes(t) /\ UNCHANGED <<msgs, earlier>> /\ turn[t] # "completed"
  BY <1>0, NothingWritten DEF FailTurn
<1>2. /\ turn' = [turn EXCEPT ![t] = "failed"]
      /\ listed' = [listed EXCEPT ![t] = <<>>] /\ shown' = [shown EXCEPT ![t] = <<>>]
  BY DEF FailTurn, Forget
<1>3. ConvTypeOK' /\ turn'[t] = "failed" /\ listed'[t] = <<>> /\ shown'[t] = <<>>
      /\ \A u \in Turns : turn[u] = "completed" => turn'[u] = "completed"
  BY <1>0, <1>1, <1>2 DEF ConvTypeOK
<1>4. TurnSound(t)'
  BY <1>0, <1>1, <1>3 DEF TurnSound, ReadsAll, Rising, ConvTypeOK
<1>. QED
  BY <1>0, <1>1, <1>2, <1>3, <1>4, TurnTaken DEF ConvTypeOK

LEMMA ConvStep == ConvInv /\ [ConvNext]_convVars => ConvInv'
<1> SUFFICES ASSUME ConvInv, [ConvNext]_convVars PROVE ConvInv'
  OBVIOUS
<1>1. CASE UNCHANGED convVars
  BY <1>1 DEF convVars, ConvInv, ConvTypeOK, TurnSound, ReadsAll, Due, Wrote
<1>. QED
  BY <1>1, QuestionSound, AnswerSound, FailureSound DEF ConvNext

(* However many responses write into a conversation while another reads    *)
(* it, the model is shown what it has to be shown, in order                *)
(* (orchestrator.go:602-628, message_repo.go:95-146).                      *)
THEOREM ModelSeesHistory == ConvSpec => []HistoryIsFaithful
<1>1. ConvInv => HistoryIsFaithful
  <2> SUFFICES ASSUME ConvInv, NEW t \in Turns, turn[t] = "answering"
               PROVE  /\ Rising(shown[t])
                      /\ \A i \in DOMAIN msgs :
                           i <= Limit /\ msgs[i].text /\ Due(t, i) => Has(shown[t], i)
    BY DEF HistoryIsFaithful, Rising, Has, Due
  <2>1. listed[t] = <<>> /\ ReadsAll(t)
    BY DEF ConvInv, TurnSound
  <2>2. \A i : ~Has(listed[t], i)
    BY <2>1 DEF Has
  <2>. QED
    BY <2>1, <2>2 DEF ReadsAll
<1>. QED
  BY ConvInitially, ConvStep, <1>1, PTL DEF ConvSpec
-----------------------------------------------------------------------------
(* The limits: what is counted is never less than what was let through.    *)

(* The window of an instant.                                               *)
LEMMA WindowOf ==
  ASSUME NEW t \in Nat
  PROVE  /\ WindowAt(t) \in Nat
         /\ WindowAt(t) * Window <= t
         /\ t < (WindowAt(t) + 1) * Window
         /\ (WindowAt(t) + 1) * Window = WindowAt(t) * Window + Window
  BY RateAssumption DEF WindowAt

LEMMA WindowsRise ==
  ASSUME NEW s \in Nat, NEW t \in Nat, s <= t
  PROVE  WindowAt(s) <= WindowAt(t)
  BY RateAssumption DEF WindowAt

LEMMA WindowsOrdered ==
  ASSUME NEW v \in Nat, NEW w \in Nat, v <= w
  PROVE  (v + 1) * Window <= (w + 1) * Window /\ (v + 1) * Window \in Nat
  BY RateAssumption

(* A window that an instant reached, or a later one, ends after it.        *)
LEMMA WindowEnds ==
  ASSUME NEW t \in Nat, NEW w \in Nat, WindowAt(t) <= w
  PROVE  t < (w + 1) * Window
<1>1. WindowAt(t) \in Nat /\ t < (WindowAt(t) + 1) * Window
  BY WindowOf
<1>2. (WindowAt(t) + 1) * Window <= (w + 1) * Window
  BY <1>1, WindowsOrdered
<1>. QED
  BY <1>1, <1>2, WindowsOrdered, RateAssumption

(* Some of the requests.                                                   *)
LEMMA FewerRequests ==
  ASSUME NEW S, NEW T, S \subseteq T, T \subseteq Requests
  PROVE  /\ Cardinality(S) \in Nat /\ Cardinality(T) \in Nat
         /\ Cardinality(S) <= Cardinality(T)
<1>1. IsFiniteSet(T)
  BY FS_Subset, RateAssumption
<1>. QED
  BY <1>1, FS_Subset, FS_CardinalityType

LEMMA OneMoreRequest ==
  ASSUME NEW S, NEW T, S \subseteq Requests, NEW r \in Requests, r \notin S
  PROVE  /\ S \cup {r} \subseteq T /\ T \subseteq Requests => Cardinality(T) >= Cardinality(S) + 1
         /\ T \subseteq S \cup {r} => Cardinality(T) <= Cardinality(S) + 1
<1>1. IsFiniteSet(S)
  BY FS_Subset, RateAssumption
<1>2. /\ IsFiniteSet(S \cup {r})
      /\ Cardinality(S \cup {r}) = Cardinality(S) + 1
  BY <1>1, FS_AddElement
<1>3. ASSUME S \cup {r} \subseteq T, T \subseteq Requests PROVE Cardinality(T) >= Cardinality(S) + 1
  <2>1. Cardinality(S \cup {r}) \in Nat /\ Cardinality(T) \in Nat /\ Cardinality(S \cup {r}) <= Cardinality(T)
    BY <1>3, FewerRequests, Zenon
  <2>. QED
    BY <1>2, <2>1
<1>4. ASSUME T \subseteq S \cup {r} PROVE Cardinality(T) <= Cardinality(S) + 1
  <2>1. S \cup {r} \subseteq Requests
    OBVIOUS
  <2>2. Cardinality(T) <= Cardinality(S \cup {r})
    BY <1>4, <2>1, FewerRequests, Zenon
  <2>. QED
    BY <1>2, <2>2
<1>. QED
  BY <1>3, <1>4

(* One request becomes q, and keeps its address and its instant.           *)
Becomes(r, q) ==
  /\ q \in Request /\ q.at # "new"
  /\ request' = [request EXCEPT ![r] = q]
  /\ request[r].at # "new" => q.ip = request[r].ip /\ q.came = request[r].came /\ q.window = request[r].window

LEMMA OthersGrow ==
  ASSUME RateTypeOK, NEW r \in Requests, NEW q, Becomes(r, q),
         NEW p \in Requests, request[p].at # "new"
  PROVE  /\ Cardinality(Others(p)) \in Nat /\ Cardinality(Others(p))' \in Nat
         /\ Cardinality(Others(p)) <= Cardinality(Others(p))'
<1>1. \A s \in Requests : request[s].at # "new" =>
        /\ request'[s].at # "new" /\ request'[s].ip = request[s].ip /\ request'[s].came = request[s].came
  BY DEF Becomes, RateTypeOK
<1> DEFINE S == Others(p)
           T == Others(p)'
<1>2. S \subseteq T /\ T \subseteq Requests
  BY <1>1 DEF Others, Came
<1> HIDE DEF S, T
<1>3. Cardinality(S) \in Nat /\ Cardinality(T) \in Nat /\ Cardinality(S) <= Cardinality(T)
  BY <1>2, FewerRequests, Zenon
<1>. QED
  BY <1>3 DEF S, T

(* What the step of one request does to the sets.                          *)
Beyond == {"ttl", "refused", "admitted", "served"}

LEMMA CountsGrow ==
  ASSUME RateTypeOK, NEW r \in Requests, NEW q, Becomes(r, q),
         request[r].at \in Beyond => q.at \in Beyond,
         NEW ip, NEW w
  PROVE  /\ Counts(ip, w) \subseteq Counts(ip, w)' /\ Counts(ip, w)' \subseteq Requests
         /\ request[r].at \notin Beyond => r \notin Counts(ip, w)
         /\ q.at \in Beyond /\ q.ip = ip /\ q.window = w => r \in Counts(ip, w)'
<1>1. /\ request'[r] = q
      /\ \A s \in Requests : s # r => request'[s] = request[s]
  BY DEF Becomes, RateTypeOK
<1>2. request[r].at \in Beyond => q.ip = request[r].ip /\ q.window = request[r].window
  BY DEF Becomes, RateTypeOK, Beyond
<1>. QED
  BY <1>1, <1>2 DEF Counts, Beyond

LEMMA ThroughGrow ==
  ASSUME RateTypeOK, NEW r \in Requests, NEW q, Becomes(r, q),
         failedOpen' \in {failedOpen, failedOpen \cup {r}},
         Passed(r) => q.counted = request[r].counted,
         NEW ip, NEW w
  PROVE  /\ Through(ip, w) \subseteq Requests /\ Through(ip, w)' \subseteq Through(ip, w) \cup {r}
         /\ (Passed(r)' => Passed(r)) => Through(ip, w)' \subseteq Through(ip, w)
         /\ ~(q.ip = ip /\ q.counted \div Window = w) => Through(ip, w)' \subseteq Through(ip, w)
<1>1. /\ request'[r] = q
      /\ \A s \in Requests : s # r => request'[s] = request[s]
  BY DEF Becomes, RateTypeOK
<1>2. \A s \in Requests : s # r => (s \in failedOpen' <=> s \in failedOpen)
  OBVIOUS
<1>3. Passed(r) => q.ip = request[r].ip /\ q.came = request[r].came
  BY DEF Becomes, Passed
<1>. QED
  BY <1>1, <1>2, <1>3 DEF Through, Passed, Counted, Came

(* A key nobody counts keeps its promise.                                  *)
LEMMA KeyStays ==
  ASSUME NEW ip, NEW w, KeySound(ip, w), UNCHANGED <<now, counters, expiry>>,
         counters[<<ip, w>>] \in Nat,
         Counts(ip, w) \subseteq Counts(ip, w)', Counts(ip, w)' \subseteq Requests,
         PerIP > 0 => Through(ip, w)' \subseteq Through(ip, w)
  PROVE  KeySound(ip, w)'
<1> DEFINE C == Counts(ip, w)
           D == Counts(ip, w)'
           S == Through(ip, w)
           T == Through(ip, w)'
           n == counters[<<ip, w>>]
<1>0. S \subseteq Requests
  BY DEF Through
<1>1. /\ n > 0 => expiry[<<ip, w>>] >= (w + 1) * Window
      /\ n <= Cardinality(C)
      /\ PerIP > 0 => /\ Cardinality(S) <= PerIP
                      /\ w >= WindowAt(now) => Cardinality(S) <= n
  BY DEF KeySound
<1>2. C \subseteq D /\ D \subseteq Requests /\ (PerIP > 0 => T \subseteq S)
  OBVIOUS
<1>3. n \in Nat /\ UNCHANGED <<now, counters, expiry>>
  OBVIOUS
<1>9. SUFFICES /\ n > 0 => expiry[<<ip, w>>] >= (w + 1) * Window
               /\ n <= Cardinality(D)
               /\ PerIP > 0 => /\ Cardinality(T) <= PerIP
                               /\ w >= WindowAt(now) => Cardinality(T) <= n
  BY <1>3 DEF KeySound, WindowAt
<1> HIDE DEF C, D, S, T, n
<1>4. Cardinality(C) \in Nat /\ Cardinality(D) \in Nat /\ Cardinality(C) <= Cardinality(D)
  BY <1>2, FewerRequests, Zenon
<1>5. PerIP > 0 => Cardinality(T) \in Nat /\ Cardinality(S) \in Nat /\ Cardinality(T) <= Cardinality(S)
  BY <1>0, <1>2, FewerRequests, Zenon
<1>. QED
  BY <1>1, <1>3, <1>4, <1>5, RateAssumption

(* The other requests.                                                     *)
LEMMA OthersSound ==
  ASSUME RateInv, NEW r \in Requests, NEW q, Becomes(r, q), UNCHANGED now,
         NEW p \in Requests, p # r
  PROVE  RequestSound(p)'
<1>1. RateTypeOK /\ RequestSound(p)
  BY DEF RateInv
<1>2. request'[p] = request[p]
  BY <1>1 DEF Becomes, RateTypeOK
<1>3. request[p].at # "new" => /\ Cardinality(Others(p)) \in Nat /\ Cardinality(Others(p))' \in Nat
                              /\ Cardinality(Others(p)) <= Cardinality(Others(p))'
  BY <1>1, OthersGrow
<1> DEFINE m == Cardinality(Others(p))
           n == Cardinality(Others(p))'
<1>4. request[p].at # "new" => m \in Nat /\ n \in Nat /\ m <= n
  BY <1>3
<1>5. request[p].at \in {"ttl", "refused"} => m >= PerIP
  BY <1>1 DEF RequestSound
<1> HIDE DEF m, n
<1>6. request[p].at \in {"ttl", "refused"} => n >= PerIP
  BY <1>4, <1>5, RateAssumption
<1>. QED
  BY <1>1, <1>2, <1>6 DEF RequestSound, n, WindowAt

LEMMA RateInitially == RateInit => RateInv
<1> SUFFICES ASSUME RateInit PROVE RateInv
  OBVIOUS
<1> USE RateAssumption
<1>1. RateTypeOK
  BY DEF RateInit, RateTypeOK, Request, Unborn
<1>2. ASSUME NEW r \in Requests PROVE RequestSound(r)
  BY DEF RateInit, RequestSound, Unborn
<1>3. ASSUME NEW ip \in Addresses, NEW w \in 0..WindowAt(LastTick) PROVE KeySound(ip, w)
  <2> DEFINE C == Counts(ip, w)
             T == Through(ip, w)
  <2>1. C = {} /\ T = {}
    BY DEF RateInit, Counts, Through, Passed, Unborn
  <2>2. counters[<<ip, w>>] = 0
    BY <1>3 DEF RateInit, Keys, Owners
  <2>3. Cardinality({}) = 0
    BY FS_EmptySet
  <2>. QED
    BY <2>1, <2>2, <2>3 DEF KeySound
<1>. QED
  BY <1>1, <1>2, <1>3 DEF RateInv

(* A key that may be counted.                                              *)
LEMMA KeyOf ==
  ASSUME RateInv, NEW r \in Requests, request[r].at # "new"
  PROVE  /\ request[r].ip \in Addresses /\ request[r].window \in 0..WindowAt(LastTick)
         /\ <<request[r].ip, request[r].window>> \in Keys
         /\ request[r].window = WindowAt(request[r].came)
         /\ request[r].came \in Nat /\ request[r].came <= now /\ now \in Nat /\ now <= LastTick
<1>1. /\ request[r] \in Request /\ now \in 0..LastTick
      /\ request[r].ip \in Addresses /\ request[r].came <= now
      /\ request[r].window = WindowAt(request[r].came)
  BY DEF RateInv, RateTypeOK, RequestSound
<1>2. request[r].came \in Nat /\ request[r].came <= LastTick /\ now \in Nat /\ now <= LastTick
  BY <1>1, RateAssumption DEF Request
<1>3. WindowAt(request[r].came) \in Nat /\ WindowAt(LastTick) \in Nat
      /\ WindowAt(request[r].came) <= WindowAt(LastTick)
  BY <1>2, WindowOf, WindowsRise, RateAssumption
<1>. QED
  BY <1>1, <1>2, <1>3 DEF Keys, Owners

(* A request that moves on without being counted.                          *)
LEMMA UncountedSound ==
  ASSUME RateInv, NEW r \in Requests, NEW q, Becomes(r, q),
         UNCHANGED <<now, counters, expiry>>,
         failedOpen' \in {failedOpen, failedOpen \cup {r}},
         request[r].at \in Beyond => q.at \in Beyond,
         Passed(r) => q.counted = request[r].counted,
         PerIP > 0 => (Passed(r)' => Passed(r)),
         RequestSound(r)'
  PROVE  RateInv'
<1>0. RateTypeOK
  BY DEF RateInv
<1>1. RateTypeOK'
  BY <1>0 DEF RateTypeOK, Becomes
<1>2. ASSUME NEW p \in Requests PROVE RequestSound(p)'
  BY OthersSound
<1>3. ASSUME NEW ip \in Addresses, NEW w \in 0..WindowAt(LastTick) PROVE KeySound(ip, w)'
  <2>1. KeySound(ip, w)
    BY <1>3 DEF RateInv
  <2>2. counters[<<ip, w>>] \in Nat
    BY <1>0, <1>3 DEF RateTypeOK, Keys, Owners
  <2>3. Counts(ip, w) \subseteq Counts(ip, w)' /\ Counts(ip, w)' \subseteq Requests
    BY <1>0, CountsGrow
  <2>4. PerIP > 0 => Through(ip, w)' \subseteq Through(ip, w)
    BY <1>0, ThroughGrow
  <2>. QED
    BY <2>1, <2>2, <2>3, <2>4, KeyStays
<1>. QED
  BY <1>1, <1>2, <1>3 DEF RateInv, WindowAt

LEMMA ArriveSound ==
  ASSUME RateInv, NEW r \in Requests, NEW user \in Users, NEW ip \in Addresses, Arrive(r, user, ip)
  PROVE  RateInv'
<1> DEFINE q == [at |-> "user", user |-> user, known |-> "nobody", ip |-> ip,
                 came |-> now, window |-> WindowAt(now), counted |-> now, over |-> "no", retry |-> 0]
<1>0. RateTypeOK /\ now \in Nat /\ WindowAt(now) \in Nat
  BY WindowOf, RateAssumption DEF RateInv, RateTypeOK
<1>1. /\ request[r].at = "new" /\ UNCHANGED <<now, counters, expiry, failedOpen>>
      /\ request' = [request EXCEPT ![r] = q]
  BY DEF Arrive
<1>2. q \in Request
  BY <1>0 DEF Request, Owners
<1>3. request'[r] = q
  BY <1>0, <1>1 DEF RateTypeOK
<1>4. RequestSound(r)'
  BY <1>0, <1>1, <1>3 DEF RequestSound, WindowAt
<1>5. ~Passed(r) /\ ~Passed(r)'
  BY <1>1, <1>3 DEF Passed
<1>6. Becomes(r, q)
  BY <1>1, <1>2 DEF Becomes
<1>7. request[r].at \notin Beyond
  BY <1>1 DEF Beyond
<1> HIDE DEF q
<1>. QED
  BY <1>1, <1>4, <1>5, <1>6, <1>7, UncountedSound

(* Nobody is known yet when a request is counted.                          *)
LEMMA UserUncounted ==
  ASSUME RateInv, NEW r \in Requests, CountUser(r)
  PROVE  Skip(r, "ip") /\ request[r].at = "user"
BY RateAssumption DEF RateInv, RequestSound, CountUser

LEMMA SkipSound ==
  ASSUME RateInv, NEW r \in Requests, NEW next \in {"ip", "admitted"}, Skip(r, next),
         \/ request[r].at = "user" /\ next = "ip"
         \/ request[r].at = "ip" /\ PerIP = 0
  PROVE  RateInv'
<1> DEFINE q == [request[r] EXCEPT !.at = next]
<1>0. RateTypeOK /\ request[r] \in Request /\ RequestSound(r)
  BY DEF RateInv, RateTypeOK
<1>1. /\ UNCHANGED <<now, counters, expiry, failedOpen>>
      /\ request' = [request EXCEPT ![r] = q]
  BY DEF Skip
<1>2. q \in Request /\ q.at # "new"
  BY <1>0 DEF Request
<1>3. request'[r] = q
  BY <1>0, <1>1 DEF RateTypeOK
<1>4. /\ q.at = next /\ q.ip = request[r].ip /\ q.came = request[r].came
      /\ q.window = request[r].window /\ q.counted = request[r].counted /\ q.known = request[r].known
  BY <1>0 DEF Request
<1>5. RequestSound(r)'
  BY <1>0, <1>1, <1>3, <1>4 DEF RequestSound, WindowAt
<1>6. Becomes(r, q)
  BY <1>1, <1>2, <1>4 DEF Becomes
<1>7. ~Passed(r) /\ (PerIP > 0 => ~Passed(r)') /\ request[r].at \notin Beyond
  BY <1>1, <1>3, <1>4, RateAssumption DEF Passed, Beyond
<1> HIDE DEF q
<1>. QED
  BY <1>1, <1>5, <1>6, <1>7, UncountedSound

LEMMA AuthenticateSound ==
  ASSUME RateInv, NEW r \in Requests, Authenticate(r)
  PROVE  RateInv'
<1> DEFINE q == [request[r] EXCEPT !.at = "served", !.known = request[r].user]
<1>0. RateTypeOK /\ request[r] \in Request /\ RequestSound(r)
  BY DEF RateInv, RateTypeOK
<1>1. /\ UNCHANGED <<now, counters, expiry, failedOpen>> /\ request[r].at = "admitted"
      /\ request' = [request EXCEPT ![r] = q]
  BY <1>0 DEF Authenticate, Request, RateTypeOK
<1>2. q \in Request /\ q.at # "new"
  BY <1>0 DEF Request
<1>3. request'[r] = q
  BY <1>0, <1>1 DEF RateTypeOK
<1>4. /\ q.at = "served" /\ q.ip = request[r].ip /\ q.came = request[r].came
      /\ q.window = request[r].window /\ q.counted = request[r].counted
  BY <1>0 DEF Request
<1>5. RequestSound(r)'
  BY <1>0, <1>1, <1>3, <1>4 DEF RequestSound, WindowAt
<1>6. Becomes(r, q)
  BY <1>1, <1>2, <1>4 DEF Becomes
<1>7. (Passed(r)' => Passed(r)) /\ q.at \in Beyond
  BY <1>1, <1>4 DEF Passed, Beyond
<1> HIDE DEF q
<1>. QED
  BY <1>1, <1>4, <1>5, <1>6, <1>7, UncountedSound

(* Who is told to come back is told to come in a later minute.             *)
LEMMA RefuseSound ==
  ASSUME RateInv, NEW r \in Requests, Refuse(r)
  PROVE  RateInv'
<1> DEFINE w == request[r].window
           key == <<request[r].over, w>>
<1>0. RateTypeOK /\ request[r] \in Request /\ RequestSound(r) /\ request[r].at = "ttl"
  BY DEF RateInv, RateTypeOK, Refuse
<1>1. /\ request[r].over = request[r].ip /\ request[r].ip \in Addresses /\ w \in 0..WindowAt(LastTick)
      /\ key \in Keys /\ w = WindowAt(request[r].came)
      /\ request[r].came \in Nat /\ request[r].came <= now /\ now \in Nat
  BY <1>0, KeyOf DEF RequestSound
<1>2. PICK left \in {Window} \cup (IF counters[key] > 0 THEN {expiry[key] - now} ELSE {}) :
        request' = [request EXCEPT ![r].at = "refused", ![r].retry = now + 1 + left]
  BY DEF Refuse
<1>3. w * Window <= request[r].came /\ w \in Nat /\ (w + 1) * Window = w * Window + Window /\ w * Window \in Nat
  BY <1>1, WindowOf, RateAssumption
<1>4. counters[key] > 0 => expiry[key] >= (w + 1) * Window
  BY <1>1 DEF RateInv, KeySound
<1>5. counters[key] \in Nat /\ expiry[key] \in Nat
  BY <1>0, <1>1 DEF RateTypeOK
<1> DEFINE n == now + 1 + left
           q == [request[r] EXCEPT !.at = "refused", !.retry = n]
<1> HIDE DEF w, key
<1>6. n \in Nat /\ n >= (w + 1) * Window
  <2>1. CASE left = Window
    BY <2>1, <1>1, <1>3, RateAssumption
  <2>2. CASE counters[key] > 0 /\ left = expiry[key] - now
    <3>1. n = expiry[key] + 1
      BY <2>2, <1>1, <1>5
    <3>. QED
      BY <3>1, <2>2, <1>3, <1>4, <1>5, RateAssumption
  <2>. QED
    BY <1>2, <2>1, <2>2
<1>7. request' = [request EXCEPT ![r] = q]
  BY <1>0, <1>2 DEF Request, RateTypeOK
<1> HIDE DEF n
<1>8. q \in Request /\ q.at # "new"
  BY <1>0, <1>6 DEF Request
<1>9. request'[r] = q
  BY <1>0, <1>7 DEF RateTypeOK
<1>10. /\ q.at = "refused" /\ q.ip = request[r].ip /\ q.came = request[r].came /\ q.retry = n
       /\ q.window = request[r].window /\ q.counted = request[r].counted /\ q.known = request[r].known
  BY <1>0 DEF Request
<1>11. Becomes(r, q)
  BY <1>7, <1>8, <1>10 DEF Becomes
<1>12. UNCHANGED <<now, counters, expiry, failedOpen>>
  BY DEF Refuse
<1>13. Cardinality(Others(r))' >= PerIP
  <2> DEFINE k == Cardinality(Others(r))
             m == Cardinality(Others(r))'
  <2>1. k \in Nat /\ m \in Nat /\ k <= m
    BY <1>0, <1>11, OthersGrow
  <2>2. k >= PerIP
    BY <1>0 DEF RequestSound
  <2> HIDE DEF k, m
  <2>3. m >= PerIP
    BY <2>1, <2>2, RateAssumption
  <2>. QED
    BY <2>3 DEF m
<1>14. RequestSound(r)'
  BY <1>0, <1>6, <1>9, <1>10, <1>12, <1>13 DEF RequestSound, WindowAt, w
<1>15. ~Passed(r) /\ ~Passed(r)' /\ q.at \in Beyond
  BY <1>0, <1>9, <1>10 DEF Passed, Beyond
<1> HIDE DEF q
<1>. QED
  BY <1>11, <1>12, <1>14, <1>15, UncountedSound
(* A request that is counted, and let through only below the limit.        *)
LEMMA CountedSound ==
  ASSUME RateInv, NEW r \in Requests, NEW q, Becomes(r, q), request[r].at = "ip", q.at \in Beyond,
         NEW key, key = <<request[r].ip, request[r].window>>,
         NEW end \in Nat, end >= (request[r].window + 1) * Window,
         counters' = [counters EXCEPT ![key] = counters[key] + 1],
         expiry' = [expiry EXCEPT ![key] = end],
         UNCHANGED now, failedOpen' \in {failedOpen, failedOpen \cup {r}},
         Passed(r)' => counters[key] + 1 <= PerIP /\ q.counted = now,
         RequestSound(r)'
  PROVE  RateInv'
<1>0. RateTypeOK
  BY DEF RateInv
<1>1. /\ key \in Keys /\ counters \in [Keys -> Nat] /\ expiry \in [Keys -> Nat]
      /\ request[r].window = WindowAt(request[r].came)
      /\ request[r].came \in Nat /\ request[r].came <= now /\ now \in Nat
  BY <1>0, KeyOf DEF RateTypeOK
<1>2. RateTypeOK'
  BY <1>0, <1>1 DEF RateTypeOK, Becomes
<1>3. ASSUME NEW p \in Requests PROVE RequestSound(p)'
  BY OthersSound
<1>4. ASSUME NEW ip \in Addresses, NEW w \in 0..WindowAt(LastTick) PROVE KeySound(ip, w)'
  <2>1. KeySound(ip, w) /\ <<ip, w>> \in Keys
    BY <1>4 DEF RateInv, Keys, Owners
  <2>2. /\ Counts(ip, w) \subseteq Counts(ip, w)' /\ Counts(ip, w)' \subseteq Requests
        /\ r \notin Counts(ip, w)
        /\ q.ip = ip /\ q.window = w => r \in Counts(ip, w)'
    <3>. request[r].at \notin Beyond
      BY DEF Beyond
    <3>. QED
      BY <1>0, CountsGrow
  <2>3. ~Passed(r)
    BY DEF Passed
  <2>4. /\ Through(ip, w) \subseteq Requests /\ Through(ip, w)' \subseteq Through(ip, w) \cup {r}
        /\ ~Passed(r)' => Through(ip, w)' \subseteq Through(ip, w)
        /\ ~(q.ip = ip /\ q.counted \div Window = w) => Through(ip, w)' \subseteq Through(ip, w)
    BY <1>0, <2>3, ThroughGrow
  <2>5. q.ip = request[r].ip /\ q.window = request[r].window
    BY DEF Becomes
  <2>6. r \notin Through(ip, w)
    BY <2>3 DEF Through
  <2> DEFINE C == Counts(ip, w)
             D == Counts(ip, w)'
             S == Through(ip, w)
             T == Through(ip, w)'
             n == counters[<<ip, w>>]
             m == counters'[<<ip, w>>]
             e == expiry[<<ip, w>>]
             f == expiry'[<<ip, w>>]
  <2>7. /\ n > 0 => e >= (w + 1) * Window
        /\ n <= Cardinality(C)
        /\ PerIP > 0 => /\ Cardinality(S) <= PerIP
                        /\ w >= WindowAt(now) => Cardinality(S) <= n
    BY <2>1 DEF KeySound
  <2>8. n \in Nat /\ m \in Nat
    BY <1>1, <2>1
  <2>9. C \subseteq D /\ D \subseteq Requests /\ r \notin C /\ S \subseteq Requests /\ r \notin S
    BY <2>2, <2>4, <2>6
  <2>10. WindowAt(now) \in Nat /\ w \in Nat
    BY <1>1, <1>4, WindowOf
  <2>11. /\ m > 0 => f >= (w + 1) * Window
         /\ m <= Cardinality(D)
         /\ PerIP > 0 => /\ Cardinality(T) <= PerIP
                         /\ w >= WindowAt(now) => Cardinality(T) <= m
    <3>1. CASE <<ip, w>> # key
      <4>1. m = n /\ f = e
        BY <3>1, <1>1, <2>1
      <4>2. T \subseteq S
        <5>1. CASE Passed(r)'
          <6>1. ip # request[r].ip \/ w # request[r].window
            BY <3>1
          <6>2. CASE ip # request[r].ip
            BY <6>2, <2>4, <2>5
          <6>3. CASE w # request[r].window
            <7>1. SUFFICES ~(q.ip = ip /\ q.counted \div Window = w) \/ T \subseteq S
              BY <2>4
            <7>2. T \subseteq S \cup {r} /\ r \notin T
              <8>1. request'[r] = q /\ q.came = request[r].came
                BY <1>0 DEF RateTypeOK, Becomes
              <8>2. q.came \div Window = request[r].window
                BY <8>1, <1>1 DEF WindowAt
              <8>. QED
                BY <2>4, <6>3, <8>1, <8>2 DEF Through, Counted, Came
            <7>. QED
              BY <7>2
          <6>. QED
            BY <6>1, <6>2, <6>3
        <5>2. CASE ~Passed(r)'
          BY <5>2, <2>4
        <5>. QED
          BY <5>1, <5>2
      <4> HIDE DEF C, D, S, T, n, m, e, f
      <4>3. Cardinality(C) \in Nat /\ Cardinality(D) \in Nat /\ Cardinality(C) <= Cardinality(D)
        BY <2>9, FewerRequests, Zenon
      <4>4. Cardinality(T) \in Nat /\ Cardinality(S) \in Nat /\ Cardinality(T) <= Cardinality(S)
        BY <2>9, <4>2, FewerRequests, Zenon
      <4>. QED
        BY <2>7, <2>8, <2>10, <4>1, <4>3, <4>4, RateAssumption
    <3>2. CASE <<ip, w>> = key
      <4>1. m = n + 1 /\ f = end /\ ip = request[r].ip /\ w = request[r].window
        BY <3>2, <1>1, <2>1
      <4>2. C \cup {r} \subseteq D
        BY <4>1, <2>2, <2>5
      <4>3. T \subseteq S \cup {r} /\ (~Passed(r)' => T \subseteq S)
            /\ (~(q.counted \div Window = w) => T \subseteq S)
        BY <2>4
      <4>4. Passed(r)' => n + 1 <= PerIP /\ q.counted = now
        BY <4>1
      <4>5. T \subseteq S \/ (w = WindowAt(now) /\ n + 1 <= PerIP)
        BY <4>3, <4>4 DEF WindowAt
      <4> HIDE DEF C, D, S, T, n, m, e, f
      <4>6. Cardinality(D) >= Cardinality(C) + 1
        <5>. C \subseteq Requests
          BY <2>9
        <5>. QED
          BY <2>9, <4>2, OneMoreRequest, Zenon
      <4>7. Cardinality(C) \in Nat /\ Cardinality(D) \in Nat
        BY <2>9, FewerRequests, Zenon
      <4>8. T \subseteq Requests
        BY <2>9, <4>3
      <4>9. Cardinality(T) <= Cardinality(S) + 1
        BY <2>9, <4>3, OneMoreRequest, Zenon
      <4>10. T \subseteq S => Cardinality(T) <= Cardinality(S)
        BY <2>9, FewerRequests, Zenon
      <4>11. Requests \subseteq Requests
        OBVIOUS
      <4>12. Cardinality(T) \in Nat
        BY <4>8, <4>11, FewerRequests, Zenon
      <4>13. Cardinality(S) \in Nat
        BY <2>9, <4>11, FewerRequests, Zenon
      <4>14. end >= (w + 1) * Window
        BY <4>1
      <4>15. m <= Cardinality(D)
        BY <2>7, <2>8, <4>1, <4>6, <4>7
      <4>16. PerIP > 0 => Cardinality(T) <= PerIP /\ (w >= WindowAt(now) => Cardinality(T) <= m)
        <5>1. CASE T \subseteq S
          BY <5>1, <2>7, <2>8, <2>10, <4>1, <4>10, <4>12, <4>13, RateAssumption
        <5>2. CASE w = WindowAt(now) /\ n + 1 <= PerIP
          BY <5>2, <2>7, <2>8, <2>10, <4>1, <4>9, <4>12, <4>13, RateAssumption
        <5>. QED
          BY <4>5, <5>1, <5>2
      <4>. QED
        BY <4>1, <4>14, <4>15, <4>16
    <3>. QED
      BY <3>1, <3>2
  <2>. QED
    BY <2>11 DEF KeySound, WindowAt
<1>. QED
  BY <1>2, <1>3, <1>4 DEF RateInv, WindowAt

(* What the key has counted came from the address in the same minute.      *)
LEMMA CountedAreOthers ==
  ASSUME RateInv, NEW r \in Requests, request[r].at = "ip"
  PROVE  /\ Cardinality(Counts(request[r].ip, request[r].window)) <= Cardinality(Others(r))
         /\ Cardinality(Counts(request[r].ip, request[r].window)) \in Nat
         /\ Cardinality(Others(r)) \in Nat
<1> DEFINE ip == request[r].ip
           w == request[r].window
           C == Counts(ip, w)
           S == Others(r)
<1>1. C \subseteq Requests /\ r \notin C /\ S \subseteq Requests
  BY DEF Counts, Others
<1>2. \A p \in Requests : request[p].at # "new" => request[p].window = request[p].came \div Window
  BY DEF RateInv, RequestSound, WindowAt
<1>3. C \subseteq S
  BY <1>2 DEF Counts, Others, Came
<1> HIDE DEF C, S
<1>4. Cardinality(C) \in Nat /\ Cardinality(S) \in Nat /\ Cardinality(C) <= Cardinality(S)
  BY <1>1, <1>3, FewerRequests, Zenon
<1>. QED
  BY <1>4 DEF C, S
LEMMA CountIPSound ==
  ASSUME RateInv, NEW r \in Requests, request[r].at = "ip", PerIP > 0,
         Count(r, request[r].ip, PerIP, "admitted")
  PROVE  RateInv'
<1> DEFINE ip == request[r].ip
           w == request[r].window
           key == <<ip, w>>
           n == counters[key] + 1
           q == [request[r] EXCEPT !.at = IF Over(n, PerIP) THEN "ttl" ELSE "admitted",
                                   !.counted = now, !.over = IF Over(n, PerIP) THEN ip ELSE "no"]
           end == now + Window
<1>0. RateTypeOK /\ request[r] \in Request /\ RequestSound(r)
  BY DEF RateInv, RateTypeOK
<1>1. /\ key \in Keys /\ ip \in Addresses /\ w \in 0..WindowAt(LastTick)
      /\ w = WindowAt(request[r].came)
      /\ request[r].came \in Nat /\ request[r].came <= now /\ now \in Nat
  BY <1>0, KeyOf
<1>2. /\ counters' = [counters EXCEPT ![key] = counters[key] + 1]
      /\ expiry' = [expiry EXCEPT ![key] = end]
      /\ UNCHANGED <<now, failedOpen>>
      /\ request' = [request EXCEPT ![r] = q]
  BY <1>0 DEF Count, Request, RateTypeOK
<1>3. counters[key] \in Nat /\ n \in Nat
  BY <1>0, <1>1 DEF RateTypeOK
<1>4. end \in Nat /\ end >= (w + 1) * Window
  BY <1>1, WindowOf, RateAssumption
<1>5. counters[key] <= Cardinality(Counts(ip, w))
  BY <1>1 DEF RateInv, KeySound
<1>6. /\ Cardinality(Counts(ip, w)) <= Cardinality(Others(r))
      /\ Cardinality(Counts(ip, w)) \in Nat /\ Cardinality(Others(r)) \in Nat
  BY <1>0, CountedAreOthers
<1>7. q \in Request /\ q.at # "new" /\ q.at \in Beyond
  BY <1>0, <1>1 DEF Request, Beyond, Owners
<1>8. request'[r] = q
  BY <1>0, <1>2 DEF RateTypeOK
<1>9. /\ q.at = (IF Over(n, PerIP) THEN "ttl" ELSE "admitted")
      /\ q.over = (IF Over(n, PerIP) THEN ip ELSE "no")
      /\ q.ip = request[r].ip /\ q.came = request[r].came
      /\ q.window = request[r].window /\ q.counted = now /\ q.known = request[r].known
  BY <1>0 DEF Request
<1>10. Becomes(r, q)
  BY <1>2, <1>7, <1>9 DEF Becomes
<1>11. Over(n, PerIP) => Cardinality(Others(r))' >= PerIP
  <2> DEFINE j == Cardinality(Counts(ip, w))
             k == Cardinality(Others(r))
             m == Cardinality(Others(r))'
  <2>1. k \in Nat /\ m \in Nat /\ k <= m
    BY <1>0, <1>10, OthersGrow
  <2>2. counters[key] <= j /\ j <= k /\ j \in Nat
    BY <1>5, <1>6
  <2> HIDE DEF j, k, m
  <2>3. Over(n, PerIP) => m >= PerIP
    BY <1>3, <2>1, <2>2, RateAssumption DEF Over
  <2>. QED
    BY <2>3 DEF m
<1> HIDE DEF key, n, q, end
<1>12. RequestSound(r)'
  BY <1>0, <1>1, <1>2, <1>8, <1>9, <1>11 DEF RequestSound, WindowAt
<1>13. Passed(r)' => n <= PerIP
  BY <1>3, <1>8, <1>9, RateAssumption DEF Passed, Over
<1>14. counters[key] + 1 = n
  BY DEF n
<1>15. key = <<request[r].ip, request[r].window>>
  BY DEF key
<1>16. Passed(r)' => counters[key] + 1 <= PerIP /\ q.counted = now
  BY <1>9, <1>13, <1>14
<1>. QED
  BY <1>0, <1>2, <1>4, <1>7, <1>10, <1>12, <1>15, <1>16, CountedSound

LEMMA RedisErrorSound ==
  ASSUME RateInv, NEW r \in Requests, RedisError(r)
  PROVE  RateInv'
<1> DEFINE q == [request[r] EXCEPT !.at = "admitted"]
           key == <<request[r].ip, request[r].window>>
<1>0. RateTypeOK /\ request[r] \in Request /\ RequestSound(r)
  BY DEF RateInv, RateTypeOK
<1>1. request[r].at = "ip" /\ PerIP > 0
  BY <1>0, RateAssumption DEF RedisError, RequestSound
<1>2. /\ failedOpen' = failedOpen \cup {r} /\ UNCHANGED now
      /\ request' = [request EXCEPT ![r] = q]
      /\ \/ UNCHANGED <<counters, expiry>>
         \/ \E end \in {now + Window, IF counters[key] > 0 THEN expiry[key] ELSE Never} :
              /\ counters' = [counters EXCEPT ![key] = counters[key] + 1]
              /\ expiry' = [expiry EXCEPT ![key] = end]
  BY <1>0, <1>1 DEF RedisError, Request, RateTypeOK
<1>3. q \in Request /\ q.at = "admitted" /\ q.at \in Beyond
  BY <1>0 DEF Request, Beyond
<1>4. request'[r] = q
  BY <1>0, <1>2 DEF RateTypeOK
<1>5. /\ q.ip = request[r].ip /\ q.came = request[r].came
      /\ q.window = request[r].window /\ q.counted = request[r].counted /\ q.known = request[r].known
  BY <1>0 DEF Request
<1>6. Becomes(r, q)
  BY <1>2, <1>3, <1>5 DEF Becomes
<1>7. RequestSound(r)'
  BY <1>0, <1>1, <1>2, <1>3, <1>4, <1>5 DEF RequestSound, WindowAt
<1>8. ~Passed(r)' /\ ~Passed(r) /\ request[r].at \notin Beyond
  BY <1>1, <1>2 DEF Passed, Beyond
<1>9. CASE UNCHANGED <<counters, expiry>>
  <2> HIDE DEF q
  <2>. QED
    BY <1>2, <1>3, <1>6, <1>7, <1>8, <1>9, UncountedSound
<1>10. ASSUME NEW end \in {now + Window, IF counters[key] > 0 THEN expiry[key] ELSE Never},
              counters' = [counters EXCEPT ![key] = counters[key] + 1],
              expiry' = [expiry EXCEPT ![key] = end]
       PROVE  RateInv'
  <2>1. /\ key \in Keys /\ request[r].ip \in Addresses /\ request[r].window \in 0..WindowAt(LastTick)
        /\ request[r].window = WindowAt(request[r].came)
        /\ request[r].came \in Nat /\ request[r].came <= now /\ now \in Nat /\ now <= LastTick
    BY <1>1, KeyOf
  <2> DEFINE w == request[r].window
  <2>2. /\ w * Window <= request[r].came /\ w \in Nat
        /\ (w + 1) * Window = w * Window + Window /\ w * Window \in Nat
    BY <2>1, WindowOf, RateAssumption
  <2>3. counters[key] > 0 => expiry[key] >= (w + 1) * Window
    BY <2>1 DEF RateInv, KeySound
  <2>4. counters[key] \in Nat /\ expiry[key] \in Nat
    BY <1>0, <2>1 DEF RateTypeOK
  <2> HIDE DEF w, key
  <2>5. end \in Nat /\ end >= (w + 1) * Window
    BY <1>10, <2>1, <2>2, <2>3, <2>4, RateAssumption DEF Never
  <2>6. key = <<request[r].ip, request[r].window>> /\ w = request[r].window
    BY DEF key, w
  <2> HIDE DEF q
  <2>7. Passed(r)' => counters[key] + 1 <= PerIP /\ q.counted = now
    BY <1>8
  <2>8. end >= (request[r].window + 1) * Window
    BY <2>5, <2>6
  <2>. QED
    BY <1>1, <1>2, <1>3, <1>6, <1>7, <1>10, <2>5, <2>6, <2>7, <2>8, CountedSound
<1>. QED
  BY <1>2, <1>9, <1>10

(* A key that is still needed does not expire.                             *)
LEMMA TickSound == RateInv /\ Tick => RateInv'
<1> SUFFICES ASSUME RateInv, Tick PROVE RateInv'
  OBVIOUS
<1>0. RateTypeOK /\ now \in Nat /\ now < LastTick /\ now' = now + 1 /\ UNCHANGED <<request, failedOpen>>
  BY RateAssumption DEF RateInv, RateTypeOK, Tick
<1>1. RateTypeOK'
  BY <1>0, RateAssumption DEF RateTypeOK, Tick
<1>2. ASSUME NEW r \in Requests PROVE RequestSound(r)'
  <2>1. RequestSound(r) /\ request[r] \in Request
    BY <1>0 DEF RateInv, RateTypeOK
  <2>2. Others(r)' = Others(r)
    BY <1>0 DEF Others, Came
  <2>3. request[r].came \in Nat /\ request[r].counted \in Nat
    BY <2>1 DEF Request
  <2> DEFINE S == Others(r)
  <2>4. S' = S
    BY <2>2
  <2>5. request[r].at \in {"ttl", "refused"} => Cardinality(S) >= PerIP
    BY <2>1 DEF RequestSound
  <2> HIDE DEF S
  <2>6. request[r].at \in {"ttl", "refused"} => Cardinality(S)' >= PerIP
    BY <2>4, <2>5
  <2>. QED
    BY <1>0, <2>1, <2>3, <2>6 DEF RequestSound, WindowAt, S
<1>3. ASSUME NEW ip \in Addresses, NEW w \in 0..WindowAt(LastTick) PROVE KeySound(ip, w)'
  <2> DEFINE key == <<ip, w>>
             C == Counts(ip, w)
             S == Through(ip, w)
             n == counters[key]
             m == counters'[key]
  <2>1. key \in Keys /\ w \in Nat
    BY <1>3, WindowOf, RateAssumption DEF Keys, Owners
  <2>2. C' = C /\ S' = S
    BY <1>0 DEF Counts, Through, Passed, Counted, Came
  <2>3. /\ n > 0 => expiry[key] >= (w + 1) * Window
        /\ n <= Cardinality(C)
        /\ PerIP > 0 => /\ Cardinality(S) <= PerIP
                        /\ w >= WindowAt(now) => Cardinality(S) <= n
    BY <1>3 DEF RateInv, KeySound
  <2>4. m = (IF Alive(key) THEN n ELSE 0) /\ expiry'[key] = (IF Alive(key) THEN expiry[key] ELSE 0)
    BY <2>1 DEF Tick
  <2>5. n \in Nat /\ expiry[key] \in Nat
    BY <1>0, <2>1 DEF RateTypeOK
  <2>6. S \subseteq Requests /\ C \subseteq Requests
    BY DEF Through, Counts
  <2>7. WindowAt(now) \in Nat /\ WindowAt(now') \in Nat /\ WindowAt(now) <= WindowAt(now')
    <3>1. now' \in Nat /\ now <= now'
      BY <1>0
    <3>. QED
      BY <1>0, <3>1, WindowOf, WindowsRise
  <2>8. w >= WindowAt(now') => now' < (w + 1) * Window
    <3>1. now' \in Nat
      BY <1>0
    <3>. QED
      BY <3>1, <2>1, <2>7, WindowEnds
  <2>9. (w + 1) * Window \in Nat
    BY <2>1, RateAssumption
  <2> HIDE DEF C, S, n, m, key
  <2>10. Cardinality(S) \in Nat /\ Cardinality(C) \in Nat
    BY <2>6, FewerRequests
  <2>11. n > 0 /\ w >= WindowAt(now') => Alive(key)
    BY <1>0, <2>1, <2>3, <2>5, <2>7, <2>8, <2>9 DEF Alive
  <2>12. /\ m > 0 => expiry'[key] >= (w + 1) * Window
         /\ m <= Cardinality(C)
         /\ PerIP > 0 => /\ Cardinality(S) <= PerIP
                         /\ w >= WindowAt(now') => Cardinality(S) <= m
    BY <2>1, <2>3, <2>4, <2>5, <2>7, <2>10, <2>11, RateAssumption
  <2>13. /\ m > 0 => expiry'[key] >= (w + 1) * Window
         /\ m <= Cardinality(C')
         /\ PerIP > 0 => /\ Cardinality(S') <= PerIP
                         /\ w >= WindowAt(now') => Cardinality(S') <= m
    BY <2>2, <2>12
  <2>. QED
    BY <2>13 DEF KeySound, WindowAt, C, S, m, key
<1>. QED
  BY <1>1, <1>2, <1>3 DEF RateInv, WindowAt

LEMMA RateStep == RateInv /\ [RateNext]_rateVars => RateInv'
<1> SUFFICES ASSUME RateInv, [RateNext]_rateVars PROVE RateInv'
  OBVIOUS
<1>1. CASE UNCHANGED rateVars
  <2>1. UNCHANGED <<now, counters, expiry, request, failedOpen>>
    BY <1>1 DEF rateVars
  <2>2. RateTypeOK'
    BY <2>1 DEF RateInv, RateTypeOK
  <2>3. ASSUME NEW r \in Requests PROVE RequestSound(r)'
    <3>1. RequestSound(r)
      BY DEF RateInv
    <3>. QED
      BY <2>1, <3>1 DEF RequestSound, Others, Came, WindowAt
  <2>4. ASSUME NEW ip \in Addresses, NEW w \in 0..WindowAt(LastTick) PROVE KeySound(ip, w)'
    <3>1. KeySound(ip, w)
      BY DEF RateInv
    <3>. QED
      BY <2>1, <3>1 DEF KeySound, Counts, Through, Passed, Counted, Came, WindowAt
  <2>. QED
    BY <2>2, <2>3, <2>4 DEF RateInv, WindowAt
<1>2. ASSUME NEW r \in Requests, CountUser(r) PROVE RateInv'
  BY <1>2, UserUncounted, SkipSound
<1>3. ASSUME NEW r \in Requests, CountIP(r) PROVE RateInv'
  <2>1. request[r].at = "ip"
    BY <1>3 DEF CountIP
  <2>2. CASE PerIP = 0
    BY <1>3, <2>1, <2>2, SkipSound DEF CountIP
  <2>3. CASE PerIP # 0
    BY <1>3, <2>1, <2>3, CountIPSound, RateAssumption DEF CountIP
  <2>. QED
    BY <2>2, <2>3
<1>. QED
  BY <1>1, <1>2, <1>3, ArriveSound, RedisErrorSound, RefuseSound, AuthenticateSound, TickSound
     DEF RateNext, Middleware

(* Whatever requests overlap and whenever keys expire, no minute lets more *)
(* of an address through than its limit, and a refusal is deserved and     *)
(* says when to come back (ratelimit.go:31-78).                            *)
THEOREM LimitsAreKept == RateSpec => []WindowsAreFair
<1>1. RateInv => WindowsAreFair
  <2> SUFFICES ASSUME RateInv PROVE WindowsAreFair
    OBVIOUS
  <2>1. ASSUME PerIP > 0, NEW w \in 0..(LastTick \div Window), NEW ip \in Addresses
        PROVE  Cardinality({r \in Requests : Passed(r) /\ request[r].ip = ip /\ Counted(r, w)}) <= PerIP
    BY <2>1 DEF RateInv, KeySound, Through, WindowAt
  <2>2. ASSUME NEW r \in Requests, request[r].at = "refused"
        PROVE  LET w == request[r].came \div Window IN
               /\ Cardinality({q \in Requests \ {r} : request[q].ip = request[r].ip /\ Came(q, w)}) >= PerIP
               /\ request[r].retry >= (w + 1) * Window
    BY <2>2 DEF RateInv, RequestSound, Others, WindowAt
  <2>. QED
    BY <2>1, <2>2 DEF WindowsAreFair
<1>. QED
  BY RateInitially, RateStep, <1>1, PTL DEF RateSpec
-----------------------------------------------------------------------------
(* Pages: a walk passes over no row that is alone in its instant.          *)

LEMMA PagingInitially == PagingInit => PagingInv
<1> SUFFICES ASSUME NEW S \in SUBSET Ids, NEW rows \in [S -> Instants], NEW ask \in PageLimits,
                    PagingStart(rows, ask)
             PROVE  PagingInv
  BY DEF PagingInit
<1>1. NormalizeLimit(ask) \in Nat \ {0}
  <2>1. ask[1] \in Nat /\ ask[2] \in Nat \ {0} /\ ask[3] \in Nat \ {0}
    BY PagingAssumption
  <2>. QED
    BY <2>1 DEF NormalizeLimit
<1>2. PagingTypeOK
  BY <1>1 DEF PagingStart, PagingTypeOK
<1>3. Remembered /\ InOrder
  BY DEF PagingStart, Remembered, InOrder
<1>4. NothingPassed
  BY DEF PagingStart, NothingPassed, Behind
<1>. QED
  BY <1>2, <1>3, <1>4 DEF PagingInv

(* Rows without repetition.                                                *)
LEMMA OnceEach ==
  ASSUME NEW D, NEW n \in Nat, NEW rows \in [1..n -> D], Cardinality({rows[k] : k \in 1..n}) = n
  PROVE  \A j, k \in 1..n : rows[j] = rows[k] => j = k
<1> DEFINE T == {rows[k] : k \in 1..n}
<1>1. rows \in Surjection(1..n, T)
  BY DEF Surjection
<1>2. IsFiniteSet(1..n) /\ Cardinality(1..n) = n
  BY FS_Interval
<1>3. Cardinality(T) = n
  OBVIOUS
<1> HIDE DEF T
<1>4. rows \in Injection(1..n, T)
  BY <1>1, <1>2, <1>3, FS_SurjSameCardinalityImpliesInj
<1>. QED
  BY <1>4 DEF Injection, IsInjective

(* The rows of a page.                                                     *)
LEMMA PageRows ==
  ASSUME PagingInv, NEW n \in 0..(pageSize + 1), NEW rows \in [1..n -> DOMAIN table], Answered(rows)
  PROVE  /\ rows \in Seq(DOMAIN ever) /\ Len(rows) = n /\ DOMAIN rows = 1..n
         /\ \A j, k \in 1..n : rows[j] = rows[k] => j = k
         /\ \A k \in 1..n : /\ rows[k] \in DOMAIN table /\ Behind(table[rows[k]])
                            /\ table[rows[k]] \in Nat \ {0} /\ ever[rows[k]] = table[rows[k]]
         /\ \A j, k \in 1..n : j < k => table[rows[j]] >= table[rows[k]]
         /\ \A i \in DOMAIN table : Behind(table[i]) =>
              \/ \E k \in 1..n : rows[k] = i
              \/ n = pageSize + 1 /\ \A k \in 1..n : table[i] <= table[rows[k]]
<1> DEFINE wanted == {i \in DOMAIN table : Behind(table[i])}
           taken  == {rows[k] : k \in DOMAIN rows}
<1>0. /\ PagingTypeOK /\ Remembered /\ n \in Nat /\ pageSize \in Nat \ {0}
  BY DEF PagingInv, PagingTypeOK
<1>1. /\ Len(rows) = (IF Cardinality(wanted) > pageSize THEN pageSize + 1 ELSE Cardinality(wanted))
      /\ Cardinality(taken) = Len(rows) /\ taken \subseteq wanted
      /\ \A j, k \in DOMAIN rows : j < k => table[rows[j]] >= table[rows[k]]
      /\ \A i \in wanted \ taken, j \in taken : table[i] <= table[j]
  BY DEF Answered
<1>2. rows \in Seq(DOMAIN table) /\ Len(rows) = n /\ DOMAIN rows = 1..n
  BY <1>0
<1>3. rows \in Seq(DOMAIN ever)
  BY <1>0, <1>2 DEF Remembered
<1>4. IsFiniteSet(wanted) /\ Cardinality(wanted) \in Nat
  <2>1. wanted \subseteq Ids
    BY <1>0 DEF PagingTypeOK
  <2> HIDE DEF wanted
  <2>. QED
    BY <2>1, FS_Subset, FS_CardinalityType, PagingAssumption
<1>5. \A j, k \in 1..n : rows[j] = rows[k] => j = k
  <2>1. Cardinality({rows[k] : k \in 1..n}) = n
    BY <1>1, <1>2
  <2>. QED
    BY <1>0, <2>1, OnceEach
<1>6. n <= pageSize => taken = wanted
  <2> HIDE DEF wanted, taken
  <2>1. n <= pageSize => Cardinality(wanted) = Cardinality(taken)
    BY <1>0, <1>1, <1>2, <1>4
  <2>2. taken \in SUBSET wanted
    BY <1>1
  <2>3. Cardinality(wanted) = Cardinality(taken) => wanted = taken
    BY <1>4, <2>2, FS_Subset
  <2>. QED
    BY <2>1, <2>3
<1>7. \A k \in 1..n : /\ rows[k] \in DOMAIN table /\ Behind(table[rows[k]])
                      /\ table[rows[k]] \in Nat \ {0} /\ ever[rows[k]] = table[rows[k]]
  BY <1>0, <1>1, <1>2, PagingAssumption DEF PagingTypeOK, Remembered
<1>8. ASSUME NEW i \in DOMAIN table, Behind(table[i])
      PROVE  \/ \E k \in 1..n : rows[k] = i
             \/ n = pageSize + 1 /\ \A k \in 1..n : table[i] <= table[rows[k]]
  <2>1. CASE n <= pageSize
    BY <1>2, <1>6, <1>8, <2>1
  <2>2. CASE n = pageSize + 1
    BY <1>1, <1>2, <1>8, <2>2
  <2>. QED
    BY <1>0, <2>1, <2>2
<1>. QED
  BY <1>1, <1>2, <1>3, <1>5, <1>7, <1>8

(* Rows that are appended to the walk.                                     *)
LEMMA WalkedOn ==
  ASSUME PagingInv, walk = "listing",
         NEW more \in Seq(DOMAIN ever),
         \A j, k \in 1..Len(more) : more[j] = more[k] => j = k,
         \A k \in 1..Len(more) : Behind(ever[more[k]]),
         walked' = walked \o more, UNCHANGED ever
  PROVE  /\ walked' \in Seq(DOMAIN ever)'
         /\ (\A j, k \in DOMAIN walked : walked[j] = walked[k] => j = k)'
         /\ \A i : IsListed(i)' <=> IsListed(i) \/ \E k \in 1..Len(more) : more[k] = i
<1> DEFINE l == Len(walked)
           m == Len(more)
           next == walked \o more
<1>0. /\ walked \in Seq(DOMAIN ever) /\ l \in Nat /\ m \in Nat
      /\ DOMAIN walked = 1..l /\ DOMAIN more = 1..m
  BY DEF PagingInv, PagingTypeOK
<1>1. /\ next \in Seq(DOMAIN ever) /\ Len(next) = l + m
      /\ \A i \in 1..(l + m) : next[i] = IF i <= l THEN walked[i] ELSE more[i - l]
  BY <1>0, ConcatProperties
<1>2. \A j \in 1..l, k \in 1..m : walked[j] # more[k]
  <2> SUFFICES ASSUME NEW j \in 1..l, NEW k \in 1..m, walked[j] = more[k] PROVE FALSE
    OBVIOUS
  <2>1. cursor # 0
    BY <1>0 DEF PagingInv, InOrder
  <2>2. ever[walked[j]] >= cursor /\ ever[more[k]] < cursor
    BY <1>0, <2>1 DEF PagingInv, InOrder, Behind
  <2>3. ever[walked[j]] \in Nat /\ cursor \in Nat
    BY <1>0, PagingAssumption DEF PagingInv, PagingTypeOK
  <2>. QED
    BY <2>2, <2>3
<1>3. \A j, k \in 1..l : walked[j] = walked[k] => j = k
  BY <1>0 DEF PagingInv, InOrder
<1>4. next \in Seq(DOMAIN ever) /\ DOMAIN next = 1..(l + m)
  BY <1>0, <1>1
<1> HIDE DEF l, m, next
<1>5. ASSUME NEW j \in 1..(l + m), NEW k \in 1..(l + m), next[j] = next[k] PROVE j = k
  <2>1. CASE j <= l /\ k <= l
    BY <1>0, <1>1, <1>3, <1>5, <2>1
  <2>2. CASE j <= l /\ k > l
    <3>1. next[j] = walked[j] /\ next[k] = more[k - l] /\ j \in 1..l /\ k - l \in 1..m
      BY <1>0, <1>1, <2>2
    <3>. QED
      BY <1>2, <1>5, <3>1
  <2>3. CASE j > l /\ k <= l
    <3>1. next[k] = walked[k] /\ next[j] = more[j - l] /\ k \in 1..l /\ j - l \in 1..m
      BY <1>0, <1>1, <2>3
    <3>. QED
      BY <1>2, <1>5, <3>1
  <2>4. CASE j > l /\ k > l
    <3>1. next[k] = more[k - l] /\ next[j] = more[j - l] /\ k - l \in 1..m /\ j - l \in 1..m
      BY <1>0, <1>1, <2>4
    <3>2. k - l = j - l
      BY <1>5, <3>1 DEF m
    <3>. QED
      BY <1>0, <3>2
  <2>. QED
    BY <1>0, <2>1, <2>2, <2>3, <2>4
<1>6. ASSUME NEW i PROVE (\E k \in 1..(l + m) : next[k] = i) <=>
                         (\E k \in 1..l : walked[k] = i) \/ (\E k \in 1..m : more[k] = i)
  <2>1. ASSUME NEW k \in 1..l, walked[k] = i PROVE \E j \in 1..(l + m) : next[j] = i
    BY <1>0, <1>1, <2>1
  <2>2. ASSUME NEW k \in 1..m, more[k] = i PROVE \E j \in 1..(l + m) : next[j] = i
    <3>1. k + l \in 1..(l + m) /\ (k + l) - l = k /\ ~(k + l <= l)
      BY <1>0, <2>2
    <3>2. next[k + l] = i
      BY <1>1, <2>2, <3>1
    <3>. QED
      BY <3>1, <3>2
  <2>3. ASSUME NEW k \in 1..(l + m), next[k] = i
        PROVE  (\E j \in 1..l : walked[j] = i) \/ (\E j \in 1..m : more[j] = i)
    <3>1. CASE k <= l
      BY <1>0, <1>1, <2>3, <3>1
    <3>2. CASE k > l
      <4>1. k - l \in 1..m /\ next[k] = more[k - l]
        BY <1>0, <1>1, <2>3, <3>2
      <4>. QED
        BY <2>3, <4>1
    <3>. QED
      BY <1>0, <3>1, <3>2
  <2>. QED
    BY <2>1, <2>2, <2>3
<1>7. walked' = next
  BY DEF next
<1>8. (\A j, k \in DOMAIN walked : walked[j] = walked[k] => j = k)'
  BY <1>4, <1>5, <1>7
<1>9. ASSUME NEW i PROVE IsListed(i)' <=> IsListed(i) \/ \E k \in 1..m : more[k] = i
  BY <1>0, <1>4, <1>6, <1>7 DEF IsListed
<1>. QED
  BY <1>4, <1>7, <1>8, <1>9 DEF m

LEMMA RowsComeAndGo ==
  ASSUME PagingInv, UNCHANGED <<pageSize, cursor, walked, walk>>,
         NEW i \in Ids,
         \/ \E t \in Instants : AddRow(i, t)
         \/ DropRow(i)
  PROVE  PagingInv'
<1>0. PagingTypeOK /\ Remembered /\ InOrder /\ NothingPassed
  BY DEF PagingInv
<1>1. ASSUME NEW t \in Instants, AddRow(i, t) PROVE PagingInv'
  <2>1. /\ walk = "listing" /\ i \notin DOMAIN ever
        /\ table' = [j \in DOMAIN table \cup {i} |-> IF j = i THEN t ELSE table[j]]
        /\ ever' = [j \in DOMAIN ever \cup {i} |-> IF j = i THEN t ELSE ever[j]]
        /\ UNCHANGED <<pageSize, cursor, walked, walk, lasting>>
    BY <1>1 DEF AddRow
  <2>2. PagingTypeOK'
    <3>1. walked \in Seq(DOMAIN ever')
      BY <1>0, <2>1 DEF PagingTypeOK
    <3>. QED
      BY <1>0, <2>1, <3>1 DEF PagingTypeOK
  <2>3. Remembered'
    BY <1>0, <2>1 DEF PagingTypeOK, Remembered
  <2>4. \A k \in DOMAIN walked : walked[k] \in DOMAIN ever
    BY <1>0 DEF PagingTypeOK
  <2>5. InOrder'
    BY <1>0, <2>1, <2>4 DEF InOrder
  <2>6. NothingPassed'
    <3> SUFFICES ASSUME NEW j \in lasting', Alone(j)', (walk = "done" \/ ~Behind(ever[j]))'
                 PROVE  IsListed(j)'
      BY DEF NothingPassed
    <3>1. j \in lasting /\ j \in DOMAIN ever /\ ever'[j] = ever[j]
      BY <1>0, <2>1 DEF Remembered
    <3>2. Alone(j)
      BY <2>1, <3>1 DEF Alone
    <3>3. walk = "done" \/ ~Behind(ever[j])
      BY <2>1, <3>1 DEF Behind
    <3>. QED
      BY <1>0, <2>1, <3>1, <3>2, <3>3 DEF NothingPassed, IsListed
  <2>. QED
    BY <2>2, <2>3, <2>5, <2>6 DEF PagingInv
<1>2. CASE DropRow(i)
  <2>1. /\ table' = [j \in DOMAIN table \ {i} |-> table[j]] /\ lasting' = lasting \ {i}
        /\ UNCHANGED <<pageSize, cursor, walked, walk, ever>>
    BY <1>2 DEF DropRow
  <2>2. PagingTypeOK' /\ Remembered'
    BY <1>0, <2>1 DEF PagingTypeOK, Remembered
  <2>3. InOrder' /\ NothingPassed'
    BY <1>0, <2>1 DEF InOrder, NothingPassed, Alone, IsListed, Behind
  <2>. QED
    BY <2>2, <2>3 DEF PagingInv
<1>. QED
  BY <1>1, <1>2

LEMMA NextPageSound == PagingInv /\ NextPage => PagingInv'
<1> SUFFICES ASSUME PagingInv, NextPage PROVE PagingInv'
  OBVIOUS
<1>0. PagingTypeOK /\ Remembered /\ InOrder /\ NothingPassed /\ walk = "listing"
  BY DEF PagingInv, NextPage
<1>1. PICK n \in 0..(pageSize + 1) : \E rows \in [1..n -> DOMAIN table] :
       /\ Answered(rows)
       /\ IF n <= pageSize
            THEN walked' = walked \o rows /\ walk' = "done" /\ UNCHANGED cursor
            ELSE /\ walked' = walked \o SubSeq(rows, 1, pageSize)
                 /\ cursor' = CursorOf(rows)
                 /\ UNCHANGED walk
  BY DEF NextPage
<1>2. PICK rows \in [1..n -> DOMAIN table] :
       /\ Answered(rows)
       /\ IF n <= pageSize
            THEN walked' = walked \o rows /\ walk' = "done" /\ UNCHANGED cursor
            ELSE /\ walked' = walked \o SubSeq(rows, 1, pageSize)
                 /\ cursor' = CursorOf(rows)
                 /\ UNCHANGED walk
  BY <1>1
<1>3. UNCHANGED <<table, pageSize, ever, lasting>> /\ pageSize \in Nat \ {0} /\ n \in Nat /\ cursor \in Nat
  BY <1>0, <1>1 DEF NextPage, PagingTypeOK
<1>4. /\ rows \in Seq(DOMAIN ever) /\ Len(rows) = n /\ DOMAIN rows = 1..n
      /\ \A j, k \in 1..n : rows[j] = rows[k] => j = k
      /\ \A k \in 1..n : /\ rows[k] \in DOMAIN table /\ Behind(table[rows[k]])
                         /\ table[rows[k]] \in Nat \ {0} /\ ever[rows[k]] = table[rows[k]]
      /\ \A j, k \in 1..n : j < k => table[rows[j]] >= table[rows[k]]
      /\ \A i \in DOMAIN table : Behind(table[i]) =>
           \/ \E k \in 1..n : rows[k] = i
           \/ n = pageSize + 1 /\ \A k \in 1..n : table[i] <= table[rows[k]]
  BY <1>2, PageRows
<1>5. Remembered'
  BY <1>0, <1>3 DEF Remembered
<1>6. \A i \in lasting : i \in DOMAIN table /\ ever[i] = table[i] /\ ever[i] \in Nat
  BY <1>0, PagingAssumption DEF PagingTypeOK, Remembered
<1>7. \A i : Alone(i)' <=> Alone(i)
  BY <1>3 DEF Alone
<1>8. CASE n <= pageSize
  <2>1. walked' = walked \o rows /\ walk' = "done" /\ UNCHANGED cursor
    BY <1>2, <1>8
  <2>2. /\ walked' \in Seq(DOMAIN ever)'
        /\ (\A j, k \in DOMAIN walked : walked[j] = walked[k] => j = k)'
        /\ \A i : IsListed(i)' <=> IsListed(i) \/ \E k \in 1..Len(rows) : rows[k] = i
    <3>1. /\ \A k \in 1..Len(rows) : Behind(ever[rows[k]])
          /\ \A j, k \in 1..Len(rows) : rows[j] = rows[k] => j = k
      BY <1>4
    <3>2. rows \in Seq(DOMAIN ever) /\ UNCHANGED ever
      BY <1>3, <1>4
    <3>. QED
      BY <1>0, <2>1, <3>1, <3>2, WalkedOn
  <2>3. PagingTypeOK'
    BY <1>0, <1>3, <2>1, <2>2 DEF PagingTypeOK
  <2>4. InOrder'
    BY <2>1, <2>2 DEF InOrder
  <2>5. NothingPassed'
    <3> SUFFICES ASSUME NEW i \in lasting, Alone(i) PROVE IsListed(i)'
      BY <1>3, <1>7 DEF NothingPassed
    <3>1. CASE Behind(table[i])
      BY <1>3, <1>4, <1>6, <1>8, <2>2, <3>1
    <3>2. CASE ~Behind(table[i])
      BY <1>0, <1>6, <2>2, <3>2 DEF NothingPassed
    <3>. QED
      BY <3>1, <3>2
  <2>. QED
    BY <1>5, <2>3, <2>4, <2>5 DEF PagingInv
<1>9. CASE n = pageSize + 1
  <2> DEFINE top == SubSeq(rows, 1, pageSize)
             last == rows[pageSize]
  <2>1. /\ walked' = walked \o top /\ cursor' = table[last] /\ UNCHANGED walk
    BY <1>2, <1>3, <1>9 DEF CursorOf
  <2>2. /\ top \in Seq(DOMAIN ever) /\ Len(top) = pageSize
        /\ \A k \in 1..pageSize : top[k] = rows[k]
    <3>1. \A k \in 1..pageSize : rows[k] \in DOMAIN ever
      BY <1>3, <1>4, <1>9
    <3>2. 1 \in Int /\ pageSize \in Int /\ 1 <= pageSize
      BY <1>3
    <3>3. /\ SubSeq(rows, 1, pageSize) \in Seq(DOMAIN ever)
          /\ Len(SubSeq(rows, 1, pageSize)) = IF 1 <= pageSize THEN pageSize - 1 + 1 ELSE 0
          /\ \A k \in 1..(pageSize - 1 + 1) : SubSeq(rows, 1, pageSize)[k] = rows[1 + k - 1]
      BY <3>1, <3>2, SubSeqProperties
    <3>. QED
      BY <1>3, <3>2, <3>3
  <2>3. \A k \in 1..pageSize : k \in 1..n
    BY <1>3, <1>9
  <2>4. pageSize \in 1..n /\ n \in 1..n
    BY <1>3, <1>9
  <2>5. cursor' \in Nat \ {0} /\ Behind(cursor') /\ last \in DOMAIN table
    BY <1>4, <2>1, <2>4
  <2> HIDE DEF top
  <2>6. /\ walked' \in Seq(DOMAIN ever)'
        /\ (\A j, k \in DOMAIN walked : walked[j] = walked[k] => j = k)'
        /\ \A i : IsListed(i)' <=> IsListed(i) \/ \E k \in 1..Len(top) : top[k] = i
    <3>1. \A k \in 1..Len(top) : Behind(ever[top[k]])
      BY <1>4, <2>2, <2>3
    <3>2. \A j, k \in 1..Len(top) : top[j] = top[k] => j = k
      BY <1>4, <2>2, <2>3
    <3>. QED
      BY <1>0, <1>3, <2>1, <2>2, <3>1, <3>2, WalkedOn
  <2>7. PagingTypeOK'
    BY <1>0, <1>3, <2>1, <2>5, <2>6 DEF PagingTypeOK
  <2>8. InOrder'
    <3>1. ASSUME NEW k \in DOMAIN walked' PROVE ever'[walked'[k]] >= cursor'
      <4>0. PICK i : i = walked'[k]
        OBVIOUS
      <4>1. IsListed(i)'
        BY <3>1, <4>0 DEF IsListed
      <4>2. CASE IsListed(i)
        <5>1. PICK j \in DOMAIN walked : walked[j] = i
          BY <4>2 DEF IsListed
        <5>2. cursor # 0 /\ ever[walked[j]] >= cursor
          BY <1>0, <5>1 DEF InOrder, PagingTypeOK
        <5>3. cursor' < cursor
          BY <2>5, <5>2 DEF Behind
        <5>4. ever[walked[j]] \in Nat
          BY <1>0, <5>1, PagingAssumption DEF PagingTypeOK
        <5>. QED
          BY <1>3, <2>5, <4>0, <5>1, <5>2, <5>3, <5>4
      <4>3. ASSUME NEW j \in 1..Len(top), top[j] = i PROVE ever'[walked'[k]] >= cursor'
        <5>1. j \in 1..pageSize /\ rows[j] = walked'[k]
          BY <2>2, <4>0, <4>3
        <5>2. j < pageSize \/ j = pageSize
          BY <1>3, <5>1
        <5>3. table[rows[j]] >= cursor'
          <6>1. CASE j = pageSize
            BY <2>1, <2>5, <6>1
          <6>2. CASE j < pageSize
            BY <1>4, <2>1, <2>3, <2>4, <5>1, <6>2
          <6>. QED
            BY <5>2, <6>1, <6>2
        <5>4. ever[rows[j]] = table[rows[j]]
          BY <1>4, <2>3, <5>1
        <5>. QED
          BY <1>3, <5>1, <5>3, <5>4
      <4>. QED
        BY <2>6, <4>1, <4>2, <4>3
    <3>. QED
      BY <2>5, <2>6, <3>1 DEF InOrder
  <2>9. NothingPassed'
    <3> SUFFICES ASSUME NEW i \in lasting, Alone(i), ever[i] >= cursor' PROVE IsListed(i)'
      <4>1. ASSUME NEW i \in lasting, ~Behind(ever[i])' PROVE ever[i] >= cursor'
        BY <1>3, <1>6, <2>5, <4>1 DEF Behind
      <4>. QED
        BY <1>0, <1>3, <1>7, <2>1, <4>1 DEF NothingPassed
    <3>1. CASE ~Behind(table[i])
      BY <1>0, <1>6, <2>6, <3>1 DEF NothingPassed
    <3>2. CASE Behind(table[i])
      <4>1. table[i] <= cursor' => i = last
        <5>1. table[i] <= cursor' => ever[i] = ever[last]
          BY <1>4, <1>6, <2>1, <2>4, <2>5
        <5>2. last \in DOMAIN ever
          BY <1>0, <2>5 DEF Remembered
        <5>. QED
          BY <5>1, <5>2 DEF Alone
      <4>2. ASSUME NEW k \in 1..n, rows[k] = i PROVE i = last \/ k \in 1..pageSize
        <5>1. k \in 1..pageSize \/ (k = n /\ pageSize < n)
          BY <1>3, <1>9, <4>2
        <5>2. CASE k = n /\ pageSize < n
          BY <1>4, <2>1, <2>4, <2>5, <4>1, <4>2, <5>2
        <5>. QED
          BY <5>1, <5>2
      <4>3. i = last \/ \E k \in 1..pageSize : rows[k] = i
        <5>1. (\E k \in 1..n : rows[k] = i) \/ (\A k \in 1..n : table[i] <= table[rows[k]])
          BY <1>4, <1>6, <3>2
        <5>2. ASSUME NEW k \in 1..n, rows[k] = i PROVE i = last \/ \E j \in 1..pageSize : rows[j] = i
          BY <4>2, <5>2
        <5>3. ASSUME \A k \in 1..n : table[i] <= table[rows[k]] PROVE i = last
          BY <2>1, <2>4, <4>1, <5>3
        <5>. QED
          BY <5>1, <5>2, <5>3
      <4>4. pageSize \in 1..pageSize
        BY <1>3
      <4>5. \E k \in 1..pageSize : rows[k] = i
        BY <4>3, <4>4
      <4>. QED
        BY <2>2, <2>6, <4>5
    <3>. QED
      BY <3>1, <3>2
  <2>. QED
    BY <1>5, <2>7, <2>8, <2>9 DEF PagingInv
<1>. QED
  BY <1>3, <1>8, <1>9

LEMMA PagingStep == PagingInv /\ [PagingNext]_pagingVars => PagingInv'
<1> SUFFICES ASSUME PagingInv, [PagingNext]_pagingVars PROVE PagingInv'
  OBVIOUS
<1>1. CASE UNCHANGED pagingVars
  BY <1>1 DEF pagingVars, PagingInv, PagingTypeOK, Remembered, InOrder, NothingPassed, Alone, IsListed, Behind
<1>2. ASSUME NEW i \in Ids, NEW t \in Instants, AddRow(i, t) PROVE PagingInv'
  BY <1>2, RowsComeAndGo DEF AddRow
<1>3. ASSUME NEW i \in Ids, DropRow(i) PROVE PagingInv'
  BY <1>3, RowsComeAndGo DEF DropRow
<1>. QED
  BY <1>1, <1>2, <1>3, NextPageSound DEF PagingNext

(* Whatever rows come and go, a walk through the pages lists each row that *)
(* stays at most once, and does list it unless another was created in the  *)
(* same instant (knowledge_repo.go:123-153, 201-227).                      *)
THEOREM PagesMissNothing == PagingSpec => []PagesAreWhole
<1>1. PagingInv => PagesAreWhole
  <2> SUFFICES ASSUME PagingInv, NEW i \in lasting
               PROVE  /\ Listed(i) <= 1
                      /\ walk = "done" /\ Alone(i) => Listed(i) = 1
    BY DEF PagesAreWhole
  <2> DEFINE S == {k \in DOMAIN walked : walked[k] = i}
  <2>1. CASE S = {}
    <3>1. ~IsListed(i)
      BY <2>1 DEF IsListed
    <3>2. Listed(i) = 0
      BY <2>1, FS_EmptySet DEF Listed
    <3>. QED
      BY <3>1, <3>2 DEF PagingInv, NothingPassed
  <2>2. CASE S # {}
    <3>1. PICK k \in DOMAIN walked : walked[k] = i
      BY <2>2
    <3>2. S = {k}
      BY <3>1 DEF PagingInv, InOrder
    <3>3. Listed(i) = 1
      BY <3>2, FS_Singleton DEF Listed
    <3>. QED
      BY <3>3
  <2>. QED
    BY <2>1, <2>2
<1>. QED
  BY PagingInitially, PagingStep, <1>1, PTL DEF PagingSpec

=============================================================================
