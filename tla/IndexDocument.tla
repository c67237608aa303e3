----------------------------- MODULE IndexDocument -----------------------------
(***************************************************************************)
(* What processDocument does to one parsed document between reading it and *)
(* marking it ready: the chunker cuts every part into overlapping pieces,  *)
(* the embedding provider is asked for their vectors batch by batch, and   *)
(* the rows of the document are replaced in one transaction.               *)
(*                                                                         *)
(* KnowledgeIngest takes all of this for two steps; here are the steps     *)
(* inside.  A text is a sequence of characters, of which only the          *)
(* separators and blanks are told apart.                                   *)
(***************************************************************************)
EXTENDS Naturals, Sequences, FiniteSets

CONSTANTS
  Documents,    \* parsed documents, each the sequence of the texts of its parts
  Configs,      \* the <<size, overlap>> NewChunker may be given
  EmbedBatch,   \* texts of one embeddings request (128 in the code)
  InsertBatch,  \* rows of one INSERT (200 in the code)
  StoreDim,     \* dimension of the vector column (1536 in the code)
  Dims          \* dimensions the provider may be configured with: openai.go:36 replaces 0

ASSUME IndexAssumption ==
  /\ \A d \in Documents : d \in Seq(Seq(STRING))
  /\ \A c \in Configs : c \in Nat \X Nat
  /\ EmbedBatch \in Nat \ {0} /\ InsertBatch \in Nat \ {0}
  /\ StoreDim \in Nat /\ Dims \subseteq Nat \ {0}

VARIABLES
  doc,      \* the parsed document
  size, overlap,  \* of the chunker
  dim,      \* dimension the embedding provider is configured with
  step,     \* where processDocument is
  part,     \* the part being cut
  start,    \* where its next piece starts
  pieces,   \* the pieces of this part so far, as [start, end)
  chunks,   \* the chunks of the document so far
  vecs,     \* the vectors received for the first of them
  tx,       \* rows inserted by the open transaction
  stored,   \* committed rows of the document
  before    \* history: the rows it had when processing began

chunker  == <<size, overlap>>
cutting  == <<part, start, pieces, chunks>>
storing  == <<tx, stored>>
indexVars     == <<doc, chunker, dim, step, cutting, vecs, storing, before>>

-----------------------------------------------------------------------------
(* Characters.  One sentence mark and one comma stand for the ten of the   *)
(* code, which differ only in their priority.                              *)
Blanks     == {"nl", "sp"}
Separators == << <<"nl", "nl">>, <<"nl">>, <<"stop">>, <<"comma">>, <<"sp">> >>

LeastOf(S)    == CHOOSE x \in S : \A y \in S : x <= y
GreatestOf(S) == CHOOSE x \in S : \A y \in S : y <= x

(* strings.TrimSpace                                                       *)
Trim(s) ==
  LET solid == {i \in DOMAIN s : s[i] \notin Blanks} IN
  IF solid = {} THEN <<>> ELSE SubSeq(s, LeastOf(solid), GreatestOf(solid))

(* What normalizeText leaves of a text: nothing blank at either end, and   *)
(* no space next to the end of a line.                                     *)
IsNormal(s) ==
  /\ Trim(s) = s
  /\ \A i \in 1..(Len(s) - 1) : {s[i], s[i + 1]} # Blanks

(* NewChunker, which also replaces a size of 0.                            *)
EffectiveSize(sz) == IF sz = 0 THEN 1000 ELSE sz
EffectiveOverlap(sz, ov) == IF ov >= sz \div 2 THEN sz \div 5 ELSE ov

(* Where a separator that does not open the text ends.                     *)
EndsOf(s, sep) ==
  {p + Len(sep) : p \in {q \in 1..(Len(s) - Len(sep)) : SubSeq(s, q + 1, q + Len(sep)) = sep}}

Late(s, sep) == {e \in EndsOf(s, sep) : e > Len(s) \div 2}

(* The last of the first separator there is in the second half.            *)
BestSplitOffset(s) ==
  LET usable == {k \in DOMAIN Separators : Late(s, Separators[k]) # {}} IN
  IF usable = {} THEN Len(s) ELSE GreatestOf(Late(s, Separators[LeastOf(usable)]))

-----------------------------------------------------------------------------
Text == doc[part]

PieceEnd ==
  IF Len(Text) <= size \/ start + size >= Len(Text) THEN Len(Text)
  ELSE start + BestSplitOffset(SubSeq(Text, start + 1, start + size))

(* Mutant of AfterPiece: the next piece starts behind the last character.   *)
AfterPieceSkipping(end) == end + 1

AfterPiece(end) == IF end < overlap THEN 0 ELSE end - overlap

(* The chunk of a piece: a blank one has none.                             *)
ChunkOf(from, to) ==
  LET text == Trim(SubSeq(Text, from + 1, to)) IN
  IF text = <<>> THEN <<>>
  ELSE << [part |-> part, start |-> from, end |-> to, text |-> text] >>

(* One round of splitText and of the loop of Split over what it returns.   *)
CutPiece ==
  LET end == PieceEnd IN
  /\ step = "cut" /\ part <= Len(doc) /\ Text # <<>> /\ start < Len(Text)
  /\ pieces' = Append(pieces, [start |-> start, end |-> end])
  /\ chunks' = chunks \o ChunkOf(start, end)
  /\ start' = IF end >= Len(Text) THEN end ELSE AfterPiece(end)
  /\ UNCHANGED <<doc, chunker, dim, step, part, vecs, storing, before>>

NextPart ==
  /\ step = "cut" /\ part <= Len(doc) /\ start >= Len(Text)
  /\ part' = part + 1 /\ start' = 0 /\ pieces' = <<>>
  /\ UNCHANGED <<doc, chunker, dim, step, chunks, vecs, storing, before>>

(* A document without chunks fails.                                        *)
CutDone ==
  /\ step = "cut" /\ part > Len(doc)
  /\ step' = IF chunks = <<>> THEN "failed" ELSE "embed"
  /\ UNCHANGED <<doc, chunker, dim, cutting, vecs, storing, before>>

-----------------------------------------------------------------------------
(* The embeddings endpoint: it names the text of a vector by its index in  *)
(* the request, in any order, may leave some out, repeat some, name texts  *)
(* there are not, and answer in another dimension than it was asked for.   *)
Item(n, dims) == [index : 0..n, dim : dims]
Answers(n) == [1..n -> Item(n, {dim, dim + 1})] \cup [1..(n + 1) -> Item(n, {dim})]

BatchSize == LET left == Len(chunks) - Len(vecs) IN IF left > EmbedBatch THEN EmbedBatch ELSE left

NoVector == [of |-> 0, dim |-> 0]

(* Mutant of VectorsOf: the vectors are taken in the order they come in.    *)
VectorsOfInOrder(data, n) ==
  [i \in 1..n |-> [of |-> Len(vecs) + data[i].index + 1, dim |-> data[i].dim]]

(* The vector each text of the batch ends up with: the last with its index. *)
VectorsOf(data, n) ==
  [i \in 1..n |->
    LET mine == {k \in DOMAIN data : data[k].index = i - 1} IN
    IF mine = {} THEN NoVector
    ELSE [of |-> Len(vecs) + i, dim |-> data[GreatestOf(mine)].dim]]

Fits(batch) == \A i \in DOMAIN batch : batch[i].dim = dim

EmbedSome ==
  /\ step = "embed" /\ Len(vecs) < Len(chunks)
  /\ \E data \in Answers(BatchSize) :
       LET batch == VectorsOf(data, BatchSize) IN
       IF Fits(batch) THEN vecs' = vecs \o batch /\ UNCHANGED step
       ELSE step' = "failed" /\ UNCHANGED vecs
  /\ UNCHANGED <<doc, chunker, dim, cutting, storing, before>>

(* Transport error, status, timeout: the batches before it are dropped too. *)
EmbedError ==
  /\ step = "embed" /\ Len(vecs) < Len(chunks)
  /\ step' = "failed"
  /\ UNCHANGED <<doc, chunker, dim, cutting, vecs, storing, before>>

(* ReplaceByDocument: the transaction deletes the old rows first.          *)
BeginTx ==
  /\ step = "embed" /\ Len(vecs) = Len(chunks)
  /\ step' = "insert"
  /\ tx' = <<>>
  /\ UNCHANGED <<doc, chunker, dim, cutting, vecs, stored, before>>

Row(i) == [chunk |-> i, vec |-> vecs[i]]

(* One INSERT of insertChunksTx, which knows one dimension only.           *)
InsertSome ==
  LET left == Len(chunks) - Len(tx)
      n    == IF left > InsertBatch THEN InsertBatch ELSE left
      rest == [k \in 1..n |-> Row(Len(tx) + k)] IN
  /\ step = "insert" /\ left > 0
  /\ IF \E k \in 1..n : rest[k].vec.dim # StoreDim
       THEN step' = "failed" /\ UNCHANGED tx
       ELSE tx' = tx \o rest /\ UNCHANGED step
  /\ UNCHANGED <<doc, chunker, dim, cutting, vecs, stored, before>>

(* An error of the DELETE or of an INSERT rolls back, and one of a COMMIT   *)
(* that was not executed leaves nothing either.                            *)
Rollback ==
  /\ step = "insert"
  /\ step' = "failed"
  /\ UNCHANGED <<doc, chunker, dim, cutting, vecs, storing, before>>

(* The new rows are there.  The answer may be lost, or the context end     *)
(* while it is on its way, and the document fails with its new rows.       *)
Commit ==
  /\ step = "insert" /\ Len(tx) = Len(chunks)
  /\ step' \in {"indexed", "failed"}
  /\ stored' = tx
  /\ UNCHANGED <<doc, chunker, dim, cutting, vecs, tx, before>>

-----------------------------------------------------------------------------
(* The rows of an earlier attempt, if there was one.                       *)
OldRows == << [chunk |-> 0, vec |-> NoVector] >>

IndexStart(d, c, n, old) ==
  /\ doc = d
  /\ size = EffectiveSize(c[1]) /\ overlap = EffectiveOverlap(EffectiveSize(c[1]), c[2])
  /\ dim = n
  /\ step = "cut" /\ part = 1 /\ start = 0 /\ pieces = <<>> /\ chunks = <<>>
  /\ vecs = <<>> /\ tx = <<>>
  /\ before = old /\ stored = old

IndexInit ==
  \E d \in Documents, c \in Configs, n \in Dims, old \in {<<>>, OldRows} : IndexStart(d, c, n, old)

IndexNext ==
  \/ CutPiece \/ NextPart \/ CutDone
  \/ EmbedSome \/ EmbedError
  \/ BeginTx \/ InsertSome \/ Rollback \/ Commit

IndexSpec == IndexInit /\ [][IndexNext]_indexVars
=============================================================================
