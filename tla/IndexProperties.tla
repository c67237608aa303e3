---------------------------- MODULE IndexProperties ----------------------------
(* What holds of the chunks, the vectors and the rows of one document.     *)
EXTENDS IndexDocument

Piece == [start : Nat, end : Nat]
Chunk == [part : Nat, start : Nat, end : Nat, text : Seq(STRING)]
Vector == [of : Nat, dim : Nat]

(* Every variable has its type.                                            *)
IndexTypeOK ==
  /\ doc \in Seq(Seq(STRING))
  /\ size \in Nat \ {0} /\ overlap \in Nat
  /\ dim \in Dims
  /\ step \in {"cut", "embed", "insert", "indexed", "failed"}
  /\ part \in 1..(Len(doc) + 1)
  /\ start \in Nat
  /\ pieces \in Seq(Piece)
  /\ chunks \in Seq(Chunk)
  /\ vecs \in Seq(Vector)
  /\ tx \in Seq([chunk : Nat, vec : Vector])
  /\ stored \in Seq([chunk : Nat, vec : Vector])
  /\ before \in Seq([chunk : Nat, vec : Vector])

LastEnd == IF pieces = <<>> THEN 0 ELSE pieces[Len(pieces)].end

(* No piece is longer than the size, none leaves a gap behind the one      *)
(* before it, and each ends behind it.                                     *)
PiecesAdvance ==
  /\ \A i \in DOMAIN pieces :
       /\ pieces[i].start < pieces[i].end
       /\ pieces[i].end <= pieces[i].start + size
  /\ \A i \in DOMAIN pieces : i > 1 =>
       /\ pieces[i - 1].start < pieces[i].start
       /\ pieces[i].start <= pieces[i - 1].end
       /\ pieces[i - 1].end < pieces[i].end

(* Whatever was cut already, each character that is not blank is in a      *)
(* chunk.                                                                  *)
NothingLost ==
  \A p \in DOMAIN doc : \A i \in DOMAIN doc[p] :
    /\ doc[p][i] \notin Blanks
    /\ p < part \/ (p = part /\ i <= LastEnd)
    => \E c \in DOMAIN chunks :
         chunks[c].part = p /\ chunks[c].start < i /\ i <= chunks[c].end

(* Whatever size and overlap are configured, the overlap and the search    *)
(* for a better cut never stop or turn back the chunker and leave no gap,  *)
(* and trimming and dropping blank pieces lose nothing of the text         *)
(* (chunker.go:18-29, 40-108).                                             *)
ChunksCoverText == PiecesAdvance /\ NothingLost

(* The rows of the whole document, each with the vector of its own chunk   *)
(* in the dimension of the column.                                         *)
NewRows == [i \in DOMAIN chunks |-> [chunk |-> i, vec |-> [of |-> i, dim |-> StoreDim]]]

(* Whatever order the provider answers in, however the batches fall and    *)
(* wherever it fails, a search never sees a mixture: the stored rows are   *)
(* all of the old ones or all of the new ones, each with its own vector;   *)
(* the old ones until the transaction commits, the new ones once the       *)
(* document is reported indexed (openai.go:122-132, service.go:396-408).   *)
(* Where COMMIT fails, nobody knows which.                                 *)
RowsAreWhole ==
  /\ stored \in {before, NewRows}
  /\ step \in {"cut", "embed", "insert"} => stored = before
  /\ step = "indexed" => stored = NewRows
=============================================================================
