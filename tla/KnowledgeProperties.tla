-------------------------- MODULE KnowledgeProperties --------------------------
(* What the ingestion of documents guarantees, and what it does not.       *)
EXTENDS KnowledgeIngest

PCs == {"idle", "next", "giveUp", "start", "work", "replace", "finish", "fail"}

(* A worker has a document exactly while it processes one.                 *)
Busy == {"giveUp", "start", "work", "replace", "finish", "fail"}

(* Every variable has its type; no row ever counts more attempts than      *)
(* maxDocumentAttempts, whoever writes it back (service.go:333-341).       *)
TypeOK ==
  /\ kb \in {"active", "deleted"}
  /\ row \in [Docs -> [status : Statuses, attempts : 0 .. MaxAttempts]]
  /\ stale \subseteq Docs
  /\ chunks \subseteq Docs
  /\ api \in [Docs -> {"none", "adding", "deleting", "marked"}]
  /\ read \in [Docs -> [status : Statuses, attempts : 0 .. MaxAttempts]]
  /\ proc \in [Workers -> {"up", "stopping", "down"}]
  /\ pc \in [Workers -> PCs]
  /\ queue \in [Workers -> SUBSET Docs]
  /\ doc \in [Workers -> Docs \cup {NoDoc}]
  /\ copy \in [Workers -> [status : Statuses, attempts : 0 .. MaxAttempts]]
  /\ stops \in 0 .. MaxStops
  /\ faults \in 0 .. MaxFaults
  /\ starts \in [Docs -> Nat]
  /\ marked \subseteq Docs /\ removed \subseteq Docs /\ raced \subseteq Docs
  /\ contested \subseteq Docs

(* A document that was never deleted and says ready has its chunks, however *)
(* many workers process it and whatever fails: the chunks are in before    *)
(* the status is (service.go:393-402).                                     *)
ReadyIsIndexed ==
  \A d \in Docs \ marked : row[d].status = "ready" => d \in chunks

(* A deletion that was reported as done stays done, with no chunk left,    *)
(* unless a worker held the row when it was written: workers skip what was *)
(* deleted since they listed it (service.go:330).                          *)
DeletionSticks ==
  \A d \in removed \ raced : row[d].status = "deleted" /\ d \notin chunks

(* With one worker the processing of a document is started at most         *)
(* maxDocumentAttempts times, crash after crash (service.go:333).          *)
StartsBounded == \A d \in Docs : starts[d] <= MaxAttempts

(* What a search found it finds until it is deleted, however many workers  *)
(* there are and whatever fails, except for a document that a worker still *)
(* had in its hands when it was written ready: a second worker, or the one *)
(* whose update was not answered.  Nobody takes a ready document up        *)
(* (service.go:330), and an error leaves the chunks in (:397, :408).       *)
OnlyContestedVanish ==
  [][\A d \in Docs :
       Searchable(d) /\ ~Searchable(d)' =>
         d \in marked' \/ kb' = "deleted" \/ d \in contested]_vars

(* The claim of service.go:396: no re-indexing makes a gap in what         *)
(* searches find.  A second worker that read the row before the first one  *)
(* wrote ready writes processing over it.                                  *)
NoSearchGap ==
  [][\A d \in Docs :
       Searchable(d) /\ ~Searchable(d)' => d \in marked' \/ kb' = "deleted"]_vars

(* Every document that was added ends up ready, failed or deleted, however *)
(* its workers crash and restart.                                          *)
EveryDocumentSettles ==
  <>[](\A d \in Docs : row[d].status \in {"none", "ready", "failed", "deleted"})

-----------------------------------------------------------------------------
(* The inductive strengthening of the safety properties.                   *)

(* A worker holds a document while it is busy, and starts only attempts    *)
(* that are left.                                                          *)
WorkerInv ==
  \A w \in Workers : /\ pc[w] \in Busy <=> doc[w] \in Docs
                     /\ pc[w] = "start" => copy[w].attempts < MaxAttempts

(* Whoever is about to say ready has put the chunks in, and only deletions *)
(* take chunks out.                                                        *)
IndexInv ==
  /\ ReadyIsIndexed
  /\ \A w \in Workers : pc[w] = "finish" => doc[w] \in chunks \cup marked
  /\ \A d \in Docs : api[d] = "marked" => d \in marked

(* A deletion that met no worker is not overwritten: no worker takes the   *)
(* document up again, and no request creates it again.                     *)
DeletionInv ==
  /\ DeletionSticks
  /\ removed \subseteq marked
  /\ \A d \in Docs : /\ api[d] = "marked" => d \in marked
                     /\ api[d] = "adding" => d \notin marked \ raced
  /\ \A d \in marked \ raced : /\ row[d].status = "deleted"
                               /\ \A w \in Workers : doc[w] # d

(* A document that is being added is new: it has no row, and no worker     *)
(* knows of it.                                                            *)
FreshInv ==
  \A d \in Docs : /\ api[d] = "adding" => row[d].status = "none"
                  /\ row[d].status = "none" =>
                       \A w \in Workers : doc[w] # d /\ d \notin queue[w]

(* A worker that has a ready document in its hands contests it.            *)
ContestInv ==
  \A w \in Workers :
    doc[w] \in Docs /\ row[doc[w]].status = "ready" => doc[w] \in contested

(* What one worker started is counted on the row it writes back; only a    *)
(* deletion writes an older count, and ends the attempts.                  *)
StartsInv ==
  /\ StartsBounded
  /\ \A d \in Docs : /\ row[d].status = "none" => starts[d] = 0
                     /\ row[d].status # "deleted" => starts[d] <= row[d].attempts
  /\ \A w \in Workers : doc[w] \in Docs => starts[doc[w]] <= copy[w].attempts
=============================================================================
