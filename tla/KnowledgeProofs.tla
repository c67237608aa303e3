---------------------------- MODULE KnowledgeProofs ----------------------------
(***************************************************************************)
(* Proofs about KnowledgeIngest, for any number of documents and workers,  *)
(* any limit of attempts, and any number of crashes and failed calls.      *)
(***************************************************************************)
EXTENDS KnowledgeProperties, TLAPS

Counted == [status : Statuses, attempts : 0 .. MaxAttempts]

TypeInv == TypeOK /\ WorkerInv

(* A row written with another status keeps its type.                       *)
LEMMA Restatus ==
  ASSUME NEW r \in Counted, NEW s \in Statuses
  PROVE  [r EXCEPT !.status = s] \in Counted /\ [r EXCEPT !.status = s].status = s
BY DEF Counted

(* A table of counted rows stays one when a counted row is written.        *)
LEMMA Rewrite ==
  ASSUME NEW S, NEW f \in [S -> Counted], NEW x \in S, NEW r \in Counted
  PROVE  [f EXCEPT ![x] = r] \in [S -> Counted]
OBVIOUS

LEMMA InitType == Init => TypeInv
<1> SUFFICES ASSUME Init PROVE TypeInv
  OBVIOUS
<1>1. NoRow \in Counted
  BY IngestAssumption DEF NoRow, Counted, Statuses
<1>2. TypeOK
  BY <1>1, IngestAssumption DEF Init, TypeOK, Counted, PCs
<1>3. WorkerInv
  BY IngestAssumption DEF Init, WorkerInv, Busy
<1> QED BY <1>2, <1>3 DEF TypeInv

-----------------------------------------------------------------------------
(* Requests leave the workers alone.                                       *)
LEMMA RequestType ==
  ASSUME TypeInv, NEW d \in Docs, Request(d) PROVE TypeInv'
<1> USE DEF TypeInv
<1>1. CASE AddDocument(d)
  BY <1>1 DEF AddDocument, TypeOK, WorkerInv, tables, worker, history
<1>2. CASE CreateDocument(d)
  <2>1. [status |-> "pending", attempts |-> 0] \in Counted
    BY IngestAssumption DEF Counted, Statuses
  <2>2. row' \in [Docs -> Counted] /\ faults' \in 0 .. MaxFaults
    BY <1>2, <2>1, IngestAssumption DEF CreateDocument, TypeOK, Put, Fault, Counted
  <2>3. api' \in [Docs -> {"none", "adding", "deleting", "marked"}]
    BY <1>2 DEF CreateDocument, TypeOK
  <2> QED BY <1>2, <2>2, <2>3 DEF CreateDocument, TypeOK, WorkerInv, worker, history, Counted
<1>3. CASE DeleteDocument(d)
  BY <1>3 DEF DeleteDocument, TypeOK, WorkerInv, tables, worker, history
<1>4. CASE MarkDeleted(d)
  <2> DEFINE r == [read[d] EXCEPT !.status = "deleted"]
  <2>1. r \in Counted
    BY Restatus DEF TypeOK, Counted, Statuses
  <2>a. row' = [row EXCEPT ![d] = r] \/ row' = row
    BY <1>4 DEF MarkDeleted, Put
  <2>b. faults' \in 0 .. MaxFaults
    BY <1>4, IngestAssumption DEF MarkDeleted, TypeOK, Fault
  <2>2. row' \in [Docs -> Counted] /\ faults' \in 0 .. MaxFaults
    <3>1. row \in [Docs -> Counted]
      BY DEF TypeOK, Counted
    <3> HIDE DEF r
    <3> QED BY <3>1, <2>1, <2>a, <2>b, Rewrite
  <2>3. api' \in [Docs -> {"none", "adding", "deleting", "marked"}]
    BY <1>4 DEF MarkDeleted, TypeOK
  <2>4. marked' \subseteq Docs /\ raced' \subseteq Docs /\ contested' = contested
    BY <1>4 DEF MarkDeleted, TypeOK
  <2> QED BY <1>4, <2>2, <2>3, <2>4 DEF MarkDeleted, TypeOK, WorkerInv, worker, Counted
<1>5. CASE DeleteChunks(d)
  <2>1. chunks' \subseteq Docs /\ removed' \subseteq Docs /\ faults' \in 0 .. MaxFaults
    BY <1>5, IngestAssumption DEF DeleteChunks, TypeOK, Fault
  <2>2. api' \in [Docs -> {"none", "adding", "deleting", "marked"}]
    BY <1>5 DEF DeleteChunks, TypeOK
  <2> QED BY <1>5, <2>1, <2>2 DEF DeleteChunks, TypeOK, WorkerInv, worker
<1> QED BY <1>1, <1>2, <1>3, <1>4, <1>5 DEF Request

(* The list and what is taken from it.                                     *)
LEMMA ListType ==
  ASSUME TypeInv, NEW w \in Workers,
         \/ ListPending(w) \/ EndOfList(w)
         \/ \E d \in Docs : GetDocument(w, d) \/ SkipDocument(w, d)
  PROVE  TypeInv'
<1> USE DEF TypeInv
<1>1. CASE ListPending(w)
  <2>1. Pending \subseteq Docs
    BY DEF Pending
  <2> QED BY <1>1, <2>1 DEF ListPending, Goto, TypeOK, PCs, WorkerInv, Busy, tables, request, history
<1>2. CASE EndOfList(w)
  BY <1>2 DEF EndOfList, Goto, TypeOK, PCs, WorkerInv, Busy, tables, request, history
<1>3. ASSUME NEW d \in Docs, GetDocument(w, d) PROVE TypeInv'
  <2> DEFINE next == IF row[d].attempts >= MaxAttempts THEN "giveUp" ELSE "start"
  <2>1. /\ Take(w, d, next)
        /\ copy' = [copy EXCEPT ![w] = row[d]]
    BY <1>3 DEF GetDocument
  <2>2. TypeOK'
    BY <2>1 DEF Take, Goto, TypeOK, PCs, tables, request, history
  <2>3. next = "start" => row[d].attempts < MaxAttempts
    BY IngestAssumption DEF TypeOK
  <2>4. WorkerInv'
    BY <2>1, <2>3 DEF Take, Goto, TypeOK, PCs, WorkerInv, Busy
  <2> QED BY <2>2, <2>4
<1>4. ASSUME NEW d \in Docs, SkipDocument(w, d) PROVE TypeInv'
  BY <1>4, IngestAssumption
     DEF SkipDocument, Broken, Fault, TypeOK, PCs, WorkerInv, Busy, tables, request, history
<1> QED BY <1>1, <1>2, <1>3, <1>4

(* The steps of ProcessDocument that leave the row as it is.               *)
LEMMA WorkType ==
  ASSUME TypeInv, NEW w \in Workers, Work(w) \/ ReplaceChunks(w) \/ ReplaceError(w)
  PROVE  TypeInv'
<1> USE DEF TypeInv
<1>1. CASE Work(w)
  <2>1. PICK next \in {"replace", "fail"} : pc' = [pc EXCEPT ![w] = next]
    BY <1>1 DEF Work
  <2> QED BY <1>1, <2>1 DEF Work, TypeOK, PCs, WorkerInv, Busy, tables, request, history
<1>2. CASE ReplaceChunks(w)
  <2>1. doc[w] \in Docs
    BY <1>2 DEF ReplaceChunks, Goto, WorkerInv, Busy
  <2> QED BY <1>2, <2>1 DEF ReplaceChunks, Goto, TypeOK, PCs, WorkerInv, Busy, request, history
<1>3. CASE ReplaceError(w)
  <2>1. doc[w] \in Docs
    BY <1>3 DEF ReplaceError, Goto, WorkerInv, Busy
  <2>2. chunks' \subseteq Docs /\ faults' \in 0 .. MaxFaults
    BY <1>3, <2>1, IngestAssumption DEF ReplaceError, Broken, Fault, TypeOK
  <2> QED BY <1>3, <2>2 DEF ReplaceError, Goto, TypeOK, PCs, WorkerInv, Busy, request, history
<1> QED BY <1>1, <1>2, <1>3

(* The attempt that a worker is about to start is one of those it has.     *)
LEMMA AttemptCounted ==
  ASSUME TypeInv, NEW w \in Workers, pc[w] = "start"
  PROVE  doc[w] \in Docs /\ Attempt(w) \in Counted /\ Attempt(w).status # "ready"
<1>1. doc[w] \in Docs /\ copy[w].attempts < MaxAttempts
  BY DEF TypeInv, WorkerInv, Busy
<1>2. copy[w] \in Counted
  BY DEF TypeInv, TypeOK, Counted
<1> QED BY <1>1, <1>2, IngestAssumption DEF Attempt, Counted, Statuses

(* The steps of ProcessDocument that write the row.                        *)
LEMMA WriteType ==
  ASSUME TypeInv, NEW w \in Workers,
         GiveUp(w) \/ Begin(w) \/ BeginError(w) \/ Finish(w) \/ FinishError(w) \/ Fail(w)
  PROVE  TypeInv'
<1> USE DEF TypeInv
<1>0. /\ row \in [Docs -> Counted] /\ copy \in [Workers -> Counted]
      /\ copy[w] \in Counted
  BY DEF TypeOK, Counted
<1>1. CASE GiveUp(w)
  <2>1. doc[w] \in Docs
    BY <1>1 DEF GiveUp, Goto, WorkerInv, Busy
  <2>2. [copy[w] EXCEPT !.status = "failed"] \in Counted
    BY <1>0, Restatus DEF Statuses
  <2>a. row' = [row EXCEPT ![doc[w]] = [copy[w] EXCEPT !.status = "failed"]] \/ row' = row
    BY <1>1 DEF GiveUp, Put
  <2>b. faults' \in 0 .. MaxFaults
    BY <1>1, IngestAssumption DEF GiveUp, Broken, Fault, TypeOK
  <2>3. row' \in [Docs -> Counted] /\ faults' \in 0 .. MaxFaults
    BY <1>0, <2>1, <2>2, <2>a, <2>b, Rewrite
  <2> QED BY <1>1, <2>3, IngestAssumption
          DEF GiveUp, Leave, Goto, TypeOK, PCs, WorkerInv, Busy, request, history, Counted
<1>2. CASE Begin(w)
  <2>1. doc[w] \in Docs /\ Attempt(w) \in Counted
    BY <1>2, AttemptCounted DEF Begin, Goto
  <2>2. row' \in [Docs -> Counted] /\ copy' \in [Workers -> Counted]
    BY <1>0, <1>2, <2>1, Rewrite DEF Begin, Put
  <2>3. starts' \in [Docs -> Nat] /\ stale' \subseteq Docs
    BY <1>2, <2>1 DEF Begin, TypeOK
  <2>4. TypeOK'
    BY <1>2, <2>2, <2>3 DEF Begin, Goto, TypeOK, PCs, request, Counted
  <2>5. WorkerInv'
    BY <1>2 DEF Begin, Goto, WorkerInv, Busy, TypeOK
  <2> QED BY <2>4, <2>5
<1>3. CASE BeginError(w)
  <2>1. doc[w] \in Docs /\ Attempt(w) \in Counted
    BY <1>3, AttemptCounted DEF BeginError, Goto
  <2>2. row' \in [Docs -> Counted] /\ stale' \subseteq Docs
    <3>1. CASE Put(doc[w], Attempt(w)) /\ stale' = stale \ {doc[w]}
      BY <1>0, <2>1, <3>1, Rewrite DEF Put, TypeOK
    <3>2. CASE UNCHANGED <<row, stale>>
      BY <1>0, <3>2 DEF TypeOK
    <3> QED BY <1>3, <3>1, <3>2 DEF BeginError
  <2>3. faults' \in 0 .. MaxFaults
    BY <1>3, IngestAssumption DEF BeginError, Broken, Fault, TypeOK
  <2> QED BY <1>3, <2>2, <2>3, IngestAssumption
          DEF BeginError, Leave, Goto, TypeOK, PCs, WorkerInv, Busy, request, history, Counted
<1>5. CASE Finish(w) \/ FinishError(w)
  <2>1. doc[w] \in Docs
    BY <1>5 DEF Finish, FinishError, Goto, WorkerInv, Busy
  <2>2. [copy[w] EXCEPT !.status = "ready"] \in Counted
    BY <1>0, Restatus DEF Statuses
  <2>3. row' = [row EXCEPT ![doc[w]] = [copy[w] EXCEPT !.status = "ready"]] \/ row' = row
    BY <1>5 DEF Finish, FinishError, Put
  <2>4. row' \in [Docs -> Counted]
    BY <1>0, <2>1, <2>2, <2>3, Rewrite
  <2>5. contested' \subseteq Docs
    BY <1>5, <2>1 DEF Finish, FinishError, Contest, TypeOK
  <2>6. faults' \in 0 .. MaxFaults
    BY <1>5, IngestAssumption DEF Finish, FinishError, Broken, Fault, TypeOK
  <2>7. CASE Finish(w)
    BY <2>4, <2>5, <2>6, <2>7, IngestAssumption
       DEF Finish, Leave, Goto, TypeOK, PCs, WorkerInv, Busy, request, Counted
  <2>8. CASE FinishError(w)
    BY <2>4, <2>5, <2>6, <2>8, IngestAssumption
       DEF FinishError, Goto, TypeOK, PCs, WorkerInv, Busy, request, Counted
  <2> QED BY <1>5, <2>7, <2>8
<1>4. CASE Fail(w)
  <2>1. doc[w] \in Docs
    BY <1>4 DEF Fail, Goto, WorkerInv, Busy
  <2>2. [copy[w] EXCEPT !.status = "failed"] \in Counted
    BY <1>0, Restatus DEF Statuses
  <2>a. row' = [row EXCEPT ![doc[w]] = [copy[w] EXCEPT !.status = "failed"]] \/ row' = row
    BY <1>4 DEF Fail, Put
  <2>b. faults' \in 0 .. MaxFaults
    BY <1>4, IngestAssumption DEF Fail, Fault, TypeOK
  <2>3. row' \in [Docs -> Counted] /\ faults' \in 0 .. MaxFaults
    BY <1>0, <2>1, <2>2, <2>a, <2>b, Rewrite
  <2> QED BY <1>4, <2>3, IngestAssumption
          DEF Fail, Leave, Goto, TypeOK, PCs, WorkerInv, Busy, request, history, Counted
<1> QED BY <1>1, <1>2, <1>3, <1>4, <1>5

(* The processes.                                                          *)
LEMMA ProcessType ==
  ASSUME TypeInv, NEW w \in Workers, Process(w) PROVE TypeInv'
<1> USE DEF TypeInv
<1>1. CASE Shutdown(w)
  BY <1>1, IngestAssumption DEF Shutdown, TypeOK, WorkerInv, tables, request, history
<1>2. CASE Exit(w)
  BY <1>2 DEF Exit, TypeOK, WorkerInv, tables, request, history
<1>3. CASE Crash(w)
  BY <1>3, IngestAssumption
     DEF Crash, Leave, TypeOK, PCs, WorkerInv, Busy, tables, request, history
<1>4. CASE Restart(w)
  BY <1>4 DEF Restart, TypeOK, WorkerInv, tables, request, history
<1> QED BY <1>1, <1>2, <1>3, <1>4 DEF Process

LEMMA NextType == TypeInv /\ [Next]_vars => TypeInv'
<1> SUFFICES ASSUME TypeInv, [Next]_vars PROVE TypeInv'
  OBVIOUS
<1>1. CASE DeleteKnowledgeBase
  BY <1>1 DEF DeleteKnowledgeBase, TypeInv, TypeOK, WorkerInv, request, worker, history
<1>2. CASE \E d \in Docs : Request(d)
  BY <1>2, RequestType
<1>3. CASE \E d \in Docs : Expire(d)
  BY <1>3 DEF Expire, TypeInv, TypeOK, WorkerInv, request, worker, history
<1>4. CASE \E w \in Workers : Worker(w)
  BY <1>4, ListType, WorkType, WriteType DEF Worker, ProcessDocument
<1>5. CASE \E w \in Workers : Process(w)
  BY <1>5, ProcessType
<1>6. CASE UNCHANGED vars
  BY <1>6 DEF vars, tables, request, worker, history, TypeInv, TypeOK, WorkerInv
<1> QED BY <1>1, <1>2, <1>3, <1>4, <1>5, <1>6 DEF Next

LEMMA TypeAlways == Spec => []TypeInv
BY InitType, NextType, PTL DEF Spec

(* Every variable keeps its type, and no row counts more attempts than     *)
(* maxDocumentAttempts, however many workers write stale rows back         *)
(* (service.go:333-341).                                                   *)
THEOREM KnowledgeTypeCorrect == Spec => []TypeOK
<1>1. TypeInv => TypeOK
  BY DEF TypeInv
<1> QED BY <1>1, TypeAlways, PTL

-----------------------------------------------------------------------------
(* A document that says ready has its chunks.                              *)

(* Only Finish makes a row ready.                                          *)
ReadyStays(d) == row'[d].status = "ready" => row[d].status = "ready"

(* A step that writes no ready row, takes no chunks and finishes nothing.  *)
Harmless ==
  /\ \A d \in Docs : ReadyStays(d)
  /\ chunks \subseteq chunks'
  /\ marked \subseteq marked'
  /\ \A w \in Workers : pc'[w] = "finish" => pc[w] = "finish" /\ doc'[w] = doc[w]
  /\ \A d \in Docs : api'[d] = "marked" => api[d] = "marked" \/ d \in marked'

LEMMA HarmlessKeepsIndex == IndexInv /\ Harmless => IndexInv'
BY DEF IndexInv, Harmless, ReadyStays, ReadyIsIndexed

(* A row written with a status other than ready.                           *)
LEMMA PutHarmless ==
  ASSUME TypeInv, NEW d \in Docs, NEW r \in Counted, r.status # "ready",
         row' = [row EXCEPT ![d] = r] \/ row' = row
  PROVE  \A e \in Docs : ReadyStays(e)
BY DEF TypeInv, TypeOK, ReadyStays

LEMMA RequestIndex ==
  ASSUME TypeInv, IndexInv, NEW d \in Docs, Request(d) PROVE IndexInv'
<1> USE DEF TypeInv
<1>1. CASE AddDocument(d)
  BY <1>1, HarmlessKeepsIndex
     DEF AddDocument, Harmless, ReadyStays, TypeOK, tables, worker, history
<1>2. CASE CreateDocument(d)
  <2>1. [status |-> "pending", attempts |-> 0] \in Counted
    BY IngestAssumption DEF Counted, Statuses
  <2>2. \A e \in Docs : ReadyStays(e)
    BY <1>2, <2>1, PutHarmless DEF CreateDocument, Put
  <2> QED BY <1>2, <2>2, HarmlessKeepsIndex DEF CreateDocument, Harmless, TypeOK, worker, history
<1>3. CASE DeleteDocument(d)
  BY <1>3, HarmlessKeepsIndex
     DEF DeleteDocument, Harmless, ReadyStays, TypeOK, tables, worker, history
<1>4. CASE MarkDeleted(d)
  <2>1. [read[d] EXCEPT !.status = "deleted"] \in Counted
    BY Restatus DEF TypeOK, Counted, Statuses
  <2>2. [read[d] EXCEPT !.status = "deleted"].status # "ready"
    BY Restatus DEF TypeOK, Counted, Statuses
  <2>3. \A e \in Docs : ReadyStays(e)
    BY <1>4, <2>1, <2>2, PutHarmless DEF MarkDeleted, Put
  <2> QED BY <1>4, <2>3, HarmlessKeepsIndex DEF MarkDeleted, Harmless, TypeOK, worker
<1>5. CASE DeleteChunks(d)
  <2>1. d \in marked
    BY <1>5 DEF DeleteChunks, IndexInv
  <2> QED BY <1>5, <2>1 DEF DeleteChunks, IndexInv, ReadyIsIndexed, TypeOK, worker
<1> QED BY <1>1, <1>2, <1>3, <1>4, <1>5 DEF Request

LEMMA WorkerIndex ==
  ASSUME TypeInv, IndexInv, NEW w \in Workers, Worker(w) PROVE IndexInv'
<1> USE DEF TypeInv
<1>0. copy[w] \in Counted
  BY DEF TypeOK, Counted
<1>1. CASE ListPending(w) \/ EndOfList(w)
  BY <1>1, HarmlessKeepsIndex
     DEF ListPending, EndOfList, Goto, Harmless, ReadyStays, TypeOK, tables, request, history
<1>2. ASSUME NEW d \in Docs, GetDocument(w, d) \/ SkipDocument(w, d) PROVE IndexInv'
  BY <1>2, HarmlessKeepsIndex
     DEF GetDocument, SkipDocument, Take, Goto, Harmless, ReadyStays, TypeOK,
         WorkerInv, Busy, tables, request, history
<1>3. CASE GiveUp(w) \/ Fail(w)
  <2>1. doc[w] \in Docs
    BY <1>3 DEF GiveUp, Fail, Goto, WorkerInv, Busy
  <2>2. /\ [copy[w] EXCEPT !.status = "failed"] \in Counted
        /\ [copy[w] EXCEPT !.status = "failed"].status # "ready"
    BY <1>0, Restatus DEF Statuses
  <2>3. \A e \in Docs : ReadyStays(e)
    BY <1>3, <2>1, <2>2, PutHarmless DEF GiveUp, Fail, Put
  <2> QED BY <1>3, <2>3, HarmlessKeepsIndex
          DEF GiveUp, Fail, Leave, Goto, Harmless, TypeOK, request, history
<1>4. CASE Begin(w) \/ BeginError(w)
  <2>1. doc[w] \in Docs /\ Attempt(w) \in Counted /\ Attempt(w).status # "ready"
    BY <1>4, AttemptCounted DEF Begin, BeginError, Goto
  <2>2. row' = [row EXCEPT ![doc[w]] = Attempt(w)] \/ row' = row
    BY <1>4 DEF Begin, BeginError, Put
  <2>3. \A e \in Docs : ReadyStays(e)
    BY <2>1, <2>2, PutHarmless
  <2> QED BY <1>4, <2>3, HarmlessKeepsIndex
          DEF Begin, BeginError, Leave, Goto, Harmless, TypeOK, request, history
<1>5. CASE Work(w)
  BY <1>5, HarmlessKeepsIndex
     DEF Work, Harmless, ReadyStays, TypeOK, tables, request, history
<1>6. CASE ReplaceChunks(w) \/ ReplaceError(w)
  BY <1>6 DEF ReplaceChunks, ReplaceError, Goto, IndexInv, ReadyIsIndexed, TypeOK, request, history
<1>7. CASE Finish(w) \/ FinishError(w)
  <2>1. doc[w] \in Docs /\ doc[w] \in chunks \cup marked
    BY <1>7 DEF Finish, FinishError, Goto, WorkerInv, Busy, IndexInv
  <2>2. \A d \in Docs \ {doc[w]} : row'[d] = row[d]
    BY <1>7 DEF Finish, FinishError, Put, TypeOK
  <2>3. \A v \in Workers : pc'[v] = "finish" => pc[v] = "finish" /\ doc'[v] = doc[v]
    BY <1>7 DEF Finish, FinishError, Leave, Goto, TypeOK
  <2>4. UNCHANGED <<chunks, marked, api>>
    BY <1>7 DEF Finish, FinishError, request
  <2> QED BY <2>1, <2>2, <2>3, <2>4 DEF IndexInv, ReadyIsIndexed
<1> QED BY <1>1, <1>2, <1>3, <1>4, <1>5, <1>6, <1>7 DEF Worker, ProcessDocument

LEMMA NextIndex == TypeInv /\ IndexInv /\ [Next]_vars => IndexInv'
<1> SUFFICES ASSUME TypeInv, IndexInv, [Next]_vars PROVE IndexInv'
  OBVIOUS
<1> USE DEF TypeInv
<1>1. CASE \E d \in Docs : Request(d)
  BY <1>1, RequestIndex
<1>2. CASE \E w \in Workers : Worker(w)
  BY <1>2, WorkerIndex
<1>3. CASE DeleteKnowledgeBase \/ \E d \in Docs : Expire(d)
  BY <1>3, HarmlessKeepsIndex
     DEF DeleteKnowledgeBase, Expire, Harmless, ReadyStays, request, worker, history
<1>4. CASE \E w \in Workers : Process(w)
  BY <1>4, HarmlessKeepsIndex
     DEF Process, Shutdown, Exit, Crash, Restart, Leave, Harmless, ReadyStays, TypeOK,
         tables, request, history
<1>5. CASE UNCHANGED vars
  BY <1>5, HarmlessKeepsIndex
     DEF vars, tables, request, worker, history, Harmless, ReadyStays
<1> QED BY <1>1, <1>2, <1>3, <1>4, <1>5 DEF Next

(* A document that was never deleted and says ready is indexed, however    *)
(* many workers process it at once (service.go:393-402).                   *)
THEOREM ReadyMeansIndexed == Spec => []ReadyIsIndexed
<1>1. Init => IndexInv
  BY DEF Init, IndexInv, ReadyIsIndexed, NoRow
<1>2. IndexInv => ReadyIsIndexed
  BY DEF IndexInv
<1> QED BY <1>1, <1>2, NextIndex, TypeAlways, PTL DEF Spec

-----------------------------------------------------------------------------
(* What a step of a worker may do, whatever it is: it writes at most the   *)
(* row and the chunks of the document that it has, leaves it or takes one  *)
(* up, and whoever still has what it makes ready contests it.              *)
Wrote(w) == /\ doc[w] \in Docs
            /\ row'[doc[w]].status \in {"processing", "ready", "failed"}
            /\ \A d \in Docs \ {doc[w]} : row'[d] = row[d]
            /\ row'[doc[w]].status = "ready" => Contest(doc[w])

LetGo(w) == \A v \in Workers : doc'[v] \in {doc[v], NoDoc}

TookUp(w, d) == /\ d \in queue[w]
                /\ row[d].status \notin {"ready", "deleted"}
                /\ row' = row
                /\ doc' = [doc EXCEPT ![w] = d]

WorkerStep(w) ==
  /\ UNCHANGED <<kb, request, marked, removed, raced>>
  /\ contested \subseteq contested'
  /\ chunks' = chunks \/ (doc[w] \in Docs /\ chunks' = chunks \cup {doc[w]})
  /\ row' = row \/ Wrote(w)
  /\ LetGo(w) \/ \E d \in Docs : TookUp(w, d)
  /\ \A v \in Workers : \A d \in queue'[v] : d \in queue[v] \/ row[d].status # "none"

LEMMA WorkerSteps ==
  ASSUME TypeInv, NEW w \in Workers, Worker(w) PROVE WorkerStep(w)
<1> USE DEF TypeInv
<1>0. copy[w] \in Counted /\ row \in [Docs -> Counted]
  BY DEF TypeOK, Counted
<1>1. CASE ListPending(w) \/ EndOfList(w)
  <2>1. \A d \in Pending : row[d].status # "none"
    BY DEF Pending
  <2> QED BY <1>1, <2>1 DEF ListPending, EndOfList, WorkerStep, LetGo, TypeOK,
                            tables, request, history
<1>2. ASSUME NEW d \in Docs, GetDocument(w, d) PROVE WorkerStep(w)
  <2>1. TookUp(w, d)
    BY <1>2 DEF GetDocument, Take, TookUp, tables
  <2>2. \A v \in Workers : queue'[v] \subseteq queue[v]
    BY <1>2 DEF GetDocument, Take, TypeOK
  <2> QED BY <1>2, <2>1, <2>2 DEF GetDocument, Take, WorkerStep, tables, request, history
<1>3. ASSUME NEW d \in Docs, SkipDocument(w, d) PROVE WorkerStep(w)
  BY <1>3 DEF SkipDocument, WorkerStep, LetGo, TypeOK, tables, request, history
<1>4. CASE GiveUp(w) \/ Fail(w)
  <2>1. doc[w] \in Docs
    BY <1>4 DEF GiveUp, Fail, Goto, WorkerInv, Busy
  <2>2. [copy[w] EXCEPT !.status = "failed"].status = "failed"
    BY <1>0, Restatus DEF Statuses
  <2>3. row' = row \/ Wrote(w)
    BY <1>0, <1>4, <2>1, <2>2 DEF GiveUp, Fail, Put, Wrote
  <2> QED BY <1>4, <2>3 DEF GiveUp, Fail, Leave, WorkerStep, LetGo, TypeOK, request, history
<1>5. CASE Begin(w) \/ BeginError(w)
  <2>1. doc[w] \in Docs
    BY <1>5 DEF Begin, BeginError, Goto, WorkerInv, Busy
  <2>2. Attempt(w).status = "processing"
    BY DEF Attempt
  <2>3. row' = row \/ Wrote(w)
    BY <1>0, <1>5, <2>1, <2>2 DEF Begin, BeginError, Put, Wrote
  <2> QED BY <1>5, <2>3 DEF Begin, BeginError, Leave, WorkerStep, LetGo, TypeOK, request, history
<1>6. CASE Work(w) \/ ReplaceChunks(w) \/ ReplaceError(w)
  <2>1. ReplaceChunks(w) \/ ReplaceError(w) => doc[w] \in Docs
    BY DEF ReplaceChunks, ReplaceError, Goto, WorkerInv, Busy
  <2> QED BY <1>6, <2>1 DEF Work, ReplaceChunks, ReplaceError, WorkerStep, LetGo, TypeOK,
                            tables, request, history
<1>7. CASE Finish(w) \/ FinishError(w)
  <2>1. doc[w] \in Docs
    BY <1>7 DEF Finish, FinishError, Goto, WorkerInv, Busy
  <2>2. [copy[w] EXCEPT !.status = "ready"].status = "ready"
    BY <1>0, Restatus DEF Statuses
  <2>3. row' = row \/ Wrote(w)
    BY <1>0, <1>7, <2>1, <2>2 DEF Finish, FinishError, Put, Wrote
  <2>4. contested \subseteq contested' /\ LetGo(w)
    BY <1>7 DEF Finish, FinishError, Contest, Leave, LetGo, TypeOK
  <2> QED BY <1>7, <2>3, <2>4 DEF Finish, FinishError, WorkerStep, TypeOK, request
<1> QED BY <1>1, <1>2, <1>3, <1>4, <1>5, <1>6, <1>7 DEF Worker, ProcessDocument

-----------------------------------------------------------------------------
(* What is deleted for good.                                               *)
Gone == marked \ raced

(* A step that deletes nothing: it leaves the rows, the chunks and the     *)
(* workers of what is gone alone, and creates none of it.                  *)
Aloof ==
  /\ UNCHANGED <<marked, removed, raced>>
  /\ \A d \in Gone : /\ row'[d] = row[d]
                     /\ d \in chunks' => d \in chunks
                     /\ \A w \in Workers : doc'[w] = d => doc[w] = d
                     /\ api'[d] = "adding" => api[d] = "adding"
  /\ \A d \in Docs : api'[d] = "marked" => api[d] = "marked"

LEMMA AloofKeepsDeletions ==
  ASSUME marked \subseteq Docs, DeletionInv, Aloof PROVE DeletionInv'
<1>1. Gone' = Gone /\ removed' \ raced' \subseteq Gone
  BY DEF DeletionInv, Aloof, Gone
<1>2. DeletionSticks'
  BY <1>1 DEF DeletionInv, DeletionSticks, Aloof, Gone
<1>3. \A d \in Docs : /\ api'[d] = "marked" => d \in marked'
                      /\ api'[d] = "adding" => d \notin Gone'
  BY <1>1 DEF DeletionInv, Aloof, Gone
<1>4. \A d \in Gone' : /\ row'[d].status = "deleted"
                       /\ \A w \in Workers : doc'[w] # d
  BY <1>1 DEF DeletionInv, Aloof, Gone
<1> QED BY <1>2, <1>3, <1>4 DEF DeletionInv, Aloof, Gone

LEMMA RequestDeletion ==
  ASSUME TypeInv, DeletionInv, NEW d \in Docs, Request(d) PROVE DeletionInv'
<1> USE DEF TypeInv
<1>0. marked \subseteq Docs
  BY DEF TypeOK
<1>1. CASE AddDocument(d)
  <2>1. d \notin Gone
    BY <1>1 DEF AddDocument, Gone, DeletionInv
  <2> QED BY <1>0, <1>1, <2>1, AloofKeepsDeletions
          DEF AddDocument, Aloof, Gone, TypeOK, tables, worker, history
<1>2. CASE CreateDocument(d)
  <2>1. d \notin Gone
    BY <1>2 DEF CreateDocument, Gone, DeletionInv
  <2>2. \A e \in Docs \ {d} : row'[e] = row[e]
    BY <1>2 DEF CreateDocument, Put, TypeOK
  <2> QED BY <1>0, <1>2, <2>1, <2>2, AloofKeepsDeletions
          DEF CreateDocument, Aloof, Gone, TypeOK, worker, history
<1>3. CASE DeleteDocument(d)
  BY <1>0, <1>3, AloofKeepsDeletions
     DEF DeleteDocument, Aloof, Gone, TypeOK, tables, worker, history
<1>4. CASE MarkDeleted(d)
  <2>1. CASE UNCHANGED <<row, marked, raced>> /\ api' = [api EXCEPT ![d] = "none"]
    BY <1>0, <1>4, <2>1, AloofKeepsDeletions
       DEF MarkDeleted, Aloof, Gone, TypeOK, worker
  <2>2. CASE /\ Put(d, [read[d] EXCEPT !.status = "deleted"])
             /\ api' \in {[api EXCEPT ![d] = "marked"], [api EXCEPT ![d] = "none"]}
             /\ marked' = marked \cup {d}
             /\ raced' = raced \cup {x \in {d} : \E w \in Workers : Holds(w, x)}
    <3>1. row'[d].status = "deleted" /\ \A e \in Docs \ {d} : row'[e] = row[e]
      BY <2>2 DEF Put, TypeOK
    <3>2. api'[d] # "adding" /\ \A e \in Docs \ {d} : api'[e] = api[e]
      BY <2>2 DEF TypeOK
    <3>3. UNCHANGED <<chunks, removed, doc>>
      BY <1>4 DEF MarkDeleted, worker
    <3>4. /\ raced \subseteq raced' /\ marked \subseteq marked' /\ d \in marked'
          /\ \A e \in Docs \ {d} : (e \in marked' => e \in marked) /\ (e \in raced' => e \in raced)
          /\ d \notin raced' => \A w \in Workers : doc[w] # d
      BY <2>2 DEF Holds
    <3>5. marked' \subseteq Docs /\ removed \subseteq Docs
      BY <2>2 DEF TypeOK
    <3>6. DeletionSticks' /\ removed' \subseteq marked'
      BY <3>1, <3>3, <3>4, <3>5 DEF DeletionInv, DeletionSticks
    <3>7. \A e \in Docs : /\ api'[e] = "marked" => e \in marked'
                          /\ api'[e] = "adding" => e \notin marked' \ raced'
      BY <3>2, <3>4 DEF DeletionInv
    <3>8. \A e \in marked' \ raced' : row'[e].status = "deleted" /\ \A w \in Workers : doc'[w] # e
      BY <3>1, <3>3, <3>4, <3>5 DEF DeletionInv
    <3> QED BY <3>6, <3>7, <3>8 DEF DeletionInv
  <2> QED BY <1>4, <2>1, <2>2 DEF MarkDeleted
<1>5. CASE DeleteChunks(d)
  BY <1>5 DEF DeleteChunks, DeletionInv, DeletionSticks, TypeOK, worker
<1> QED BY <1>1, <1>2, <1>3, <1>4, <1>5 DEF Request

LEMMA WorkerDeletion ==
  ASSUME TypeInv, DeletionInv, NEW w \in Workers, Worker(w) PROVE DeletionInv'
<1>0. marked \subseteq Docs /\ NoDoc \notin Docs /\ doc \in [Workers -> Docs \cup {NoDoc}]
  BY IngestAssumption DEF TypeInv, TypeOK
<1>1. WorkerStep(w)
  BY WorkerSteps
<1>2. doc[w] \notin Gone
  BY DEF Gone, DeletionInv
<1>3. UNCHANGED <<marked, removed, raced, api>>
  BY <1>1 DEF WorkerStep, request
<1>4. ASSUME NEW d \in Gone PROVE row'[d] = row[d] /\ (d \in chunks' => d \in chunks)
  BY <1>0, <1>1, <1>2 DEF WorkerStep, Wrote, Gone
<1>5. ASSUME NEW d \in Gone, NEW v \in Workers, doc'[v] = d PROVE doc[v] = d
  <2>1. row[d].status = "deleted" /\ d # NoDoc
    BY <1>0 DEF Gone, DeletionInv
  <2> QED BY <1>0, <1>1, <1>5, <2>1 DEF WorkerStep, LetGo, TookUp
<1> QED BY <1>0, <1>3, <1>4, <1>5, AloofKeepsDeletions DEF Aloof

LEMMA NextDeletion == TypeInv /\ DeletionInv /\ [Next]_vars => DeletionInv'
<1> SUFFICES ASSUME TypeInv, DeletionInv, [Next]_vars PROVE DeletionInv'
  OBVIOUS
<1>0. marked \subseteq Docs /\ NoDoc \notin Docs
  BY IngestAssumption DEF TypeInv, TypeOK
<1>1. CASE \E d \in Docs : Request(d)
  BY <1>1, RequestDeletion
<1>2. CASE \E w \in Workers : Worker(w)
  BY <1>2, WorkerDeletion
<1>3. CASE DeleteKnowledgeBase \/ \E d \in Docs : Expire(d)
  BY <1>0, <1>3, AloofKeepsDeletions
     DEF DeleteKnowledgeBase, Expire, Aloof, request, worker, history
<1>4. CASE \E w \in Workers : Process(w)
  BY <1>0, <1>4, AloofKeepsDeletions
     DEF Process, Shutdown, Exit, Crash, Restart, Leave, Aloof, Gone, TypeInv, TypeOK,
         tables, request, history
<1>5. CASE UNCHANGED vars
  BY <1>0, <1>5, AloofKeepsDeletions
     DEF vars, tables, request, worker, history, Aloof
<1> QED BY <1>1, <1>2, <1>3, <1>4, <1>5 DEF Next

(* A deletion that met no worker is never undone (service.go:203-221,      *)
(* 326-332).                                                               *)
THEOREM DeletionIsFinal == Spec => []DeletionSticks
<1>1. Init => DeletionInv
  BY DEF Init, DeletionInv, DeletionSticks
<1>2. DeletionInv => DeletionSticks
  BY DEF DeletionInv
<1> QED BY <1>1, <1>2, NextDeletion, TypeAlways, PTL DEF Spec
-----------------------------------------------------------------------------
(* A document that is being added is new to everybody.                     *)
LEMMA KeepsFresh ==
  ASSUME FreshInv,
         \A d \in Docs : /\ row'[d].status = "none" => row[d].status = "none"
                         /\ api'[d] = "adding" => row'[d].status = "none",
         \A w \in Workers : /\ doc'[w] \in {doc[w], NoDoc} \cup queue[w]
                            /\ \A d \in queue'[w] : d \in queue[w] \/ row[d].status # "none"
  PROVE  FreshInv'
BY IngestAssumption DEF FreshInv

LEMMA NextFresh == TypeInv /\ FreshInv /\ [Next]_vars => FreshInv'
<1> SUFFICES ASSUME TypeInv, FreshInv, [Next]_vars PROVE FreshInv'
  OBVIOUS
<1> USE DEF TypeInv
<1>1. ASSUME NEW d \in Docs, Request(d) PROVE FreshInv'
  <2>1. UNCHANGED <<doc, queue>>
    BY <1>1 DEF Request, AddDocument, CreateDocument, DeleteDocument, MarkDeleted, DeleteChunks,
                worker
  <2>2. \A e \in Docs \ {d} : row'[e] = row[e] /\ api'[e] = api[e]
    BY <1>1 DEF Request, AddDocument, CreateDocument, DeleteDocument, MarkDeleted, DeleteChunks,
                Put, TypeOK, tables
  <2>3. /\ row'[d].status = "none" => row[d].status = "none"
        /\ api'[d] = "adding" => row'[d].status = "none"
    <3>1. CASE AddDocument(d)
      BY <3>1 DEF AddDocument, TypeOK, tables
    <3>2. CASE CreateDocument(d)
      BY <3>2 DEF CreateDocument, Put, TypeOK
    <3>3. CASE DeleteDocument(d) \/ DeleteChunks(d)
      BY <3>3 DEF DeleteDocument, DeleteChunks, TypeOK, tables
    <3>4. CASE MarkDeleted(d)
      <4>1. row' = row \/ row'[d].status = "deleted"
        BY <3>4 DEF MarkDeleted, Put, TypeOK
      <4>2. api'[d] # "adding"
        BY <3>4 DEF MarkDeleted, TypeOK
      <4> QED BY <4>1, <4>2
    <3> QED BY <1>1, <3>1, <3>2, <3>3, <3>4 DEF Request
  <2> QED BY <2>1, <2>2, <2>3, KeepsFresh DEF FreshInv
<1>2. ASSUME NEW w \in Workers, Worker(w) PROVE FreshInv'
  <2>1. WorkerStep(w)
    BY <1>2, WorkerSteps
  <2>2. api' = api
    BY <2>1 DEF WorkerStep, request
  <2>3. \A d \in Docs : row'[d].status = "none" => row[d].status = "none"
    BY <2>1 DEF WorkerStep, Wrote
  <2>4. \A d \in Docs : api'[d] = "adding" => row'[d].status = "none"
    BY <2>1, <2>2 DEF WorkerStep, Wrote, FreshInv
  <2>5. \A v \in Workers : doc'[v] \in {doc[v], NoDoc} \cup queue[v]
    BY <2>1 DEF WorkerStep, LetGo, TookUp, TypeOK
  <2>6. \A v \in Workers : \A d \in queue'[v] : d \in queue[v] \/ row[d].status # "none"
    BY <2>1 DEF WorkerStep
  <2> QED BY <2>3, <2>4, <2>5, <2>6, KeepsFresh
<1>3. CASE DeleteKnowledgeBase \/ \E d \in Docs : Expire(d)
  BY <1>3 DEF DeleteKnowledgeBase, Expire, request, worker, FreshInv
<1>4. CASE \E w \in Workers : Process(w)
  <2>1. UNCHANGED <<row, api>>
    BY <1>4 DEF Process, Shutdown, Exit, Crash, Restart, tables, request
  <2>2. \A v \in Workers : doc'[v] \in {doc[v], NoDoc} /\ queue'[v] \subseteq queue[v]
    BY <1>4 DEF Process, Shutdown, Exit, Crash, Restart, Leave, TypeOK
  <2> QED BY <2>1, <2>2, KeepsFresh DEF FreshInv
<1>5. CASE UNCHANGED vars
  BY <1>5 DEF vars, tables, request, worker, FreshInv
<1> QED BY <1>1, <1>2, <1>3, <1>4, <1>5 DEF Next

-----------------------------------------------------------------------------
(* What searches find stays found.                                         *)
OnlyContested ==
  \A d \in Docs : Searchable(d) /\ ~Searchable(d)' =>
                    d \in marked' \/ kb' = "deleted" \/ d \in contested

(* A step that takes nothing away from a search, and after which a worker  *)
(* holds no more than before.                                              *)
LEMMA QuietStep ==
  ASSUME ContestInv, UNCHANGED <<row, kb, contested>>, chunks \subseteq chunks',
         \A w \in Workers : doc'[w] \in {doc[w], NoDoc}
  PROVE  ContestInv' /\ OnlyContested
BY IngestAssumption DEF ContestInv, OnlyContested, Searchable

LEMMA RequestContest ==
  ASSUME TypeInv, IndexInv, FreshInv, ContestInv, NEW d \in Docs, Request(d)
  PROVE  ContestInv' /\ OnlyContested
<1> USE DEF TypeInv
<1>0. UNCHANGED <<kb, doc, contested>>
  BY DEF Request, AddDocument, CreateDocument, DeleteDocument, MarkDeleted, DeleteChunks,
         tables, worker, history
<1>1. CASE AddDocument(d) \/ DeleteDocument(d)
  BY <1>0, <1>1, QuietStep DEF AddDocument, DeleteDocument, tables
<1>2. CASE CreateDocument(d)
  <2>1. row[d].status = "none"
    BY <1>2 DEF CreateDocument, FreshInv
  <2>2. row'[d].status # "ready" /\ \A e \in Docs \ {d} : row'[e] = row[e]
    BY <1>2, <2>1 DEF CreateDocument, Put, TypeOK
  <2>3. chunks' = chunks
    BY <1>2 DEF CreateDocument
  <2> QED BY <1>0, <2>1, <2>2, <2>3 DEF ContestInv, OnlyContested, Searchable
<1>3. CASE MarkDeleted(d)
  <2>1. chunks' = chunks
    BY <1>3 DEF MarkDeleted
  <2>2. CASE row' = row
    BY <1>0, <2>1, <2>2, QuietStep
  <2>3. CASE Put(d, [read[d] EXCEPT !.status = "deleted"]) /\ d \in marked'
    <3>1. row'[d].status = "deleted" /\ \A e \in Docs \ {d} : row'[e] = row[e]
      BY <2>3 DEF Put, TypeOK
    <3> QED BY <1>0, <2>1, <2>3, <3>1 DEF ContestInv, OnlyContested, Searchable
  <2> QED BY <1>3, <2>2, <2>3 DEF MarkDeleted
<1>4. CASE DeleteChunks(d)
  <2>1. UNCHANGED <<row, marked>> /\ d \in marked /\ chunks \ {d} \subseteq chunks'
    BY <1>4 DEF DeleteChunks, IndexInv
  <2> QED BY <1>0, <2>1 DEF ContestInv, OnlyContested, Searchable
<1> QED BY <1>1, <1>2, <1>3, <1>4 DEF Request

(* A worker writes over what is ready only if it contests it, and takes up *)
(* nothing that is ready.                                                  *)
LEMMA WorkerContest ==
  ASSUME TypeInv, ContestInv, NEW w \in Workers, Worker(w)
  PROVE  ContestInv' /\ OnlyContested
<1>0. NoDoc \notin Docs /\ doc \in [Workers -> Docs \cup {NoDoc}]
  BY IngestAssumption DEF TypeInv, TypeOK
<1>1. WorkerStep(w)
  BY WorkerSteps
<1>2. UNCHANGED kb /\ contested \subseteq contested' /\ chunks \subseteq chunks'
  BY <1>1 DEF WorkerStep
<1>3. CASE row' = row
  <2>1. \A v \in Workers : \/ doc'[v] \in {doc[v], NoDoc}
                           \/ row[doc'[v]].status # "ready"
    BY <1>0, <1>1 DEF WorkerStep, LetGo, TookUp
  <2> QED BY <1>0, <1>2, <1>3, <2>1 DEF ContestInv, OnlyContested, Searchable
<1>4. CASE row' # row
  <2>1. Wrote(w) /\ LetGo(w)
    BY <1>1, <1>4 DEF WorkerStep, TookUp
  <2>2. ContestInv'
    <3> SUFFICES ASSUME NEW v \in Workers, doc'[v] \in Docs, row'[doc'[v]].status = "ready"
                 PROVE  doc'[v] \in contested'
      BY DEF ContestInv
    <3>1. doc'[v] = doc[v]
      BY <1>0, <2>1 DEF LetGo
    <3>2. CASE doc[v] = doc[w]
      BY <2>1, <3>1, <3>2 DEF Wrote, Contest, Holds
    <3>3. CASE doc[v] # doc[w]
      BY <1>2, <2>1, <3>1, <3>3 DEF Wrote, ContestInv
    <3> QED BY <3>2, <3>3
  <2>3. OnlyContested
    BY <1>2, <2>1 DEF OnlyContested, Searchable, Wrote, ContestInv
  <2> QED BY <2>2, <2>3
<1> QED BY <1>3, <1>4

LEMMA NextContest ==
  TypeInv /\ IndexInv /\ FreshInv /\ ContestInv /\ [Next]_vars
    => ContestInv' /\ [OnlyContested]_vars
<1> SUFFICES ASSUME TypeInv, IndexInv, FreshInv, ContestInv, [Next]_vars
             PROVE  ContestInv' /\ OnlyContested
  OBVIOUS
<1>1. CASE \E d \in Docs : Request(d)
  BY <1>1, RequestContest
<1>2. CASE \E w \in Workers : Worker(w)
  BY <1>2, WorkerContest
<1>3. CASE DeleteKnowledgeBase
  BY <1>3 DEF DeleteKnowledgeBase, ContestInv, OnlyContested, worker, history
<1>4. CASE \E d \in Docs : Expire(d)
  BY <1>4, QuietStep DEF Expire, worker, history
<1>5. CASE \E w \in Workers : Process(w)
  <2>1. \A v \in Workers : doc'[v] \in {doc[v], NoDoc}
    BY <1>5 DEF Process, Shutdown, Exit, Crash, Restart, Leave, TypeInv, TypeOK
  <2> QED BY <1>5, <2>1, QuietStep
          DEF Process, Shutdown, Exit, Crash, Restart, tables, history
<1>6. CASE UNCHANGED vars
  BY <1>6, QuietStep DEF vars, tables, worker, history
<1> QED BY <1>1, <1>2, <1>3, <1>4, <1>5, <1>6 DEF Next

(* However many workers there are and whatever calls fail, before or after *)
(* their effect, a document that searches found disappears only if it was  *)
(* deleted or somebody still had it when it was written ready              *)
(* (service.go:330, 397-408).                                              *)
THEOREM OnlyContestedDocumentsVanish == Spec => OnlyContestedVanish
<1>1. Init => FreshInv /\ IndexInv /\ ContestInv
  BY IngestAssumption DEF Init, NoRow, FreshInv, IndexInv, ReadyIsIndexed, ContestInv
<1>2. Spec => [][OnlyContested]_vars
  BY <1>1, NextFresh, NextIndex, NextContest, TypeAlways, PTL DEF Spec
<1> QED BY <1>2 DEF OnlyContestedVanish, OnlyContested

-----------------------------------------------------------------------------
(* How often one worker starts what it processes.                          *)
OneWorker == \A v, w \in Workers : v = w

(* What StartsInv says of one document, and of one worker.                 *)
DocCounted(d) ==
  /\ starts[d] <= MaxAttempts
  /\ row[d].status = "none" => starts[d] = 0
  /\ row[d].status # "deleted" => starts[d] <= row[d].attempts

CopyCounted(w) == doc[w] \in Docs => starts[doc[w]] <= copy[w].attempts

LEMMA StartsParts ==
  StartsInv <=> /\ \A d \in Docs : DocCounted(d)
                /\ \A w \in Workers : CopyCounted(w)
BY DEF StartsInv, StartsBounded, DocCounted, CopyCounted

LEMMA RequestStarts ==
  ASSUME TypeInv, FreshInv, StartsInv, NEW d \in Docs, Request(d) PROVE StartsInv'
<1> USE DEF TypeInv
<1>1. (\A e \in Docs : DocCounted(e)) /\ (\A w \in Workers : CopyCounted(w))
  BY StartsParts
<1>2. UNCHANGED <<starts, doc, copy>>
  BY DEF Request, AddDocument, CreateDocument, DeleteDocument, MarkDeleted, DeleteChunks,
         worker, history
<1>3. \A w \in Workers : CopyCounted(w)'
  BY <1>1, <1>2 DEF CopyCounted
<1>4. \A e \in Docs \ {d} : row'[e] = row[e]
  BY DEF Request, AddDocument, CreateDocument, DeleteDocument, MarkDeleted, DeleteChunks,
         Put, TypeOK, tables
<1>5. \A e \in Docs \ {d} : DocCounted(e)'
  BY <1>1, <1>2, <1>4 DEF DocCounted
<1>6. DocCounted(d)'
  <2>1. CASE CreateDocument(d)
    <3>1. starts[d] = 0
      BY <1>1, <2>1 DEF CreateDocument, FreshInv, DocCounted
    <3>2. row'[d] = [status |-> "pending", attempts |-> 0] \/ row' = row
      BY <2>1 DEF CreateDocument, Put, TypeOK
    <3> QED BY <1>1, <1>2, <3>1, <3>2, IngestAssumption DEF DocCounted
  <2>2. CASE MarkDeleted(d)
    <3>1. row'[d].status = "deleted" \/ row' = row
      BY <2>2 DEF MarkDeleted, Put, TypeOK
    <3> QED BY <1>1, <1>2, <3>1 DEF DocCounted
  <2>3. CASE AddDocument(d) \/ DeleteDocument(d) \/ DeleteChunks(d)
    BY <1>1, <1>2, <2>3 DEF AddDocument, DeleteDocument, DeleteChunks, DocCounted, tables
  <2> QED BY <2>1, <2>2, <2>3 DEF Request
<1> QED BY <1>3, <1>5, <1>6 DEF StartsInv, StartsBounded, DocCounted, CopyCounted

(* A step that starts nothing and writes no row.                           *)
LEMMA IdleStarts ==
  ASSUME StartsInv, UNCHANGED <<row, starts>>,
         \A w \in Workers : \/ doc'[w] = doc[w] /\ copy'[w] = copy[w]
                            \/ doc'[w] \notin Docs
                            \/ /\ row[doc'[w]].status # "deleted"
                               /\ copy'[w] = row[doc'[w]]
  PROVE  StartsInv'
BY DEF StartsInv, StartsBounded

(* The worker leaves a document whose row says what it holds, or one more. *)
LEMMA WriteBackStarts ==
  ASSUME TypeInv, StartsInv, NEW w \in Workers, doc[w] \in Docs,
         NEW r \in Counted, r.status # "none", copy[w].attempts <= r.attempts,
         row' = [row EXCEPT ![doc[w]] = r],
         UNCHANGED <<starts, copy>>,
         \A v \in Workers : doc'[v] \in {doc[v], NoDoc}
  PROVE  StartsInv'
<1> USE DEF TypeInv
<1>1. row'[doc[w]] = r /\ \A e \in Docs \ {doc[w]} : row'[e] = row[e]
  BY DEF TypeOK
<1>2. starts[doc[w]] <= r.attempts
  <2>1. starts[doc[w]] \in Nat /\ copy[w].attempts \in Nat /\ r.attempts \in Nat
    BY IngestAssumption DEF TypeOK, Counted
  <2>2. starts[doc[w]] <= copy[w].attempts
    BY DEF StartsInv
  <2> QED BY <2>1, <2>2
<1>3. NoDoc \notin Docs
  BY IngestAssumption
<1> QED BY <1>1, <1>2, <1>3 DEF StartsInv, StartsBounded

(* The attempt that is started is counted in the row and in the copy, and  *)
(* nobody else has a copy of it.                                           *)
LEMMA BeginStarts ==
  ASSUME OneWorker, TypeInv, FreshInv, StartsInv, NEW w \in Workers, Begin(w)
  PROVE  StartsInv'
<1> USE DEF TypeInv
<1>0. doc[w] \in Docs
  BY DEF Begin, Goto, WorkerInv, Busy
<1>a. PICK d \in Docs : d = doc[w]
  BY <1>0
<1>1. copy[w].attempts < MaxAttempts
  BY DEF Begin, Goto, WorkerInv
<1>2. row[d].status # "none" /\ starts[d] <= copy[w].attempts
  BY <1>a DEF StartsInv, FreshInv
<1>3. /\ row'[d] = [status |-> "processing", attempts |-> copy[w].attempts + 1]
      /\ \A e \in Docs \ {d} : row'[e] = row[e]
  BY <1>a DEF Begin, Attempt, Put, TypeOK
<1>4. /\ starts'[d] = starts[d] + 1
      /\ \A e \in Docs \ {d} : starts'[e] = starts[e]
  BY <1>a DEF Begin, TypeOK
<1>5. copy'[w].attempts = copy[w].attempts + 1
  BY DEF Begin, Attempt, TypeOK
<1>6. doc' = doc
  BY DEF Begin
<1>7. copy[w].attempts \in Nat /\ starts[d] \in Nat
  <2>1. copy[w] \in Counted
    BY DEF TypeOK, Counted
  <2>2. copy[w].attempts \in Nat
    BY <2>1, IngestAssumption DEF Counted
  <2>3. starts[d] \in Nat
    BY DEF TypeOK
  <2> QED BY <2>2, <2>3
<1>8. DocCounted(d)'
  <2>1. starts'[d] <= copy[w].attempts + 1 /\ starts'[d] <= MaxAttempts
    BY <1>1, <1>2, <1>4, <1>7, IngestAssumption
  <2>2. row'[d].status = "processing" /\ row'[d].attempts = copy[w].attempts + 1
    BY <1>3
  <2> QED BY <2>1, <2>2 DEF DocCounted
<1>9. \A e \in Docs \ {d} : DocCounted(e)'
  BY <1>3, <1>4, StartsParts DEF DocCounted
<1>10. \A v \in Workers : CopyCounted(v)'
  BY <1>a, <1>2, <1>4, <1>5, <1>6, <1>7 DEF CopyCounted, OneWorker
<1> QED BY <1>8, <1>9, <1>10 DEF StartsInv, StartsBounded, DocCounted, CopyCounted

LEMMA WorkerStarts ==
  ASSUME OneWorker, TypeInv, FreshInv, StartsInv, NEW w \in Workers, Worker(w)
  PROVE  StartsInv'
<1> USE DEF TypeInv
<1>0. NoDoc \notin Docs /\ copy[w] \in Counted
  BY IngestAssumption DEF TypeOK, Counted
<1>1. CASE \E d \in Docs : GetDocument(w, d)
  BY <1>1, IdleStarts DEF GetDocument, Take, TypeOK, tables, history
<1>2. CASE \/ ListPending(w) \/ EndOfList(w) \/ \E d \in Docs : SkipDocument(w, d)
           \/ Work(w) \/ ReplaceChunks(w) \/ ReplaceError(w)
  <2>1. UNCHANGED <<row, starts, copy, doc>>
    BY <1>2 DEF ListPending, EndOfList, SkipDocument, Work, ReplaceChunks, ReplaceError,
                tables, history
  <2> QED BY <2>1, IdleStarts
<1>3. CASE GiveUp(w) \/ BeginError(w) \/ Finish(w) \/ FinishError(w) \/ Fail(w)
  <2>1. UNCHANGED <<starts, copy>>
    BY <1>3 DEF GiveUp, BeginError, Finish, FinishError, Fail, history
  <2>2. \A v \in Workers : doc'[v] \in {doc[v], NoDoc}
    BY <1>3 DEF GiveUp, BeginError, Finish, FinishError, Fail, Leave, TypeOK
  <2>3. CASE row' = row
    BY <1>0, <2>1, <2>2, <2>3, IdleStarts
  <2>4. CASE BeginError(w) /\ row' # row
    <3>1. doc[w] \in Docs /\ Attempt(w) \in Counted
      BY <2>4, AttemptCounted DEF BeginError, Goto
    <3>2. Attempt(w).status # "none" /\ copy[w].attempts <= Attempt(w).attempts
      BY <1>0, IngestAssumption DEF Attempt, Counted
    <3>3. row' = [row EXCEPT ![doc[w]] = Attempt(w)]
      BY <2>4 DEF BeginError, Put
    <3> QED BY <2>1, <2>2, <3>1, <3>2, <3>3, WriteBackStarts
  <2>5. CASE row' # row /\ ~BeginError(w)
    <3>1. doc[w] \in Docs
      BY <1>3, <2>5 DEF GiveUp, Finish, FinishError, Fail, Goto, WorkerInv, Busy
    <3>2. PICK s \in {"failed", "ready"} : row' = [row EXCEPT ![doc[w]] = [copy[w] EXCEPT !.status = s]]
      BY <1>3, <2>5 DEF GiveUp, Finish, FinishError, Fail, Put
    <3> DEFINE r == [copy[w] EXCEPT !.status = s]
    <3>3. r \in Counted /\ r.status # "none" /\ r.attempts = copy[w].attempts
      BY <1>0, Restatus DEF Counted, Statuses
    <3>4. copy[w].attempts <= r.attempts
      BY <1>0, <3>3, IngestAssumption DEF Counted
    <3>5. row' = [row EXCEPT ![doc[w]] = r]
      BY <3>2
    <3> HIDE DEF r
    <3> QED BY <2>1, <2>2, <3>1, <3>3, <3>4, <3>5, WriteBackStarts
  <2> QED BY <1>3, <2>3, <2>4, <2>5
<1>4. CASE Begin(w)
  BY <1>4, BeginStarts
<1> QED BY <1>1, <1>2, <1>3, <1>4 DEF Worker, ProcessDocument

LEMMA NextStarts ==
  ASSUME OneWorker PROVE TypeInv /\ FreshInv /\ StartsInv /\ [Next]_vars => StartsInv'
<1> SUFFICES ASSUME TypeInv, FreshInv, StartsInv, [Next]_vars PROVE StartsInv'
  OBVIOUS
<1>0. NoDoc \notin Docs
  BY IngestAssumption
<1>1. CASE \E d \in Docs : Request(d)
  BY <1>1, RequestStarts
<1>2. CASE \E w \in Workers : Worker(w)
  BY <1>2, WorkerStarts
<1>3. CASE DeleteKnowledgeBase \/ \E d \in Docs : Expire(d)
  BY <1>3, IdleStarts DEF DeleteKnowledgeBase, Expire, worker, history
<1>4. CASE \E w \in Workers : Process(w)
  <2>1. UNCHANGED <<row, starts, copy>>
    BY <1>4 DEF Process, Shutdown, Exit, Crash, Restart, tables, history
  <2>2. \A v \in Workers : doc'[v] \in {doc[v], NoDoc}
    BY <1>4 DEF Process, Shutdown, Exit, Crash, Restart, Leave, TypeInv, TypeOK
  <2> QED BY <1>0, <2>1, <2>2, IdleStarts
<1>5. CASE UNCHANGED vars
  BY <1>5, IdleStarts DEF vars, tables, worker, history
<1> QED BY <1>1, <1>2, <1>3, <1>4, <1>5 DEF Next

(* One worker starts a document at most maxDocumentAttempts times, however *)
(* often it crashes and whatever fails or is deleted meanwhile             *)
(* (service.go:333-341).                                                   *)
THEOREM AttemptsAreBounded == ASSUME OneWorker PROVE Spec => []StartsBounded
<1>1. Init => FreshInv /\ StartsInv
  BY IngestAssumption DEF Init, NoRow, FreshInv, StartsInv, StartsBounded
<1>2. StartsInv => StartsBounded
  BY DEF StartsInv
<1>3. TypeInv /\ FreshInv /\ StartsInv /\ [Next]_vars => StartsInv'
  BY NextStarts
<1> QED BY <1>1, <1>2, <1>3, NextFresh, TypeAlways, PTL DEF Spec
=============================================================================
