---------------------------- MODULE KnowledgeIngest ----------------------------
(***************************************************************************)
(* The documents of one knowledge base: the requests that add and delete   *)
(* them, the worker of each server process that indexes them, the stale    *)
(* timeout, shutdown and crash, and what a search finds.                   *)
(*                                                                         *)
(* Nothing is locked: everybody reads a row, works, and writes all of the  *)
(* row back.  Every database call is a step of its own and may fail, with  *)
(* or without having taken effect: its answer may be lost, or its context  *)
(* canceled while it commits.                                              *)
(***************************************************************************)
EXTENDS Naturals, FiniteSets

CONSTANTS
  Docs,         \* documents that may be added; fewer than a worker's limit (10)
  Workers,      \* server processes, each with one worker
  NoDoc,        \* the document of a worker that has none
  MaxAttempts,  \* maxDocumentAttempts (3 in the code)
  MaxStops,     \* bound: shutdowns and crashes of workers
  MaxFaults     \* bound: database calls that fail

ASSUME IngestAssumption ==
  /\ NoDoc \notin Docs
  /\ MaxAttempts \in Nat \ {0}
  /\ MaxStops \in Nat
  /\ MaxFaults \in Nat

VARIABLES
  kb,        \* the knowledge base: "active" or "deleted"
  row,       \* documents: status and attempts
  stale,     \* rows whose processing_updated_at is 15 minutes old
  chunks,    \* documents with rows in document_chunks
  api,       \* where the request that adds or deletes a document is
  read,      \* the row that request has read
  proc,      \* a worker's process: "up", "stopping", "down"
  pc,        \* where the worker is
  queue,     \* what ListPending gave it and it has not taken yet
  doc,       \* the document it is processing
  copy,      \* the row it works on and writes back
  stops, faults,
  \* history
  starts,    \* how often the processing of a document was started
  marked,    \* documents a deletion was written to
  removed,   \* documents a deletion of which was reported as done
  raced,     \* documents that a worker was processing when they were deleted
  contested  \* documents that a worker still had when they were written ready

tables  == <<kb, row, stale, chunks>>
request == <<api, read>>
worker  == <<proc, pc, queue, doc, copy>>
history == <<starts, marked, removed, raced, contested>>
vars    == <<tables, request, worker, stops, faults, history>>

-----------------------------------------------------------------------------
Statuses == {"none", "pending", "processing", "ready", "failed", "deleted"}
Row == [status : Statuses, attempts : Nat]

Fault == faults < MaxFaults /\ faults' = faults + 1

(* The worker's calls also fail once its process is shutting down.         *)
Broken(w) == Fault \/ (proc[w] = "stopping" /\ UNCHANGED faults)

Goto(w, at, next) == pc[w] = at /\ pc' = [pc EXCEPT ![w] = next]

(* DocumentRepo.Update writes all columns; the time of a row being         *)
(* processed is the time of the write.                                     *)
Put(d, r) == row' = [row EXCEPT ![d] = r]

(* What a search returns: one statement over chunks, documents and bases.  *)
Searchable(d) == d \in chunks /\ row[d].status = "ready" /\ kb = "active"

(* The worker has read the row of d and will write it back.                *)
Holds(w, d) == doc[w] = d

(* Whoever still holds a document once it is ready.                        *)
Contest(d) == contested' = contested \cup {x \in {d} : \E w \in Workers : Holds(w, x)'}

-----------------------------------------------------------------------------
(* Requests.                                                               *)

DeleteKnowledgeBase ==
  /\ kb = "active"
  /\ kb' = "deleted"
  /\ UNCHANGED <<row, stale, chunks, request, worker, stops, faults, history>>

(* The checks of AddDocument: the base is there, the file is uploaded.     *)
AddDocument(d) ==
  /\ kb = "active"
  /\ api[d] = "none"
  /\ row[d].status = "none"
  /\ api' = [api EXCEPT ![d] = "adding"]
  /\ UNCHANGED <<tables, read, worker, stops, faults, history>>

(* The request has done its part, whether it hears of the new row or not.  *)
CreateDocument(d) ==
  /\ api[d] = "adding"
  /\ api' = [api EXCEPT ![d] = "none"]
  /\ \/ Put(d, [status |-> "pending", attempts |-> 0]) /\ UNCHANGED faults
     \/ Fault /\ UNCHANGED row
  /\ UNCHANGED <<kb, stale, chunks, read, worker, stops, history>>

(* DeleteDocument reads the row ...                                        *)
DeleteDocument(d) ==
  /\ kb = "active"
  /\ api[d] = "none"
  /\ row[d].status # "none"
  /\ api' = [api EXCEPT ![d] = "deleting"]
  /\ read' = [read EXCEPT ![d] = row[d]]
  /\ UNCHANGED <<tables, worker, stops, faults, history>>

(* ... writes it back as deleted ...                                       *)
MarkDeleted(d) ==
  /\ api[d] = "deleting"
  /\ \/ /\ Put(d, [read[d] EXCEPT !.status = "deleted"])
        /\ marked' = marked \cup {d}
        /\ raced' = raced \cup {x \in {d} : \E w \in Workers : Holds(w, x)}
        /\ \/ api' = [api EXCEPT ![d] = "marked"] /\ UNCHANGED faults
           \/ api' = [api EXCEPT ![d] = "none"] /\ Fault
     \/ Fault /\ api' = [api EXCEPT ![d] = "none"] /\ UNCHANGED <<row, marked, raced>>
  /\ UNCHANGED <<kb, stale, chunks, read, worker, stops, starts, removed, contested>>

(* ... and deletes its chunks; a failure may leave them behind.            *)
DeleteChunks(d) ==
  /\ api[d] = "marked"
  /\ api' = [api EXCEPT ![d] = "none"]
  /\ \/ /\ chunks' = chunks \ {d}
        /\ removed' = removed \cup {d}
        /\ UNCHANGED faults
     \/ Fault /\ chunks' \in {chunks, chunks \ {d}} /\ UNCHANGED removed
  /\ UNCHANGED <<kb, row, stale, read, worker, stops, starts, marked, raced, contested>>

-----------------------------------------------------------------------------
(* ProcessPending, at every tick: a list, often empty, of documents, and   *)
(* then one after the other.                                               *)

(* Mutant of Pending: documents whose worker died are not looked for.       *)
PendingOnly == {d \in Docs : row[d].status = "pending"}

Pending == {d \in Docs : \/ row[d].status = "pending"
                         \/ row[d].status = "processing" /\ d \in stale}

ListPending(w) ==
  /\ proc[w] = "up"
  /\ Goto(w, "idle", "next")
  /\ queue' = [queue EXCEPT ![w] = Pending]
  /\ UNCHANGED <<tables, request, proc, doc, copy, stops, faults, history>>

EndOfList(w) ==
  /\ queue[w] = {}
  /\ Goto(w, "next", "idle")
  /\ UNCHANGED <<tables, request, proc, queue, doc, copy, stops, faults, history>>

(* ProcessDocument reads the row and looks at its status and attempts.     *)
Take(w, d, next) ==
  /\ d \in queue[w]
  /\ Goto(w, "next", next)
  /\ queue' = [queue EXCEPT ![w] = @ \ {d}]
  /\ doc' = [doc EXCEPT ![w] = d]
  /\ UNCHANGED <<tables, request, proc, stops, faults, history>>

(* Mutant of GetDocument: what was deleted since the list is not skipped.   *)
GetDeletedToo(w, d) ==
  /\ row[d].status # "ready"
  /\ Take(w, d, IF row[d].attempts >= MaxAttempts THEN "giveUp" ELSE "start")
  /\ copy' = [copy EXCEPT ![w] = row[d]]

(* Mutant of GetDocument: what is ready by now is indexed once more.        *)
GetReadyToo(w, d) ==
  /\ row[d].status # "deleted"
  /\ Take(w, d, IF row[d].attempts >= MaxAttempts THEN "giveUp" ELSE "start")
  /\ copy' = [copy EXCEPT ![w] = row[d]]

(* Mutant of GetDocument: one attempt too many is allowed.                  *)
GetDocumentOffByOne(w, d) ==
  /\ row[d].status \notin {"ready", "deleted"}
  /\ Take(w, d, IF row[d].attempts > MaxAttempts THEN "giveUp" ELSE "start")
  /\ copy' = [copy EXCEPT ![w] = row[d]]

GetDocument(w, d) ==
  /\ row[d].status \notin {"ready", "deleted"}
  /\ Take(w, d, IF row[d].attempts >= MaxAttempts THEN "giveUp" ELSE "start")
  /\ copy' = [copy EXCEPT ![w] = row[d]]

(* It is done already, it was deleted, or it could not be read.            *)
SkipDocument(w, d) ==
  /\ d \in queue[w]
  /\ pc[w] = "next"
  /\ queue' = [queue EXCEPT ![w] = @ \ {d}]
  /\ \/ row[d].status \in {"ready", "deleted"} /\ UNCHANGED faults
     \/ Broken(w)
  /\ UNCHANGED <<tables, request, proc, pc, doc, copy, stops, history>>

(* The last step of ProcessDocument, successful or not.                    *)
Leave(w) == doc' = [doc EXCEPT ![w] = NoDoc]

(* Nobody looks at the answer of the last two updates, this one and Fail:  *)
(* one that is lost is as good as one that arrives.                        *)
GiveUp(w) ==
  /\ Goto(w, "giveUp", "next")
  /\ \/ Put(doc[w], [copy[w] EXCEPT !.status = "failed"]) /\ UNCHANGED faults
     \/ Broken(w) /\ UNCHANGED row
  /\ Leave(w)
  /\ UNCHANGED <<kb, stale, chunks, request, proc, queue, copy, stops, history>>

(* The attempt that starts.                                                *)
Attempt(w) == [status |-> "processing", attempts |-> copy[w].attempts + 1]

(* Mutant of Begin: the attempt is not counted.                             *)
BeginUncounted(w) ==
  LET d == doc[w]
      r == [copy[w] EXCEPT !.status = "processing"] IN
  /\ Goto(w, "start", "work")
  /\ Put(d, r)
  /\ copy' = [copy EXCEPT ![w] = r]
  /\ stale' = stale \ {d}
  /\ starts' = [starts EXCEPT ![d] = @ + 1]
  /\ UNCHANGED <<kb, chunks, request, proc, queue, doc, stops, faults, marked, removed, raced, contested>>

Begin(w) ==
  LET d == doc[w] IN
  /\ Goto(w, "start", "work")
  /\ Put(d, Attempt(w))
  /\ copy' = [copy EXCEPT ![w] = Attempt(w)]
  /\ stale' = stale \ {d}
  /\ starts' = [starts EXCEPT ![d] = @ + 1]
  /\ UNCHANGED <<kb, chunks, request, proc, queue, doc, stops, faults, marked, removed, raced, contested>>

(* Without an answer the worker goes on to the next document; the row may  *)
(* say that this one is being processed.                                   *)
BeginError(w) ==
  /\ Goto(w, "start", "next")
  /\ Broken(w)
  /\ \/ Put(doc[w], Attempt(w)) /\ stale' = stale \ {doc[w]}
     \/ UNCHANGED <<row, stale>>
  /\ Leave(w)
  /\ UNCHANGED <<kb, chunks, request, proc, queue, copy, stops, history>>

(* Fetch, parse, split, embed; any of it may fail, or panic.               *)
Work(w) ==
  /\ pc[w] = "work"
  /\ pc' \in {[pc EXCEPT ![w] = next] : next \in {"replace", "fail"}}
  /\ UNCHANGED <<tables, request, proc, queue, doc, copy, stops, faults, history>>

(* Old chunks out and new chunks in, in one transaction.  Two that overlap *)
(* insert the same (document_id, chunk_index): the second one fails.       *)
ReplaceChunks(w) ==
  /\ Goto(w, "replace", "finish")
  /\ chunks' = chunks \cup {doc[w]}
  /\ UNCHANGED <<kb, row, stale, request, proc, queue, doc, copy, stops, faults, history>>

(* Mutant of ReplaceError: the error is dropped.                            *)
ReplaceErrorIgnored(w) ==
  /\ Goto(w, "replace", "finish")
  /\ Broken(w)
  /\ UNCHANGED <<tables, request, proc, queue, doc, copy, stops, history>>

(* Rolled back, or committed and not heard of.                             *)
ReplaceError(w) ==
  /\ Goto(w, "replace", "fail")
  /\ \/ Broken(w) /\ chunks' \in {chunks, chunks \cup {doc[w]}}
     \/ (\E v \in Workers \ {w} : doc[v] = doc[w]) /\ UNCHANGED <<chunks, faults>>
  /\ UNCHANGED <<kb, row, stale, request, proc, queue, doc, copy, stops, history>>

Finish(w) ==
  /\ Goto(w, "finish", "next")
  /\ Put(doc[w], [copy[w] EXCEPT !.status = "ready"])
  /\ Leave(w)
  /\ Contest(doc[w])
  /\ UNCHANGED <<kb, stale, chunks, request, proc, queue, copy, stops, faults,
                 starts, marked, removed, raced>>

(* Not written, or written and not heard of: fail comes either way.        *)
FinishError(w) ==
  /\ Goto(w, "finish", "fail")
  /\ Broken(w)
  /\ \/ UNCHANGED <<row, doc, contested>>
     \/ /\ Put(doc[w], [copy[w] EXCEPT !.status = "ready"])
        /\ UNCHANGED doc
        /\ Contest(doc[w])
  /\ UNCHANGED <<kb, stale, chunks, request, proc, queue, copy, stops,
                 starts, marked, removed, raced>>

(* fail: best effort, with a context of its own.                           *)
Fail(w) ==
  /\ Goto(w, "fail", "next")
  /\ \/ Put(doc[w], [copy[w] EXCEPT !.status = "failed"]) /\ UNCHANGED faults
     \/ Fault /\ UNCHANGED row
  /\ Leave(w)
  /\ UNCHANGED <<kb, stale, chunks, request, proc, queue, copy, stops, history>>

-----------------------------------------------------------------------------
(* The processes and the clock.                                            *)

(* 15 minutes have passed since processing_updated_at.                     *)
Expire(d) ==
  /\ row[d].status = "processing"
  /\ d \notin stale
  /\ stale' = stale \cup {d}
  /\ UNCHANGED <<kb, row, chunks, request, worker, stops, faults, history>>

Shutdown(w) ==
  /\ proc[w] = "up"
  /\ stops < MaxStops
  /\ stops' = stops + 1
  /\ proc' = [proc EXCEPT ![w] = "stopping"]
  /\ UNCHANGED <<tables, request, pc, queue, doc, copy, faults, history>>

Exit(w) ==
  /\ proc[w] = "stopping"
  /\ pc[w] = "idle"
  /\ proc' = [proc EXCEPT ![w] = "down"]
  /\ UNCHANGED <<tables, request, pc, queue, doc, copy, stops, faults, history>>

(* A kill, a panic elsewhere, the end of the grace period.                 *)
Crash(w) ==
  /\ proc[w] # "down"
  /\ stops < MaxStops
  /\ stops' = stops + 1
  /\ proc' = [proc EXCEPT ![w] = "down"]
  /\ pc' = [pc EXCEPT ![w] = "idle"]
  /\ queue' = [queue EXCEPT ![w] = {}]
  /\ Leave(w)
  /\ UNCHANGED <<tables, request, copy, faults, history>>

Restart(w) ==
  /\ proc[w] = "down"
  /\ proc' = [proc EXCEPT ![w] = "up"]
  /\ UNCHANGED <<tables, request, pc, queue, doc, copy, stops, faults, history>>

-----------------------------------------------------------------------------
NoRow == [status |-> "none", attempts |-> 0]

Init ==
  /\ kb = "active"
  /\ row = [d \in Docs |-> NoRow]
  /\ stale = {} /\ chunks = {}
  /\ api = [d \in Docs |-> "none"]
  /\ read = [d \in Docs |-> NoRow]
  /\ proc = [w \in Workers |-> "up"]
  /\ pc = [w \in Workers |-> "idle"]
  /\ queue = [w \in Workers |-> {}]
  /\ doc = [w \in Workers |-> NoDoc]
  /\ copy = [w \in Workers |-> NoRow]
  /\ stops = 0 /\ faults = 0
  /\ starts = [d \in Docs |-> 0]
  /\ marked = {} /\ removed = {} /\ raced = {} /\ contested = {}

Request(d) == \/ AddDocument(d) \/ CreateDocument(d)
              \/ DeleteDocument(d) \/ MarkDeleted(d) \/ DeleteChunks(d)

ProcessDocument(w) ==
  \/ \E d \in Docs : GetDocument(w, d) \/ SkipDocument(w, d)
  \/ GiveUp(w) \/ Begin(w) \/ BeginError(w) \/ Work(w)
  \/ ReplaceChunks(w) \/ ReplaceError(w) \/ Finish(w) \/ FinishError(w) \/ Fail(w)

Worker(w) == ListPending(w) \/ EndOfList(w) \/ ProcessDocument(w)

Process(w) == Shutdown(w) \/ Exit(w) \/ Crash(w) \/ Restart(w)

Next == \/ DeleteKnowledgeBase
        \/ \E d \in Docs : Request(d) \/ Expire(d)
        \/ \E w \in Workers : Worker(w) \/ Process(w)

Spec == Init /\ [][Next]_vars

(* A worker's calls return, its ticker ticks, time passes, and a process   *)
(* that went down is started again.                                        *)
FairSpec == /\ Spec
            /\ \A w \in Workers : /\ WF_vars(Worker(w))
                                  /\ WF_vars(Exit(w) \/ Restart(w))
            /\ \A d \in Docs : WF_vars(Expire(d))
=============================================================================
