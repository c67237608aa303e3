------------------------- MODULE ResponseProperties -------------------------
(***************************************************************************)
(* What a response guarantees, whatever its tools, its database and its    *)
(* client do: the properties of ResponseRun, and the inductive invariants  *)
(* behind the proofs of ResponseProofs.                                    *)
(***************************************************************************)
EXTENDS ResponseRun

Logged(type, call) == \E i \in DOMAIN log : log[i].type = type /\ log[i].call = call

Ends == {"tool_call.completed", "tool_call.failed"}
Outcomes == {"response.completed", "response.failed"}

PCs == {"ensure", "userMessage", "userItem", "assistantMessage", "rejected",
        "created", "auditCreated", "history", "turn", "recv", "modelFailed",
        "modelSucceeded", "toolCall", "callCreated", "callItem", "execute",
        "callFailed", "emitCallFailed", "callSucceeded", "saveResult",
        "citation", "citationAdded", "callCompleted", "toolUsage", "text",
        "messageCompleted", "usageUpdated", "modelUsage", "complete",
        "responseCompleted", "auditCompleted", "push", "fail", "auditFailed",
        "emitFailed", "final", "ended", "crashed"}

(* Where an emit goes on after its push.                                   *)
Resumes == {"auditCreated", "recv", "callItem", "fail", "citation",
            "toolUsage", "usageUpdated", "modelUsage", "auditCompleted", "final"}

BookKinds == {"response.created", "response.completed", "response.failed",
              "usage.tool", "usage.model",
              "invocation.succeeded", "invocation.failed"}

(* Every variable has its type and every counter its bound; no response    *)
(* makes more than cfg.MaxToolIterations model calls (orchestrator.go:213).*)
TypeOK ==
  /\ log \in Seq(Event)
  /\ items \in Seq(Item)
  /\ calls \in Seq({"running", "succeeded", "failed"})
  /\ results \subseteq 1 .. Len(calls)
  /\ user \in {"none", "message", "item"}
  /\ status \in {"none", "in_progress", "completed", "failed"}
  /\ books \subseteq BookKinds \X Nat
  /\ pc \in PCs
  /\ resume \in Resumes
  /\ pending \in Event \cup {Final}
  /\ seq \in Nat /\ itemSeq \in Nat
  /\ unheard \subseteq 1 .. seq
  /\ iter \in 0 .. MaxToolIterations
  /\ todo \in 0 .. MaxCalls
  /\ cites \in 0 .. MaxCitations
  /\ sent \in Seq(Event \cup {Final})
  /\ taken \in 0 .. Len(sent)
  /\ handler \in {"calling", "rejected", "streaming", "finished", "broken", "crashed"}
  /\ ctx \in {"live", "done"}
  /\ faults \in 0 .. MaxFaults
  /\ ran \subseteq 1 .. Len(calls)

(* Replay sorts by seq: a response that has not failed has the events 1, 2,*)
(* 3, ... without a hole, and one that failed may lack events only right   *)
(* before its response.failed (emit counts an event whose Append failed).  *)
SeqWithoutHoles ==
  \A i \in DOMAIN log : log[i].type # "response.failed" => log[i].seq = i

(* A tool is started only after its call was recorded as running and its   *)
(* tool_call.created persisted, so that even a crash in the middle of the  *)
(* tool leaves the intent to replay (orchestrator.go:446).                 *)
IntentOnRecord ==
  \A c \in ran : c \in DOMAIN calls /\ Logged("tool_call.created", c)

(* In the log the calls of a response do not overlap: a call's citations   *)
(* and its end come after its creation, it ends once, nothing of it comes  *)
(* after its end, and the next call begins after it completed.             *)
ToolEventsNested ==
  \A i, j \in DOMAIN log :
    /\ log[j].type \in Ends \cup {"citation.added"} =>
         \E k \in 1 .. j - 1 : log[k].type = "tool_call.created" /\ log[k].call = log[j].call
    /\ i < j /\ log[i].type \in Ends => log[j].call # log[i].call
    /\ i < j /\ log[i].type = "tool_call.created" /\ log[j].type = "tool_call.created" =>
         \E k \in i + 1 .. j - 1 :
            log[k].type = "tool_call.completed" /\ log[k].call = log[i].call

(* A message marked completed is whole: the user's input is stored, every  *)
(* tool call succeeded, kept its result and told so, the text is stored,   *)
(* and the log has all its events up to usage.updated.                     *)
CompletionIsWhole ==
  status = "completed" =>
    /\ user = "item"
    /\ \A c \in DOMAIN calls : /\ calls[c] = "succeeded"
                               /\ c \in results
                               /\ Logged("tool_call.completed", c)
    /\ HasText => \E i \in DOMAIN items : items[i].type = "text"
    /\ Logged("message.completed", 0)
    /\ Logged("usage.updated", 0)

(* The two records of a response's outcome agree: response.completed is    *)
(* logged only once the message left in_progress, and when no database     *)
(* call failed a message is failed exactly when it is about to be, or has  *)
(* been, logged as failed.                                                 *)
OutcomeAgrees ==
  /\ Logged("response.completed", 0) => status \in {"completed", "failed"}
  /\ Logged("response.failed", 0) /\ faults = 0 => status = "failed"
  /\ status = "failed" /\ faults = 0 /\ pc = "ended" => Logged("response.failed", 0)

(* The items of a message are ordered by seq without repetition, the text  *)
(* comes last, and every citation.added event has its item.                *)
ItemsBackEvents ==
  /\ \A i, j \in DOMAIN items : i < j => /\ items[i].seq < items[j].seq
                                         /\ items[i].type # "text"
  /\ \A c \in 1 .. Len(calls) :
       Cardinality({i \in DOMAIN log : log[i].type = "citation.added" /\ log[i].call = c})
         <= Cardinality({i \in DOMAIN items : items[i].type = "citation" /\ items[i].call = c})

(* The books of a completed response: every model call and every tool call *)
(* is accounted for, unless the database refused the row.                  *)
BooksBalance ==
  status = "completed" /\ faults = 0 =>
    /\ \A i \in 1 .. iter : <<"invocation.succeeded", i>> \in books
    /\ \A c \in DOMAIN calls : <<"usage.tool", c>> \in books

(* The client is told one outcome at most, and it is the last event before *)
(* the end of the stream.                                                  *)
ClientSeesOneOutcome ==
  \A i \in DOMAIN sent :
     sent[i].type \in Outcomes => i = Len(sent) \/ (i + 1 = Len(sent) /\ sent[i + 1] = Final)

(* The success is in the log, and the run was told that it is not.         *)
SuccessUnheard ==
  \E i \in DOMAIN log : log[i].type = "response.completed" /\ log[i].seq \in unheard

(* The log may hold both outcomes, but for two reasons only: the request   *)
(* was cut between the Append and the push of response.completed, or the   *)
(* Append of response.completed took effect and returned an error          *)
(* (orchestrator.go:285-289, 669-677).                                     *)
BothOutcomesOnlyIfCutOrUnheard ==
  Logged("response.completed", 0) /\ Logged("response.failed", 0)
    => ctx = "done" \/ SuccessUnheard

(* What a client that asked for the stream has been sent, and how it       *)
(* implements the promise of EventStream.                                  *)
Delivered == IF handler = "broken" THEN taken - 1 ELSE taken

Stream == INSTANCE EventStream
            WITH Events <- Event, view <- SubSeq(sent, 1, Delivered), cut <- (ctx = "done")

(* Events are persisted before they are pushed, shown in log order, and    *)
(* shown completely unless the request is cut or the run was told that an  *)
(* event it logged is not logged (orchestrator.go:668, response_handler.go:71). *)
RefinesEventStream == Stream!StreamSpec

-----------------------------------------------------------------------------
(* The inductive strengthening of the safety properties: what holds at     *)
(* each place of the goroutine.                                            *)

Preparing == {"ensure", "userMessage", "userItem", "assistantMessage"}
Halted  == {"rejected", "ended", "crashed", "final"}
Failing == {"fail", "auditFailed", "emitFailed"}
InCall  == {"callCreated", "callItem", "execute", "callFailed", "emitCallFailed",
            "callSucceeded", "saveResult", "citation", "citationAdded",
            "callCompleted", "toolUsage"}

(* Where the goroutine is, or will be after the push under way.            *)
At == IF pc = "push" THEN resume ELSE pc

ControlInv ==
  /\ pc = "toolCall" => todo > 0
  /\ At \in InCall => Len(calls) > 0

FailedLogged == \E i \in DOMAIN log : log[i].type = "response.failed"

(* Up to the failure of the run, seq is the length of the log.             *)
SeqInv ==
  /\ \A i \in DOMAIN log :
       IF log[i].type = "response.failed" THEN i = Len(log) /\ i <= log[i].seq
                                          ELSE log[i].seq = i
  /\ pc \notin Halted \cup {"push"} => /\ Len(log) <= seq
                                      /\ ~FailedLogged
  /\ pc \notin Halted \cup Failing \cup {"push"} => seq = Len(log)
  /\ pc = "push" => /\ Len(log) > 0
                    /\ pending = log[Len(log)]
                    /\ IF pending.type = "response.failed"
                       THEN resume = "final"
                       ELSE resume # "final" /\ seq = Len(log)

(* An envelope sent is the end of the stream, or the event in its place of *)
(* the log, or, after a cut has made the channel skip events, the log's    *)
(* last one, response.failed.                                              *)
Entry(i) ==
  \/ sent[i] = Final /\ i = Len(sent) /\ pc \in {"ended", "crashed"}
  \/ sent[i].type # "response.failed" /\ i <= Len(log) /\ sent[i] = log[i]
  \/ /\ sent[i].type = "response.failed"
     /\ i <= Len(log) /\ sent[i] = log[Len(log)]
     /\ pc \in {"final", "ended", "crashed"}
     /\ i = Len(sent) \/ (i + 1 = Len(sent) /\ sent[i + 1] = Final)

(* How far the channel is behind the log.                                  *)
Lag ==
  /\ pc \notin Halted \cup Failing \cup {"push"} => Len(sent) = Len(log)
  /\ pc \in Failing \cup {"final"} => Len(sent) <= Len(log)
  /\ pc = "push" => /\ Len(sent) < Len(log)
                    /\ pending.type # "response.failed" => Len(sent) + 1 = Len(log)
  /\ pc = "ended" => sent # <<>> /\ sent[Len(sent)] = Final

(* What is logged was sent, is about to be, or was not heard of, while the *)
(* request is alive; and nothing is sent that was not heard of.            *)
SentOn(i) ==
  \/ log[i].seq \in unheard
  \/ \E j \in DOMAIN sent : sent[j] = log[i]
  \/ i = Len(log) /\ pc \in {"push", "crashed"}

HeardInv ==
  /\ ctx = "live" => \A i \in DOMAIN log : SentOn(i)
  /\ \A j \in DOMAIN sent : sent[j] # Final => sent[j].seq \notin unheard
  /\ pc = "push" => pending.seq \notin unheard

SentInv ==
  /\ \A i \in DOMAIN sent : Entry(i)
  /\ Lag
  /\ HeardInv
  /\ pc = "crashed" => handler \notin {"calling", "streaming"}
  /\ handler = "broken" => taken > 0
  /\ pc \in Preparing => handler = "calling"

IntentInv ==
  /\ IntentOnRecord
  /\ At \in {"callItem", "execute"} => Logged("tool_call.created", Current)

(* The places where the run still may succeed, outside of a call, and those *)
(* from which it only reports how it ended.                                *)
Between == {"created", "auditCreated", "history", "turn", "recv", "modelFailed",
            "modelSucceeded", "toolCall", "text", "messageCompleted",
            "usageUpdated", "modelUsage", "complete"}
Closing == {"responseCompleted", "auditCompleted", "fail", "auditFailed",
            "emitFailed", "final", "ended", "crashed"}

(* How the message and the log come to agree: the success is logged by a   *)
(* run whose message is completed, and a run that goes on to the error     *)
(* path after that has been cut, or was told that the success is not in.   *)
OutcomeInv ==
  /\ At \in Preparing => status = "none"
  /\ At \in {"responseCompleted", "auditCompleted"} => status = "completed"
  /\ Logged("response.completed", 0) =>
       /\ status \in {"completed", "failed"}
       /\ \/ At \in {"auditCompleted", "final", "ended", "crashed"}
          \/ ctx = "done" \/ SuccessUnheard
  /\ BothOutcomesOnlyIfCutOrUnheard
  /\ faults = 0 =>
       /\ At \in {"auditFailed", "emitFailed"} => status = "failed"
       /\ Logged("response.failed", 0) => status = "failed"
       /\ status = "failed" => \/ At \in {"auditFailed", "emitFailed", "crashed"}
                               \/ Logged("response.failed", 0)

(* Nothing but the last envelope is sent after the success.                *)
ToldInv ==
  /\ pc = "push" /\ pending.type = "response.completed" => resume = "auditCompleted"
  /\ \A i \in DOMAIN sent : sent[i].type = "response.completed" =>
       /\ pc \in {"auditCompleted", "final", "ended", "crashed"}
       /\ i = Len(sent) \/ (i + 1 = Len(sent) /\ sent[i + 1] = Final)

(* A call that is over and done with.                                      *)
Settled(c) == /\ calls[c] = "succeeded"
              /\ c \in results
              /\ Logged("tool_call.completed", c)

HasTextItem == \E i \in DOMAIN items : items[i].type = "text"

CallsSettled == \A c \in DOMAIN calls : Settled(c)
OthersSettled == \A c \in DOMAIN calls : Settled(c) \/ c = Current
TextStored  == HasText => HasTextItem
MessageTold == Logged("message.completed", 0)
UsageTold   == Logged("usage.updated", 0)

(* A run goes on only while nothing is missing, so that a message is marked *)
(* completed only when it is whole; and nothing is taken from it then.     *)
WholeInv ==
  /\ At \in Preparing \cup Between \cup {"toolUsage"} => CallsSettled
  /\ At \in InCall => OthersSettled
  /\ At \in {"saveResult", "citation", "citationAdded", "callCompleted"} =>
       calls[Current] = "succeeded"
  /\ At \in {"citation", "citationAdded", "callCompleted"} => Current \in results
  /\ At \in Between \cup InCall \cup {"assistantMessage"} => user = "item"
  /\ At \in {"messageCompleted", "usageUpdated", "modelUsage", "complete"} => TextStored
  /\ At \in {"usageUpdated", "modelUsage", "complete"} => MessageTold
  /\ At \in {"modelUsage", "complete"} => UsageTold
  /\ status = "completed" =>
       At \in Closing /\ user = "item" /\ CallsSettled /\ TextStored /\ MessageTold /\ UsageTold

CallsBooked  == \A c \in DOMAIN calls : <<"usage.tool", c>> \in books
OthersBooked == \A c \in DOMAIN calls : <<"usage.tool", c>> \in books \/ c = Current
TurnsBooked  == \A i \in 1 .. iter : <<"invocation.succeeded", i>> \in books
EarlierTurnsBooked ==
  \A i \in 1 .. iter : <<"invocation.succeeded", i>> \in books \/ i = iter

Awaiting == {"recv", "modelFailed", "modelSucceeded"}

(* As long as the database takes every row, only the call or the turn      *)
(* under way is not booked yet.                                            *)
BooksInv ==
  faults = 0 =>
    /\ At \in Preparing \cup Between => CallsBooked
    /\ At \in InCall => OthersBooked
    /\ At \in (Preparing \cup Between \cup InCall) \ Awaiting => TurnsBooked
    /\ At \in Awaiting => EarlierTurnsBooked
    /\ status = "completed" => CallsBooked /\ TurnsBooked

(* The tool events of the log: a call's number is the row it was given, an *)
(* end is there only of calls that are over, and every other call than the *)
(* current one is closed: it completed after its creation.                 *)
ToolEvents == Ends \cup {"tool_call.created", "citation.added"}
Numbered(i) == IF log[i].type \in ToolEvents THEN log[i].call \in DOMAIN calls
                                             ELSE log[i].call = 0
Closed(i) == \E k \in i + 1 .. Len(log) :
               log[k].type = "tool_call.completed" /\ log[k].call = log[i].call
IsCreation(i) == log[i].type = "tool_call.created"

AllNumbered  == \A i \in DOMAIN log : Numbered(i)
AllClosed    == \A i \in DOMAIN log : IsCreation(i) => Closed(i)
OthersClosed == \A i \in DOMAIN log : IsCreation(i) => Closed(i) \/ log[i].call = Current
Fresh        == \A i \in DOMAIN log : log[i].call # Current
Begun        == Logged("tool_call.created", Current)
NotEnded     == \A i \in DOMAIN log : log[i].type \in Ends => log[i].call # Current

NestedInv ==
  /\ ToolEventsNested
  /\ AllNumbered
  /\ At \in Preparing \cup Between \cup {"callCreated", "toolUsage"} => AllClosed
  /\ At \in InCall => OthersClosed
  /\ At = "callCreated" => Fresh
  /\ At \in InCall \ {"callCreated"} => Begun
  /\ At \in InCall \ {"toolUsage"} => NotEnded

(* The entries of a log, or of items, that have this type and call.        *)
Marked(s, type, call) == {i \in DOMAIN s : s[i].type = type /\ s[i].call = call}

CitationEvents(c) == Marked(log, "citation.added", c)
CitationItems(c)  == Marked(items, "citation", c)

(* Every item is numbered by itemSeq, and the text comes when no other     *)
(* item can follow; an event is one behind its citation until it is logged.*)
OrderInv ==
  /\ \A i, j \in DOMAIN items : i < j => /\ items[i].seq < items[j].seq
                                         /\ items[i].type # "text"
  /\ \A i \in DOMAIN items : items[i].seq <= itemSeq
  /\ HasTextItem => At \in {"messageCompleted", "usageUpdated", "modelUsage", "complete"}
                          \cup Closing

CitationInv ==
  /\ \A c \in 1 .. Len(calls) :
       Cardinality(CitationEvents(c)) <= Cardinality(CitationItems(c))
  /\ At = "citationAdded" =>
       Cardinality(CitationEvents(Current)) < Cardinality(CitationItems(Current))

-----------------------------------------------------------------------------
(* The goroutine can hang for good in one place only: the plain send of    *)
(* the last envelope, when the handler gave up on a full channel.          *)
Abandoned == pc = "final" /\ ~Room /\ handler = "broken"

(* Nobody waits for someone who will not come.  The goroutine waits for    *)
(* room only while its handler reads on, or until the request of a handler *)
(* that gave up is over, or abandoned; and a handler that has read all     *)
(* there is waits only for a goroutine that still has the last envelope to *)
(* send (orchestrator.go:189, 295, 672-677, response_handler.go:72-82).    *)
NobodyWaitsInVain ==
  /\ pc \in {"push", "final"} /\ ~Room =>
       \/ handler = "streaming" /\ taken < Len(sent)
       \/ handler = "broken" /\ pc = "push"
       \/ Abandoned
  /\ handler = "streaming" /\ taken = Len(sent) => pc \notin {"ended", "rejected", "crashed"}

(* Where the handler is tells where the goroutine may be.                  *)
HandlerInv ==
  /\ handler = "calling" => pc \in Preparing
  /\ handler = "rejected" => pc \in {"rejected", "crashed"}
  /\ pc = "rejected" => handler = "rejected"
  /\ handler # "finished" => \A i \in 1 .. taken : sent[i] # Final
  /\ handler = "finished" => pc \in {"ended", "crashed"}
  /\ handler = "crashed" => pc = "crashed"

(* Every run ends, is rejected, dies with the process, or is abandoned at  *)
(* its last send; a lost client or a full channel stops it nowhere else.   *)
RunSettles == <>[](pc \in {"ended", "rejected", "crashed"} \/ Abandoned)

(* A stream that was opened is closed: the handler gets the last envelope, *)
(* a write error, or dies with the process.                                *)
StreamCloses == handler = "streaming" ~> handler # "streaming"

-----------------------------------------------------------------------------
(* How much a run has left to do: a number that every step of the          *)
(* goroutine makes smaller.  Each place counts what may follow it, an emit *)
(* for two, as its push is a step of its own.                              *)

CallSteps == 3 * MaxCitations + 11        \* more than a tool call takes
TurnSteps == MaxCalls * CallSteps + 4     \* more than a turn takes

CallsLeft == todo * CallSteps
TurnsLeft == (MaxToolIterations - iter) * TurnSteps

(* From the text on, and on the error path.                                *)
Closings == Closing \cup {"rejected", "text", "messageCompleted", "usageUpdated",
                          "modelUsage", "complete"}

LeftToClose(at) ==
  CASE at = "final" -> 1
    [] at = "emitFailed" -> 3
    [] at = "auditFailed" -> 4
    [] at = "fail" -> 5
    [] at = "auditCompleted" -> 6
    [] at = "responseCompleted" -> 8
    [] at = "complete" -> 9
    [] at = "modelUsage" -> 10
    [] at = "usageUpdated" -> 12
    [] at = "messageCompleted" -> 14
    [] at = "text" -> 15
    [] OTHER -> 0

(* In a tool call, with as many citations left as cites says.              *)
LeftInCall(at) ==
  CASE at = "toolUsage" -> 1
    [] at = "emitCallFailed" -> 2
    [] at \in {"callFailed", "callCompleted"} -> 3
    [] at = "citation" -> 3 * cites + 4
    [] at = "saveResult" -> 3 * cites + 5
    [] at \in {"citationAdded", "callSucceeded"} -> 3 * cites + 6
    [] at = "execute" -> 3 * MaxCitations + 7
    [] at = "callItem" -> 3 * MaxCitations + 8
    [] at = "callCreated" -> 3 * MaxCitations + 10

(* In the turn under way, or before the first one.                         *)
LeftInTurn(at) ==
  CASE at \in InCall -> CallsLeft + LeftInCall(at)
    [] at = "toolCall" -> CallsLeft
    [] at = "modelSucceeded" -> CallsLeft + 1
    [] at = "recv" -> TurnSteps - 2
    [] at \in {"turn", "modelFailed"} -> 0
    [] at = "history" -> 1
    [] at = "auditCreated" -> 2
    [] at = "created" -> 4
    [] at = "assistantMessage" -> 5
    [] at = "userItem" -> 6
    [] at = "userMessage" -> 7
    [] at = "ensure" -> 8

LeftAt(at) ==
  IF at \in Closings THEN LeftToClose(at)
  ELSE 16 + TurnsLeft + LeftInTurn(at)

Left == LeftAt(At) + (IF pc = "push" THEN 1 ELSE 0) + 2 * (MaxDeltas - Deltas)

(* The tool loop ends by itself: cfg.MaxToolIterations bounds the turns,   *)
(* and every step of the goroutine, whatever the model asks for and        *)
(* whichever call fails, leaves less to do (orchestrator.go:205-299).      *)
LoopAdvances == [][Goroutine => Left' < Left]_vars

-----------------------------------------------------------------------------
(* Claims of the documents that the code does not keep.                    *)

(* response.completed and response.failed are the two outcomes of a        *)
(* response (docs/MVP...md:582-583): a log has at most one of them.        *)
OneOutcome == ~(Logged("response.completed", 0) /\ Logged("response.failed", 0))
=============================================================================
