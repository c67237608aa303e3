----------------------------- MODULE ResponseRun -----------------------------
(***************************************************************************)
(* One POST /v1/responses: the agent's tool loop (DefaultOrchestrator.run  *)
(* in its own goroutine), the rows it writes, the bounded channel it       *)
(* pushes events into, the SSE handler that drains the channel, and the    *)
(* request context that ties the two together.                             *)
(*                                                                         *)
(* Every database call is a step of its own and may fail, without or with  *)
(* having taken effect: the answer to a write may be lost.  The process    *)
(* may die between any two steps, the client go away at any moment.        *)
(***************************************************************************)
EXTENDS Naturals, Sequences, FiniteSets

CONSTANTS
  ChanCap,            \* capacity of the event channel (32 in the code)
  MaxToolIterations,  \* cfg.MaxToolIterations (5 by default)
  MaxCalls,           \* bound: tool calls of one model turn
  MaxDeltas,          \* bound: text deltas of the response
  MaxCitations,       \* citations of one tool result (10 in the code)
  MaxFaults           \* bound: database calls that fail

ASSUME ConstantsAssumption ==
  /\ ChanCap \in Nat \ {0}
  /\ MaxToolIterations \in Nat \ {0}
  /\ MaxCalls \in Nat
  /\ MaxDeltas \in Nat
  /\ MaxCitations \in Nat
  /\ MaxFaults \in Nat

VARIABLES
  \* durable rows
  log,        \* response_events of this response, in the order written
  items,      \* message_items of the assistant message, in the order written
  calls,      \* tool_calls: the status of the k-th call of the response
  results,    \* the calls that have a tool_results row
  user,       \* the user message: "none", "message", "item"
  status,     \* the assistant message: "none" or its status
  books,      \* audit_logs, usage_records, model_invocations: <<what, which>>
  \* the goroutine of run
  pc,         \* where it is
  resume,     \* where it goes on after the push under way
  pending,    \* the event persisted last, pushed next
  seq, itemSeq,
  unheard,    \* history: logged events, by seq, whose Append returned an error
  iter,       \* model calls begun
  todo,       \* calls of the current turn not yet executed
  cites,      \* citations of the current result not yet written
  \* the channel, the handler, the request
  sent,       \* every envelope ever put into the channel
  taken,      \* how many of them the handler has taken out
  handler,    \* the SSE handler
  ctx,        \* the request context: "live" or "done"
  \* the environment, and what the outside world has seen
  faults,     \* database calls that failed so far
  ran         \* the calls whose tool was started

toolRows  == <<items, calls, results>>
messages  == <<user, status>>
durable   == <<log, toolRows, messages, books>>
emitter   == <<resume, pending, seq, unheard>>
loop      == <<itemSeq, iter, todo, cites>>
transport == <<sent, taken, handler, ctx>>
vars      == <<durable, pc, emitter, loop, transport, faults, ran>>

-----------------------------------------------------------------------------
EventTypes == {"response.created", "message.delta", "message.completed",
               "tool_call.created", "tool_call.completed", "tool_call.failed",
               "citation.added", "usage.updated",
               "response.completed", "response.failed"}

(* An event carries its place in the response and, for tool events, the    *)
(* tool_calls row (audit_id) it is about; 0 stands for no call.            *)
Event == [type : EventTypes, call : Nat, seq : Nat]

ItemTypes == {"text", "tool_call", "tool_result", "citation"}
Item == [type : ItemTypes, call : Nat, seq : Nat]

(* The envelope {Final: true} that ends the stream.                        *)
Final == [type |-> "final", call |-> 0, seq |-> 0]

Current == Len(calls)                      \* the call being executed
Room    == Len(sent) - taken < ChanCap     \* a send does not block
Deltas  == Cardinality({i \in DOMAIN log : log[i].type = "message.delta"})

(* finalText: a delta that could not be emitted would have ended the run.  *)
HasText == \E i \in DOMAIN log : log[i].type = "message.delta"

(* A database call fails, for the reasons it may.                          *)
Fault == faults < MaxFaults /\ faults' = faults + 1

Goto(at, next) == pc = at /\ pc' = next

(* Where the error of an emit leads: only fail itself ignores it.          *)
OnEmitError(type) == IF type = "response.failed" THEN "final" ELSE "fail"

(* Mutant of Emit: the error of Append is dropped, the event pushed anyway. *)
EmitUnlogged(at, type, call, next) ==
  LET event == [type |-> type, call |-> call, seq |-> seq + 1] IN
  /\ Goto(at, "push")
  /\ seq' = seq + 1
  /\ \/ log' = Append(log, event) /\ UNCHANGED faults
     \/ Fault /\ UNCHANGED log
  /\ pending' = event
  /\ resume' = next
  /\ UNCHANGED <<toolRows, messages, books, unheard, loop, transport, ran>>

(* emit, up to its select: seq advances even when Append fails; an Append  *)
(* that fails goes to the error path, its event logged if only the answer  *)
(* was lost; a persisted event goes on to Push.                            *)
Emit(at, type, call, next) ==
  LET event == [type |-> type, call |-> call, seq |-> seq + 1] IN
  /\ pc = at
  /\ seq' = seq + 1
  /\ \/ /\ log' = Append(log, event)
        /\ pending' = event
        /\ resume' = next
        /\ pc' = "push"
        /\ UNCHANGED <<unheard, faults>>
     \/ /\ Fault
        /\ pc' = OnEmitError(type)
        /\ \/ UNCHANGED <<log, unheard>>
           \/ log' = Append(log, event) /\ unheard' = unheard \cup {event.seq}
        /\ UNCHANGED <<pending, resume>>
  /\ UNCHANGED <<toolRows, messages, books, loop, transport, ran>>

(* Mutant of Emit's callers: the error of emit is dropped.                  *)
EmitTolerant(at, type, call, next) ==
  \/ Emit(at, type, call, next)
  \/ /\ Goto(at, next)
     /\ Fault
     /\ seq' = seq + 1
     /\ UNCHANGED <<durable, pending, resume, unheard, loop, transport, ran>>

(* Mutant of Push: a send that looks at the context only afterwards.        *)
PushThenCheck ==
  /\ pc = "push"
  /\ Room
  /\ sent' = Append(sent, pending)
  /\ pc' \in {resume} \cup IF ctx = "done" THEN {OnEmitError(pending.type)} ELSE {}
  /\ UNCHANGED <<durable, emitter, loop, taken, handler, ctx, faults, ran>>

(* Mutant of Push: a plain send instead of the select.                      *)
PushBlocking ==
  /\ Goto("push", resume)
  /\ Room
  /\ sent' = Append(sent, pending)
  /\ UNCHANGED <<durable, emitter, loop, taken, handler, ctx, faults, ran>>

(* The select of emitEvent: with room in the channel and a request that is *)
(* over, either branch may be taken.                                       *)
Push ==
  /\ pc = "push"
  /\ \/ /\ Room
        /\ sent' = Append(sent, pending)
        /\ pc' = resume
     \/ /\ ctx = "done"
        /\ pc' = OnEmitError(pending.type)
        /\ UNCHANGED sent
  /\ UNCHANGED <<durable, emitter, loop, taken, handler, ctx, faults, ran>>

(* Audit, usage and invocation rows: the error of the write is ignored,    *)
(* so that a row whose answer is lost is as good as any other.             *)
Book(what, which) ==
  /\ \/ books' = books \cup {<<what, which>>} /\ UNCHANGED faults
     \/ Fault /\ UNCHANGED books
  /\ UNCHANGED <<log, toolRows, messages, emitter, loop, transport, ran>>

(* AppendItem: itemSeq advances whether or not the row is written; the     *)
(* caller goes to `next`, or to `failed` when the write returned an error. *)
AddItem(at, type, call, next, failed) ==
  LET more == Append(items, [type |-> type, call |-> call, seq |-> itemSeq + 1]) IN
  /\ pc = at
  /\ itemSeq' = itemSeq + 1
  /\ \/ items' = more /\ pc' = next /\ UNCHANGED faults
     \/ Fault /\ pc' = failed /\ items' \in {items, more}
  /\ UNCHANGED <<log, calls, results, messages, books, emitter, iter, todo,
                 transport, ran>>

-----------------------------------------------------------------------------
(* Run, called by the handler: the conversation and the two messages.  An  *)
(* error is answered with plain JSON and nothing is started.               *)

(* A call that is given the request's context fails once it is over.       *)
CtxFault == Fault \/ (ctx = "done" /\ UNCHANGED faults)

Reject == pc' = "rejected" /\ handler' = "rejected"

EnsureConversation ==
  /\ pc = "ensure"
  /\ \/ pc' = "userMessage" /\ UNCHANGED <<messages, handler>>
     \/ Reject /\ UNCHANGED messages
  /\ UNCHANGED <<log, toolRows, books, emitter, loop, sent, taken, ctx, faults, ran>>

CreateUserMessage ==
  /\ pc = "userMessage"
  /\ \/ /\ pc' = "userItem"
        /\ user' = "message"
        /\ UNCHANGED <<handler, faults>>
     \/ CtxFault /\ Reject /\ user' \in {user, "message"}
  /\ UNCHANGED status
  /\ UNCHANGED <<log, toolRows, books, emitter, loop, sent, taken, ctx, ran>>

AppendUserItem ==
  /\ pc = "userItem"
  /\ \/ /\ pc' = "assistantMessage"
        /\ user' = "item"
        /\ UNCHANGED <<handler, faults>>
     \/ CtxFault /\ Reject /\ user' \in {user, "item"}
  /\ UNCHANGED status
  /\ UNCHANGED <<log, toolRows, books, emitter, loop, sent, taken, ctx, ran>>

CreateAssistantMessage ==
  /\ pc = "assistantMessage"
  /\ \/ /\ pc' = "created"
        /\ status' = "in_progress"
        /\ handler' = "streaming"
        /\ UNCHANGED faults
     \/ CtxFault /\ Reject /\ status' \in {status, "in_progress"}
  /\ UNCHANGED user
  /\ UNCHANGED <<log, toolRows, books, emitter, loop, sent, taken, ctx, ran>>

-----------------------------------------------------------------------------
(* run, up to the first model call.                                        *)

EmitCreated == Emit("created", "response.created", 0, "auditCreated")

AuditCreated == Goto("auditCreated", "history") /\ Book("response.created", 0)

BuildModelMessages ==
  /\ pc = "history"
  /\ \/ pc' = "turn" /\ UNCHANGED faults
     \/ pc' = "fail" /\ CtxFault
  /\ UNCHANGED <<durable, emitter, loop, transport, ran>>

-----------------------------------------------------------------------------
(* callModel, once for each turn of the loop.                              *)

(* Mutant of BeginTurn: the limit is off by one.                            *)
BeginTurnOffByOne ==
  /\ pc = "turn"
  /\ IF iter > MaxToolIterations
     THEN pc' = "fail" /\ UNCHANGED iter
     ELSE pc' \in {"recv", "modelFailed"} /\ iter' = iter + 1
  /\ UNCHANGED <<durable, emitter, itemSeq, todo, cites, transport, faults, ran>>

BeginTurn ==
  /\ pc = "turn"
  /\ IF iter = MaxToolIterations
     THEN pc' = "fail" /\ UNCHANGED iter
     ELSE pc' \in {"recv", "modelFailed"} /\ iter' = iter + 1
  /\ UNCHANGED <<durable, emitter, itemSeq, todo, cites, transport, faults, ran>>

(* Mutant of RecvDelta.                                                     *)
RecvDeltaIgnored ==
  Deltas < MaxDeltas /\ EmitTolerant("recv", "message.delta", 0, "recv")

RecvDelta == Deltas < MaxDeltas /\ Emit("recv", "message.delta", 0, "recv")

(* The provider, its stream or the timeout of the call fails.              *)
RecvError ==
  /\ Goto("recv", "modelFailed")
  /\ UNCHANGED <<durable, emitter, loop, transport, faults, ran>>

(* EOF: the calls the deltas added up to, or a call that has no name.      *)
RecvEOF ==
  /\ pc = "recv"
  /\ \/ todo' \in 0 .. MaxCalls /\ pc' = "modelSucceeded"
     \/ pc' = "fail" /\ UNCHANGED todo
  /\ UNCHANGED <<durable, emitter, itemSeq, iter, cites, transport, faults, ran>>

(* Mutant of ModelFailed: a failed call is retried without being counted.   *)
ModelRetried == Goto("modelFailed", "recv") /\ Book("invocation.failed", iter)

ModelFailed == Goto("modelFailed", "fail") /\ Book("invocation.failed", iter)

(* Mutant of ModelSucceeded: only a turn without tool calls is booked.      *)
ModelSucceededUnbooked ==
  /\ Goto("modelSucceeded", IF todo = 0 THEN "text" ELSE "toolCall")
  /\ IF todo = 0 THEN Book("invocation.succeeded", iter)
                 ELSE UNCHANGED <<durable, emitter, loop, transport, faults, ran>>

ModelSucceeded ==
  /\ Goto("modelSucceeded", IF todo = 0 THEN "text" ELSE "toolCall")
  /\ Book("invocation.succeeded", iter)

-----------------------------------------------------------------------------
(* executeTool, for each call of the turn.                                 *)

CreateToolCall ==
  /\ pc = "toolCall"
  /\ todo' = todo - 1
  /\ \/ /\ calls' = Append(calls, "running")
        /\ pc' = "callCreated"
        /\ UNCHANGED faults
     \/ Fault /\ pc' = "fail" /\ calls' \in {calls, Append(calls, "running")}
  /\ UNCHANGED <<log, items, results, messages, books, emitter, itemSeq, iter,
                 cites, transport, ran>>

(* Mutant of EmitCallCreated.                                               *)
EmitCallCreatedIgnored ==
  EmitTolerant("callCreated", "tool_call.created", Current, "callItem")

EmitCallCreated == Emit("callCreated", "tool_call.created", Current, "callItem")

AppendCallItem ==
  /\ AddItem("callItem", "tool_call", Current, "execute", "execute")
  /\ UNCHANGED cites

(* tools.Execute and marshalToolResult: a result with its citations, a     *)
(* result that is no JSON, or an error.                                    *)
ExecuteTool ==
  /\ pc = "execute"
  /\ ran' = ran \cup {Current}
  /\ \/ cites' \in 0 .. MaxCitations /\ pc' = "callSucceeded"
     \/ pc' \in {"callFailed", "fail"} /\ UNCHANGED cites
  /\ UNCHANGED <<durable, emitter, itemSeq, iter, todo, transport, faults>>

(* The registry has no tool of that name: nothing runs.                    *)
ToolNotFound ==
  /\ Goto("execute", "callFailed")
  /\ UNCHANGED <<durable, emitter, loop, transport, faults, ran>>

(* The error of this write, and of FailMessage's, is ignored.              *)
CallFailed ==
  /\ Goto("callFailed", "emitCallFailed")
  /\ \/ calls' = [calls EXCEPT ![Current] = "failed"] /\ UNCHANGED faults
     \/ Fault /\ UNCHANGED calls
  /\ UNCHANGED <<log, items, results, messages, books, emitter, loop, transport, ran>>

(* Mutant of EmitCallFailed: no return after the failure.                   *)
EmitCallFailedFallsThrough ==
  Emit("emitCallFailed", "tool_call.failed", Current, "callSucceeded")

EmitCallFailed == Emit("emitCallFailed", "tool_call.failed", Current, "fail")

CallSucceeded ==
  LET succeeded == [calls EXCEPT ![Current] = "succeeded"] IN
  /\ pc = "callSucceeded"
  /\ \/ calls' = succeeded /\ pc' = "saveResult" /\ UNCHANGED faults
     \/ Fault /\ pc' = "fail" /\ calls' \in {calls, succeeded}
  /\ UNCHANGED <<log, items, results, messages, books, emitter, loop, transport, ran>>

(* Mutant of SaveResult: the error of the write is dropped.                 *)
SaveResultIgnored ==
  /\ Goto("saveResult", "citation")
  /\ \/ results' = results \cup {Current} /\ UNCHANGED faults
     \/ Fault /\ UNCHANGED results
  /\ UNCHANGED <<log, items, calls, messages, books, emitter, loop, transport, ran>>

SaveResult ==
  /\ pc = "saveResult"
  /\ \/ /\ results' = results \cup {Current}
        /\ pc' = "citation"
        /\ UNCHANGED faults
     \/ Fault /\ pc' = "fail" /\ results' \in {results, results \cup {Current}}
  /\ UNCHANGED <<log, items, calls, messages, books, emitter, loop, transport, ran>>

(* Mutant of AppendCitation: the event is emitted though the item was lost. *)
AppendCitationIgnored ==
  /\ cites > 0
  /\ AddItem("citation", "citation", Current, "citationAdded", "citationAdded")
  /\ cites' = cites - 1

AppendCitation ==
  /\ cites > 0
  /\ AddItem("citation", "citation", Current, "citationAdded", "fail")
  /\ cites' = cites - 1

EmitCitationAdded == Emit("citationAdded", "citation.added", Current, "citation")

AppendResultItem ==
  /\ cites = 0
  /\ AddItem("citation", "tool_result", Current, "callCompleted", "callCompleted")
  /\ UNCHANGED cites

EmitCallCompleted ==
  Emit("callCompleted", "tool_call.completed", Current, "toolUsage")

RecordToolUsage ==
  /\ Goto("toolUsage", IF todo = 0 THEN "turn" ELSE "toolCall")
  /\ Book("usage.tool", Current)

-----------------------------------------------------------------------------
(* run, after the last model call.                                         *)

AppendText ==
  /\ HasText
  /\ AddItem("text", "text", 0, "messageCompleted", "fail")
  /\ UNCHANGED cites

SkipText ==
  /\ ~HasText
  /\ Goto("text", "messageCompleted")
  /\ UNCHANGED <<durable, emitter, loop, transport, faults, ran>>

EmitMessageCompleted ==
  Emit("messageCompleted", "message.completed", 0, "usageUpdated")

EmitUsageUpdated == Emit("usageUpdated", "usage.updated", 0, "modelUsage")

(* recordUsage writes nothing for a quantity of 0.                         *)
RecordModelUsage ==
  /\ Goto("modelUsage", "complete")
  /\ \/ Book("usage.model", 0)
     \/ UNCHANGED <<durable, emitter, loop, transport, faults, ran>>

(* Mutant of CompleteMessage: the error of the write is dropped.            *)
CompleteMessageIgnored ==
  /\ Goto("complete", "responseCompleted")
  /\ \/ status' = "completed" /\ UNCHANGED faults
     \/ Fault /\ UNCHANGED status
  /\ UNCHANGED <<log, toolRows, user, books, emitter, loop, transport, ran>>

CompleteMessage ==
  /\ pc = "complete"
  /\ \/ status' = "completed" /\ pc' = "responseCompleted" /\ UNCHANGED faults
     \/ Fault /\ pc' = "fail" /\ status' \in {status, "completed"}
  /\ UNCHANGED <<log, toolRows, user, books, emitter, loop, transport, ran>>

EmitResponseCompleted ==
  Emit("responseCompleted", "response.completed", 0, "auditCompleted")

(* Mutant of AuditCompleted: a lost audit row fails the response.           *)
AuditCompletedStrict ==
  /\ pc = "auditCompleted"
  /\ Book("response.completed", 0)
  /\ pc' = IF faults' = faults THEN "final" ELSE "fail"

AuditCompleted == Goto("auditCompleted", "final") /\ Book("response.completed", 0)

-----------------------------------------------------------------------------
(* fail, and the last envelope of either path.                             *)

FailMessage ==
  /\ Goto("fail", "auditFailed")
  /\ \/ status' = "failed" /\ UNCHANGED faults
     \/ Fault /\ UNCHANGED status
  /\ UNCHANGED <<log, toolRows, user, books, emitter, loop, transport, ran>>

AuditFailed == Goto("auditFailed", "emitFailed") /\ Book("response.failed", 0)

EmitResponseFailed == Emit("emitFailed", "response.failed", 0, "final")

(* A plain send: it does not look at the context.  Then the channel is     *)
(* closed and the root span ended.                                         *)
SendFinal ==
  /\ Goto("final", "ended")
  /\ Room
  /\ sent' = Append(sent, Final)
  /\ UNCHANGED <<durable, emitter, loop, taken, handler, ctx, faults, ran>>

-----------------------------------------------------------------------------
(* The handler's loop over the channel.  It never gets to the closed       *)
(* channel: the last envelope, which is always sent, makes it return.      *)

HandlerTakes(last) ==
  /\ handler = "streaming"
  /\ taken < Len(sent)
  /\ last <=> sent[taken + 1] = Final
  /\ taken' = taken + 1
  /\ UNCHANGED <<durable, pc, emitter, loop, sent, ctx, faults, ran>>

HandlerWrite == HandlerTakes(FALSE) /\ UNCHANGED handler

(* The connection is gone, or the server's write timeout has passed.       *)
HandlerWriteError == HandlerTakes(FALSE) /\ handler' = "broken"

HandlerFinish == HandlerTakes(TRUE) /\ handler' = "finished"

CancelContext ==
  /\ ctx = "live"
  /\ ctx' = "done"
  /\ UNCHANGED <<durable, pc, emitter, loop, sent, taken, handler, faults, ran>>

(* net/http ends the context when it notices that the client is gone ...   *)
Disconnect == handler \in {"calling", "streaming"} /\ CancelContext

(* ... and whenever the handler has returned.                              *)
HandlerReturned ==
  /\ pc # "crashed"
  /\ handler \in {"rejected", "finished", "broken"}
  /\ CancelContext

(* The process dies: goroutine and handler with it, the rows stay.         *)
Crash ==
  /\ pc # "crashed"
  /\ pc' = "crashed"
  /\ handler' = IF handler \in {"calling", "streaming"} THEN "crashed" ELSE handler
  /\ UNCHANGED <<durable, emitter, loop, sent, taken, ctx, faults, ran>>

-----------------------------------------------------------------------------
Init ==
  /\ log = <<>> /\ items = <<>> /\ calls = <<>> /\ results = {}
  /\ user = "none" /\ status = "none" /\ books = {}
  /\ pc = "ensure" /\ resume = "final" /\ pending = Final
  /\ seq = 0 /\ unheard = {} /\ itemSeq = 0 /\ iter = 0 /\ todo = 0 /\ cites = 0
  /\ sent = <<>> /\ taken = 0 /\ handler = "calling" /\ ctx = "live"
  /\ faults = 0 /\ ran = {}

Prepare == \/ EnsureConversation \/ CreateUserMessage
           \/ AppendUserItem \/ CreateAssistantMessage

Loop == \/ EmitCreated \/ AuditCreated \/ BuildModelMessages \/ BeginTurn
        \/ RecvDelta \/ RecvError \/ RecvEOF \/ ModelFailed \/ ModelSucceeded

Tool == \/ CreateToolCall \/ EmitCallCreated \/ AppendCallItem
        \/ ExecuteTool \/ ToolNotFound \/ CallFailed \/ EmitCallFailed
        \/ CallSucceeded \/ SaveResult \/ AppendCitation \/ EmitCitationAdded
        \/ AppendResultItem \/ EmitCallCompleted \/ RecordToolUsage

Finish == \/ AppendText \/ SkipText \/ EmitMessageCompleted \/ EmitUsageUpdated
          \/ RecordModelUsage \/ CompleteMessage \/ EmitResponseCompleted
          \/ AuditCompleted \/ FailMessage \/ AuditFailed
          \/ EmitResponseFailed \/ SendFinal

Goroutine == Prepare \/ Loop \/ Tool \/ Push \/ Finish
Handler   == HandlerWrite \/ HandlerWriteError \/ HandlerFinish

Next == Goroutine \/ Handler \/ Disconnect \/ HandlerReturned \/ Crash

Spec == Init /\ [][Next]_vars

(* Database, model and tool calls return (the last two have timeouts), a   *)
(* write to the client returns or fails at the write timeout, and net/http *)
(* cancels the context of a request whose handler has returned.  Nobody    *)
(* has to disconnect or crash.                                             *)
FairSpec == Spec /\ WF_vars(Goroutine) /\ WF_vars(Handler) /\ WF_vars(HandlerReturned)
=============================================================================
