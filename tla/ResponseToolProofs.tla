------------------------- MODULE ResponseToolProofs -------------------------
(***************************************************************************)
(* What ResponseRun promises beyond its stream: no tool runs before the    *)
(* intent to run it is on record; row, log and client agree on the outcome;*)
(* a completed response is whole and booked; tool events are nested and    *)
(* stand behind items.                                                     *)
(***************************************************************************)
EXTENDS ResponseProofs, FiniteSetTheorems

LEMMA IntentInit == Init => IntentInv
  BY DEF Init, IntentInv, IntentOnRecord, At

(* An event logged stays logged.                                           *)
LEMMA LoggedStays ==
  ASSUME log \in Seq(Event), NEW event \in Event, log' = Append(log, event),
         NEW type, NEW call, Logged(type, call)
  PROVE  Logged(type, call)'
<1>1. PICK i \in DOMAIN log : log[i].type = type /\ log[i].call = call
  BY DEF Logged
<1>2. i \in DOMAIN log' /\ log'[i] = log[i]
  BY AppendFacts
<1>. QED
  BY <1>1, <1>2 DEF Logged

LEMMA IntentEmit ==
  ASSUME TypeInv, IntentInv, EmitStep
  PROVE  IntentInv'
<1>1. PICK at \in PCs \ (Halted \cup {"push"}), type \in EventTypes,
           call \in Nat, next \in Resumes :
             /\ Emit(at, type, call, next)
             /\ next = "callItem" => type = "tool_call.created" /\ call = Current
  BY EmitForm
<1> DEFINE event == [type |-> type, call |-> call, seq |-> seq + 1]
<1>2. log \in Seq(Event) /\ event \in Event
  BY DEF TypeInv, TypeOK, Event
<1>3. UNCHANGED <<calls, ran, Current>>
  BY <1>1 DEF Emit, toolRows, Current
<1>4. CASE log' = Append(log, event) /\ resume' = next /\ pc' = "push"
  <2>1. IntentOnRecord'
    BY <1>2, <1>3, <1>4, LoggedStays DEF IntentInv, IntentOnRecord
  <2>2. ASSUME next = "callItem" PROVE Logged("tool_call.created", Current)'
    <3>1. log'[Len(log) + 1] = event /\ Len(log) + 1 \in DOMAIN log'
      BY <1>2, <1>4, AppendFacts
    <3>2. event.type = "tool_call.created" /\ event.call = Current'
      BY <1>1, <1>3, <2>2
    <3>. QED
      BY <3>1, <3>2 DEF Logged
  <2>3. At' = next /\ next # "execute"
    BY <1>4 DEF At, Resumes
  <2>. QED
    BY <2>1, <2>2, <2>3 DEF IntentInv
<1>5. CASE log' \in {log, Append(log, event)} /\ pc' = OnEmitError(type)
  <2>1. At' \notin {"callItem", "execute"}
    BY <1>5 DEF At, OnEmitError
  <2>2. CASE UNCHANGED log
    BY <1>3, <2>1, <2>2 DEF IntentInv, IntentOnRecord, Logged
  <2>3. CASE log' = Append(log, event)
    BY <1>2, <1>3, <2>1, <2>3, LoggedStays DEF IntentInv, IntentOnRecord
  <2>. QED
    BY <1>5, <2>2, <2>3
<1>. QED
  BY <1>1, <1>4, <1>5 DEF Emit

LEMMA IntentPush ==
  ASSUME IntentInv, Push
  PROVE  IntentInv'
<1>1. UNCHANGED <<calls, ran, log, resume>> /\ pc = "push"
      /\ pc' \in {resume, OnEmitError(pending.type)}
  BY DEF Push, durable, toolRows, emitter
<1>2. At' \in {At, "fail", "final", resume'}
  BY <1>1 DEF At, OnEmitError
<1>3. At = resume /\ UNCHANGED Current
  BY <1>1 DEF At, Current
<1>. QED
  BY <1>1, <1>2, <1>3 DEF IntentInv, IntentOnRecord, Logged

(* A new call does not touch those before it.                              *)
LEMMA IntentCreate ==
  ASSUME TypeInv, IntentInv, CreateToolCall
  PROVE  IntentInv'
<1>1. UNCHANGED <<ran, log>> /\ pc' \in {"callCreated", "fail"}
  BY DEF CreateToolCall
<1>2. DOMAIN calls \subseteq DOMAIN calls'
  <2>1. calls \in Seq({"running", "succeeded", "failed"})
    BY DEF TypeInv, TypeOK
  <2>2. calls' \in {calls, Append(calls, "running")}
    BY DEF CreateToolCall
  <2>. QED
    BY <2>1, <2>2, AppendFacts
<1>. QED
  BY <1>1, <1>2 DEF IntentInv, IntentOnRecord, Logged, At

(* The tool that is started is the current call, whose creation is logged. *)
LEMMA IntentExecute ==
  ASSUME TypeInv, IntentInv, ExecuteTool
  PROVE  IntentInv'
<1>1. /\ pc = "execute" /\ ran' = ran \cup {Current}
      /\ pc' \in {"callSucceeded", "callFailed", "fail"}
      /\ UNCHANGED <<log, calls>>
  BY DEF ExecuteTool, durable, toolRows
<1>2. Logged("tool_call.created", Current)
  BY <1>1 DEF IntentInv, At
<1>3. Current \in DOMAIN calls
  BY <1>1, CurrentIsACall DEF InCall, TypeInv, TypeOK
<1>. QED
  BY <1>1, <1>2, <1>3 DEF IntentInv, IntentOnRecord, Logged, At

(* No other step starts a tool, comes to where one is started, or forgets  *)
(* a call.                                                                 *)
LEMMA Unrelated ==
  ASSUME [Next]_vars, ~EmitStep, ~Push, ~CreateToolCall, ~ExecuteTool
  PROVE  /\ UNCHANGED ran
         /\ CallFailed \/ CallSucceeded \/ UNCHANGED calls
         /\ pc' = "push" => pc = "push" /\ UNCHANGED resume
         /\ pc' \in {"callItem", "execute"} => pc \in {"callItem", "execute"}
<1> USE DEF Goto, durable, toolRows, emitter
<1>1. CASE Prepare
  BY <1>1 DEF Prepare, EnsureConversation, CreateUserMessage, AppendUserItem,
              CreateAssistantMessage, Reject
<1>2. CASE AuditCreated \/ ModelFailed \/ ModelSucceeded \/ RecordToolUsage \/ RecordModelUsage
             \/ AuditCompleted \/ AuditFailed
  BY <1>2 DEF AuditCreated, ModelFailed, ModelSucceeded, RecordToolUsage, RecordModelUsage,
              AuditCompleted, AuditFailed, Book
<1>3. CASE AppendCallItem \/ AppendCitation \/ AppendResultItem \/ AppendText
  BY <1>3 DEF AppendCallItem, AppendCitation, AppendResultItem, AppendText, AddItem
<1>4. CASE BuildModelMessages \/ BeginTurn \/ RecvError \/ RecvEOF \/ SkipText
             \/ CompleteMessage \/ FailMessage \/ SendFinal
  BY <1>4 DEF BuildModelMessages, BeginTurn, RecvError, RecvEOF, SkipText, CompleteMessage,
              FailMessage, SendFinal
<1>5. CASE ToolNotFound \/ CallFailed \/ CallSucceeded \/ SaveResult
  BY <1>5 DEF ToolNotFound, CallFailed, CallSucceeded, SaveResult
<1>6. CASE Handler \/ Disconnect \/ HandlerReturned \/ Crash
  BY <1>6 DEF Handler, HandlerWrite, HandlerWriteError, HandlerFinish, HandlerTakes,
              Disconnect, HandlerReturned, CancelContext, Crash
<1>7. CASE UNCHANGED vars
  BY <1>7 DEF vars
<1>. QED
  BY <1>1, <1>2, <1>3, <1>4, <1>5, <1>6, <1>7
     DEF Next, Goroutine, Loop, Tool, Finish, EmitStep

LEMMA IntentQuiet ==
  ASSUME TypeInv, IntentInv, [Next]_vars, ~EmitStep, ~Push, ~CreateToolCall, ~ExecuteTool
  PROVE  IntentInv'
<1>1. UNCHANGED log
  BY StepClasses DEF Quiet
<1>2. DOMAIN calls' = DOMAIN calls /\ Len(calls') = Len(calls)
  <2> DEFINE Statuses == {"running", "succeeded", "failed"}
  <2>1. calls \in Seq(Statuses) /\ calls' \in Seq(Statuses)
    BY TypeStep DEF TypeInv, TypeOK
  <2>2. CASE CallFailed \/ CallSucceeded
    <3>1. Len(calls') = Len(calls)
      BY <2>1, <2>2, ExceptType DEF CallFailed, CallSucceeded
    <3>. QED
      BY <2>1, <3>1
  <2>3. CASE UNCHANGED calls
    BY <2>3
  <2>. QED
    BY <2>2, <2>3, Unrelated
<1>3. UNCHANGED ran /\ (At' \in {"callItem", "execute"} => At \in {"callItem", "execute"})
  BY Unrelated DEF At
<1>. QED
  BY <1>1, <1>2, <1>3 DEF IntentInv, IntentOnRecord, Logged, Current

LEMMA IntentStep == TypeInv /\ IntentInv /\ [Next]_vars => IntentInv'
  BY IntentEmit, IntentPush, IntentCreate, IntentExecute, IntentQuiet

(* Whatever dies or fails in the middle of a tool, its call is on record.  *)
THEOREM IntentIsOnRecord == Spec => []IntentOnRecord
<1>1. Spec => [](TypeInv /\ IntentInv)
  BY TypeInit, TypeStep, IntentInit, IntentStep, PTL DEF Spec
<1>2. TypeInv /\ IntentInv => IntentOnRecord
  BY DEF IntentInv
<1>. QED
  BY <1>1, <1>2, PTL

-----------------------------------------------------------------------------
(* What each step does to the log and to the place of the goroutine, for   *)
(* the invariants that say what holds at each place.                       *)

(* What each emit says, from where, and where the run goes on after it.    *)
Announces(at, type, call, next) ==
  \/ at = "created" /\ type = "response.created" /\ call = 0 /\ next = "auditCreated"
  \/ at = "recv" /\ type = "message.delta" /\ call = 0 /\ next = "recv"
  \/ at = "callCreated" /\ type = "tool_call.created" /\ call = Current /\ next = "callItem"
  \/ at = "emitCallFailed" /\ type = "tool_call.failed" /\ call = Current /\ next = "fail"
  \/ at = "citationAdded" /\ type = "citation.added" /\ call = Current /\ next = "citation"
  \/ at = "callCompleted" /\ type = "tool_call.completed" /\ call = Current /\ next = "toolUsage"
  \/ at = "messageCompleted" /\ type = "message.completed" /\ call = 0 /\ next = "usageUpdated"
  \/ at = "usageUpdated" /\ type = "usage.updated" /\ call = 0 /\ next = "modelUsage"
  \/ at = "responseCompleted" /\ type = "response.completed" /\ call = 0 /\ next = "auditCompleted"
  \/ at = "emitFailed" /\ type = "response.failed" /\ call = 0 /\ next = "final"

EventOf(type, call) == [type |-> type, call |-> call, seq |-> seq + 1]

(* The emit as its effect: the event is logged, or the run has failed, the *)
(* event logged all the same or not.                                       *)
EmitsAs(at, type, call, next) ==
  /\ Announces(at, type, call, next)
  /\ pc = at /\ At = at
  /\ EventOf(type, call) \in Event /\ log \in Seq(Event)
  /\ UNCHANGED <<toolRows, messages, books, loop, transport, ran>>
  /\ \/ /\ log' = Append(log, EventOf(type, call))
        /\ pending' = EventOf(type, call) /\ resume' = next
        /\ pc' = "push" /\ At' = next
        /\ UNCHANGED <<unheard, faults>>
     \/ /\ faults' # 0
        /\ pc' = OnEmitError(type) /\ At' = OnEmitError(type)
        /\ \/ UNCHANGED <<log, unheard>>
           \/ /\ log' = Append(log, EventOf(type, call))
              /\ unheard' = unheard \cup {EventOf(type, call).seq}

LEMMA EmitEffect ==
  ASSUME TypeInv, EmitStep
  PROVE  \E at, type, call, next : EmitsAs(at, type, call, next)
<1>0. Current \in Nat /\ faults \in Nat /\ seq \in Nat /\ log \in Seq(Event)
  BY ConstantsAssumption DEF TypeInv, TypeOK, Current
<1>1. \E at \in PCs \ {"push"}, type \in EventTypes, call \in Nat, next \in Resumes :
        Announces(at, type, call, next) /\ Emit(at, type, call, next)
  <2> USE DEF Announces, PCs, EventTypes, Resumes
  <2>1. CASE EmitCreated
    BY <2>1 DEF EmitCreated
  <2>2. CASE RecvDelta
    BY <2>2 DEF RecvDelta
  <2>3. CASE EmitCallCreated
    BY <1>0, <2>3 DEF EmitCallCreated
  <2>4. CASE EmitCallFailed
    BY <1>0, <2>4 DEF EmitCallFailed
  <2>5. CASE EmitCitationAdded
    BY <1>0, <2>5 DEF EmitCitationAdded
  <2>6. CASE EmitCallCompleted
    BY <1>0, <2>6 DEF EmitCallCompleted
  <2>7. CASE EmitMessageCompleted
    BY <2>7 DEF EmitMessageCompleted
  <2>8. CASE EmitUsageUpdated
    BY <2>8 DEF EmitUsageUpdated
  <2>9. CASE EmitResponseCompleted
    BY <2>9 DEF EmitResponseCompleted
  <2>10. CASE EmitResponseFailed
    BY <2>10 DEF EmitResponseFailed
  <2>. QED
    BY <2>1, <2>2, <2>3, <2>4, <2>5, <2>6, <2>7, <2>8, <2>9, <2>10 DEF EmitStep
<1>2. PICK at \in PCs \ {"push"}, type \in EventTypes, call \in Nat, next \in Resumes :
        Announces(at, type, call, next) /\ Emit(at, type, call, next)
  BY <1>1
<1>3. pc = at /\ At = at
  BY <1>2 DEF Emit, At
<1>4. UNCHANGED <<toolRows, messages, books, loop, transport, ran>>
  BY <1>2 DEF Emit
<1>5. EventOf(type, call) \in Event
  BY <1>0 DEF EventOf, Event
<1>6. OnEmitError(type) # "push"
  BY DEF OnEmitError
<1>7. EmitsAs(at, type, call, next)
  BY <1>0, <1>2, <1>3, <1>4, <1>5, <1>6 DEF EmitsAs, Emit, EventOf, At, Fault
<1>. QED
  BY <1>7

LEMMA PushEffect ==
  ASSUME TypeInv, Push
  PROVE  /\ UNCHANGED <<durable, emitter, loop, taken, handler, ctx, faults, ran>>
         /\ pc = "push"
         /\ \/ At' = At /\ pc' = resume /\ sent' = Append(sent, pending)
            \/ /\ ctx = "done" /\ At' \in {"fail", "final"} /\ pc' = At'
               /\ At' = OnEmitError(pending.type) /\ UNCHANGED sent
<1>1. resume # "push"
  BY DEF TypeInv, TypeOK, Resumes
<1>. QED
  BY <1>1 DEF Push, At, OnEmitError, emitter

(* What is said to be logged after an event was appended.                  *)
LEMMA LoggedGrows ==
  ASSUME log \in Seq(Event), NEW event \in Event, log' = Append(log, event)
  PROVE  /\ \A type, call :
              Logged(type, call)' <=> Logged(type, call) \/ (event.type = type /\ event.call = call)
         /\ HasText' <=> HasText \/ event.type = "message.delta"
<1>1. /\ \A i \in 1 .. Len(log) : log'[i] = log[i]
      /\ log'[Len(log) + 1] = event
      /\ DOMAIN log = 1 .. Len(log) /\ DOMAIN log' = 1 .. Len(log) + 1
      /\ Len(log) \in Nat
  BY AppendFacts
<1>2. DOMAIN log' = DOMAIN log \cup {Len(log) + 1}
  BY <1>1
<1>. QED
  BY <1>1, <1>2 DEF Logged, HasText

(* A success that was not heard of stays so.                               *)
LEMMA UnheardGrows ==
  ASSUME log \in Seq(Event), NEW event \in Event,
         log' = Append(log, event), unheard \subseteq unheard'
  PROVE  /\ SuccessUnheard => SuccessUnheard'
         /\ event.type = "response.completed" /\ event.seq \in unheard' => SuccessUnheard'
<1>1. /\ \A i \in 1 .. Len(log) : log'[i] = log[i]
      /\ log'[Len(log) + 1] = event
      /\ DOMAIN log = 1 .. Len(log) /\ DOMAIN log' = 1 .. Len(log) + 1
      /\ Len(log) \in Nat
  BY AppendFacts
<1>2. DOMAIN log' = DOMAIN log \cup {Len(log) + 1}
  BY <1>1
<1>. QED
  BY <1>1, <1>2 DEF SuccessUnheard

-----------------------------------------------------------------------------
(* The message and the log agree on the outcome.                           *)

LEMMA OutcomeInit == Init => OutcomeInv
  BY DEF Init, OutcomeInv, BothOutcomesOnlyIfCutOrUnheard, Logged, At, Preparing

LEMMA OutcomeEmit ==
  ASSUME TypeInv, SeqInv, OutcomeInv, EmitStep
  PROVE  OutcomeInv'
<1> DEFINE Done == Logged("response.completed", 0)
           Failed == Logged("response.failed", 0)
<1>1. PICK at, type, call, next : EmitsAs(at, type, call, next)
  BY EmitEffect
<1>2. /\ UNCHANGED <<status, ctx>>
      /\ At = at /\ Announces(at, type, call, next)
  BY <1>1 DEF EmitsAs, messages, transport
<1>3. ~Failed
  BY <1>1 DEF EmitsAs, SeqInv, FailedLogged, Logged, Halted, Announces
<1>6. ASSUME log' = Append(log, EventOf(type, call)), unheard \subseteq unheard'
      PROVE  /\ Done' <=> Done \/ (type = "response.completed" /\ call = 0)
             /\ Failed' <=> Failed \/ (type = "response.failed" /\ call = 0)
             /\ SuccessUnheard => SuccessUnheard'
  BY <1>1, <1>6, LoggedGrows, UnheardGrows DEF EmitsAs, EventOf
<1>4. CASE /\ log' = Append(log, EventOf(type, call)) /\ At' = next
           /\ UNCHANGED <<unheard, faults>>
  <2> HIDE DEF Done, Failed
  <2>. QED
    BY <1>2, <1>3, <1>4, <1>6
       DEF OutcomeInv, BothOutcomesOnlyIfCutOrUnheard, Announces, Preparing, Done, Failed
<1>5. CASE UNCHANGED <<log, unheard>> /\ faults' # 0 /\ At' = OnEmitError(type)
  <2>1. UNCHANGED <<Done, Failed, SuccessUnheard>>
    BY <1>5 DEF Logged, SuccessUnheard
  <2>. QED
    BY <1>2, <1>3, <1>5, <2>1
       DEF OutcomeInv, BothOutcomesOnlyIfCutOrUnheard, Announces, Preparing, OnEmitError
<1>7. CASE /\ log' = Append(log, EventOf(type, call))
           /\ unheard' = unheard \cup {EventOf(type, call).seq}
           /\ faults' # 0 /\ At' = OnEmitError(type)
  <2>1. type = "response.completed" => SuccessUnheard'
    <3>1. EventOf(type, call).type = type /\ EventOf(type, call).seq \in unheard'
      BY <1>7 DEF EventOf
    <3>. QED
      BY <1>1, <1>7, <3>1, UnheardGrows DEF EmitsAs
  <2>2. unheard \subseteq unheard'
    BY <1>7
  <2>3. /\ Done' <=> Done \/ (type = "response.completed" /\ call = 0)
        /\ Failed' <=> Failed \/ (type = "response.failed" /\ call = 0)
        /\ SuccessUnheard => SuccessUnheard'
    BY <1>6, <1>7, <2>2
  <2> HIDE DEF Done, Failed
  <2>. QED
    BY <1>2, <1>3, <1>7, <2>1, <2>3
       DEF OutcomeInv, BothOutcomesOnlyIfCutOrUnheard, Announces, Preparing, OnEmitError,
           Done, Failed
<1>. QED
  BY <1>1, <1>4, <1>5, <1>7 DEF EmitsAs

LEMMA OutcomePush ==
  ASSUME TypeInv, SeqInv, OutcomeInv, Push
  PROVE  OutcomeInv'
<1> DEFINE Done == Logged("response.completed", 0)
           Failed == Logged("response.failed", 0)
<1>1. /\ UNCHANGED <<status, ctx, faults, log, unheard>>
      /\ \/ At' = At
         \/ /\ ctx = "done" /\ At' = OnEmitError(pending.type) /\ At' \in {"fail", "final"}
            /\ At = resume /\ pending.type # "response.failed" => At # "final"
  BY PushEffect DEF durable, messages, emitter, At, SeqInv, OnEmitError
<1>2. UNCHANGED <<Done, Failed, SuccessUnheard>>
  BY <1>1 DEF Logged, SuccessUnheard
<1> HIDE DEF Done, Failed
<1>3. CASE At' = At
  BY <1>1, <1>2, <1>3 DEF OutcomeInv, BothOutcomesOnlyIfCutOrUnheard, Done, Failed
<1>4. CASE ctx = "done" /\ At' \in {"fail", "final"} /\ At' = OnEmitError(pending.type)
  <2>1. At \in Resumes /\ At \notin Preparing
    BY PushEffect DEF At, TypeInv, TypeOK, Resumes, Preparing
  <2>. QED
    BY <1>1, <1>2, <1>4, <2>1
      DEF OutcomeInv, BothOutcomesOnlyIfCutOrUnheard, Done, Failed, Preparing, Resumes
<1>. QED
  BY <1>1, <1>3, <1>4

LEMMA OutcomeQuiet ==
  ASSUME TypeInv, SeqInv, OutcomeInv, [Next]_vars, ~EmitStep, ~Push
  PROVE  OutcomeInv'
<1> DEFINE Done == Logged("response.completed", 0)
           Failed == Logged("response.failed", 0)
<1>0. Quiet
  BY StepClasses
<1>1. UNCHANGED <<Done, Failed, SuccessUnheard>> /\ UNCHANGED resume
  BY <1>0 DEF Logged, SuccessUnheard, Quiet, emitter
<1>2. Failed => At \in {"final", "ended", "crashed", "rejected"}
  BY DEF SeqInv, Logged, FailedLogged, At, Halted
<1>3. faults \in Nat
  BY ConstantsAssumption DEF TypeInv, TypeOK
<1> HIDE DEF Done, Failed
<1> USE <1>1, <1>2, <1>3
    DEF OutcomeInv, BothOutcomesOnlyIfCutOrUnheard, At, Preparing, Goto, Fault, CtxFault,
        durable, messages, loop, transport
<1>4. CASE Prepare
  BY <1>4 DEF Prepare, EnsureConversation, CreateUserMessage, AppendUserItem,
              CreateAssistantMessage, Reject, Done, Failed
<1>5. CASE AuditCreated \/ ModelFailed \/ ModelSucceeded \/ RecordToolUsage \/ RecordModelUsage
             \/ AuditCompleted \/ AuditFailed
  BY <1>5 DEF AuditCreated, ModelFailed, ModelSucceeded, RecordToolUsage, RecordModelUsage,
              AuditCompleted, AuditFailed, Book, Done, Failed
<1>6. CASE AppendCallItem \/ AppendCitation \/ AppendResultItem \/ AppendText
  BY <1>6 DEF AppendCallItem, AppendCitation, AppendResultItem, AppendText, AddItem, Done, Failed
<1>7. CASE BuildModelMessages \/ BeginTurn \/ RecvError \/ RecvEOF \/ SkipText
             \/ CompleteMessage \/ FailMessage \/ SendFinal
  BY <1>7 DEF BuildModelMessages, BeginTurn, RecvError, RecvEOF, SkipText, CompleteMessage,
              FailMessage, SendFinal, Done, Failed
<1>8. CASE CreateToolCall \/ ExecuteTool \/ ToolNotFound \/ CallFailed \/ CallSucceeded
             \/ SaveResult
  BY <1>8 DEF CreateToolCall, ExecuteTool, ToolNotFound, CallFailed, CallSucceeded, SaveResult,
              Done, Failed
<1>9. CASE Handler \/ Disconnect \/ HandlerReturned \/ Crash
  BY <1>9 DEF Handler, HandlerWrite, HandlerWriteError, HandlerFinish, HandlerTakes,
              Disconnect, HandlerReturned, CancelContext, Crash, Done, Failed
<1>10. CASE UNCHANGED vars
  BY <1>10 DEF vars, Done, Failed
<1>. QED
  BY <1>4, <1>5, <1>6, <1>7, <1>8, <1>9, <1>10
     DEF Next, Goroutine, Loop, Tool, Finish, EmitStep

LEMMA OutcomeStep == TypeInv /\ SeqInv /\ OutcomeInv /\ [Next]_vars => OutcomeInv'
  BY OutcomeEmit, OutcomePush, OutcomeQuiet

LEMMA OutcomeAlways == Spec => [](StreamInv /\ OutcomeInv)
<1>1. StreamInv /\ OutcomeInv /\ [Next]_vars => OutcomeInv'
  BY OutcomeStep DEF StreamInv
<1>. QED
  BY <1>1, StreamAlways, OutcomeInit, PTL DEF Spec

(* The message and the log tell the same end: success only of a message    *)
(* that left in_progress, and failure of exactly the failed ones as long   *)
(* as the database takes every write (orchestrator.go:333-371).            *)
THEOREM OutcomeIsAgreed == Spec => []OutcomeAgrees
<1>1. OutcomeInv => OutcomeAgrees
  <2>1. At = pc \/ pc = "push"
    BY DEF At
  <2>. QED
    BY <2>1 DEF OutcomeInv, OutcomeAgrees, At
<1>. QED
  BY <1>1, OutcomeAlways, PTL

(* Only a request that was cut, or whose run was told that its success is  *)
(* not logged when it is, can leave both outcomes in its log, however many *)
(* calls of the database fail, with or without effect.                     *)
THEOREM OnlyCutOrUnheardLogsBoth == Spec => []BothOutcomesOnlyIfCutOrUnheard
<1>1. OutcomeInv => BothOutcomesOnlyIfCutOrUnheard
  BY DEF OutcomeInv
<1>. QED
  BY <1>1, OutcomeAlways, PTL

-----------------------------------------------------------------------------
(* Once the outcome is certain nothing but the report of it is left.       *)
LEMMA ClosingSteps ==
  ASSUME TypeInv, [Next]_vars, ~EmitStep, ~Push, At \in Closing
  PROVE  /\ At' \in Closing
         /\ UNCHANGED <<toolRows, user, iter>>
         /\ status' \in {status, "failed"}
         /\ pc = "auditCompleted" => pc' \in {"auditCompleted", "final", "crashed"}
<1>1. pc = "push" \/ pc \in Closing
  BY DEF At
<1> USE <1>1 DEF At, Closing, Goto, durable, toolRows, messages, emitter, loop, transport
<1>2. CASE Prepare
  BY <1>2 DEF Prepare, EnsureConversation, CreateUserMessage, AppendUserItem,
              CreateAssistantMessage, Reject
<1>3. CASE AuditCreated \/ ModelFailed \/ ModelSucceeded \/ RecordToolUsage \/ RecordModelUsage
             \/ AuditCompleted \/ AuditFailed
  BY <1>3 DEF AuditCreated, ModelFailed, ModelSucceeded, RecordToolUsage, RecordModelUsage,
              AuditCompleted, AuditFailed, Book
<1>4. CASE AppendCallItem \/ AppendCitation \/ AppendResultItem \/ AppendText
  BY <1>4 DEF AppendCallItem, AppendCitation, AppendResultItem, AppendText, AddItem
<1>5. CASE BuildModelMessages \/ BeginTurn \/ RecvError \/ RecvEOF \/ SkipText
             \/ CompleteMessage \/ FailMessage \/ SendFinal
  BY <1>5 DEF BuildModelMessages, BeginTurn, RecvError, RecvEOF, SkipText, CompleteMessage,
              FailMessage, SendFinal
<1>6. CASE CreateToolCall \/ ExecuteTool \/ ToolNotFound \/ CallFailed \/ CallSucceeded
             \/ SaveResult
  BY <1>6 DEF CreateToolCall, ExecuteTool, ToolNotFound, CallFailed, CallSucceeded, SaveResult
<1>7. CASE Handler \/ Disconnect \/ HandlerReturned \/ Crash
  BY <1>7 DEF Handler, HandlerWrite, HandlerWriteError, HandlerFinish, HandlerTakes,
              Disconnect, HandlerReturned, CancelContext, Crash
<1>8. CASE UNCHANGED vars
  BY <1>8 DEF vars
<1>. QED
  BY <1>2, <1>3, <1>4, <1>5, <1>6, <1>7, <1>8
     DEF Next, Goroutine, Loop, Tool, Finish, EmitStep

(* The client is told one outcome, last.                                   *)

LEMMA ToldInit == Init => ToldInv
  BY DEF Init, ToldInv

LEMMA ToldStep ==
  ASSUME TypeInv, SeqInv, SentInv, ToldInv, [Next]_vars
  PROVE  ToldInv'
<1> DEFINE Told(i) == i = Len(sent) \/ (i + 1 = Len(sent) /\ sent[i + 1] = Final)
           Envelope == Event \cup {Final}
<1>0. sent \in Seq(Envelope) /\ pending \in Envelope /\ Final \in Envelope /\ Len(sent) \in Nat
  BY SentTypes
<1>1. CASE EmitStep
  <2>1. PICK at, type, call, next : EmitsAs(at, type, call, next)
    BY <1>1, EmitEffect
  <2>2. \A i \in DOMAIN sent' : sent'[i].type # "response.completed"
    BY <2>1 DEF EmitsAs, Announces, ToldInv, transport
  <2>3. pc' = "push" /\ pending'.type = "response.completed" => resume' = "auditCompleted"
    BY <2>1 DEF EmitsAs, Announces, EventOf, OnEmitError
  <2>. QED
    BY <2>2, <2>3 DEF ToldInv
<1>2. CASE Push
  <2>1. \A i \in DOMAIN sent : sent[i].type # "response.completed"
    BY <1>2 DEF Push, ToldInv
  <2>2. CASE pc' = resume /\ sent' = Append(sent, pending)
    <3>1. /\ Len(sent') = Len(sent) + 1
          /\ DOMAIN sent' = 1 .. Len(sent) + 1 /\ DOMAIN sent = 1 .. Len(sent)
          /\ \A i \in 1 .. Len(sent) : sent'[i] = sent[i]
          /\ sent'[Len(sent) + 1] = pending
      <4> HIDE DEF Envelope
      <4>. QED
        BY <1>0, <2>2, AppendFacts
    <3>2. \A i \in DOMAIN sent' : sent'[i].type = "response.completed" =>
            i = Len(sent') /\ pending.type = "response.completed"
      BY <1>0, <2>1, <3>1
    <3>3. pending.type = "response.completed" => pc' = "auditCompleted"
      BY <1>2, <2>2 DEF Push, ToldInv
    <3>4. pc' # "push"
      BY <2>2 DEF TypeInv, TypeOK, Resumes
    <3>. QED
      BY <3>2, <3>3, <3>4 DEF ToldInv
  <2>3. CASE pc' = OnEmitError(pending.type) /\ UNCHANGED sent
    BY <2>1, <2>3 DEF ToldInv, OnEmitError
  <2>. QED
    BY <1>2, <2>2, <2>3 DEF Push
<1>3. CASE SendFinal
  <2>1. pc = "final" /\ pc' = "ended" /\ sent' = Append(sent, Final)
    BY <1>3 DEF SendFinal, Goto
  <2>2. /\ Len(sent') = Len(sent) + 1
        /\ DOMAIN sent' = 1 .. Len(sent) + 1 /\ DOMAIN sent = 1 .. Len(sent)
        /\ \A i \in 1 .. Len(sent) : sent'[i] = sent[i]
        /\ sent'[Len(sent) + 1] = Final
    <3> HIDE DEF Envelope
    <3>. QED
      BY <1>0, <2>1, AppendFacts
  <2>3. \A i \in DOMAIN sent : sent[i] # Final
    BY <2>1, SentTypes, FinalIsNoEvent DEF SentInv, Entry, Final
  <2>4. \A i \in DOMAIN sent : sent[i].type = "response.completed" => i = Len(sent)
    BY <1>0, <2>2, <2>3 DEF ToldInv
  <2>5. \A i \in DOMAIN sent' : sent'[i].type = "response.completed" =>
          i + 1 = Len(sent') /\ sent'[i + 1] = Final
    BY <1>0, <2>2, <2>4 DEF Final
  <2>. QED
    BY <2>1, <2>5 DEF ToldInv
<1>4. CASE ~EmitStep /\ ~Push /\ ~SendFinal
  <2>1. /\ UNCHANGED <<sent, pending, resume>>
        /\ pc \in Halted \cup {"push"} => pc' \in {pc, "crashed"}
        /\ pc' = "push" => pc = "push"
        /\ pc = "auditCompleted" => pc' \in {"auditCompleted", "final", "crashed"}
    <3>1. Quiet
      BY <1>4, StepClasses
    <3>2. pc = "auditCompleted" => At \in Closing
      BY DEF At, Closing
    <3>3. Onward => (pc' = "push" => pc = "push")
      BY DEF Onward, Halted, Failing
    <3>. QED
      BY <1>4, <3>1, <3>2, <3>3, Quieter, ClosingSteps DEF Quiet, emitter
  <2>. QED
    BY <2>1 DEF ToldInv, Halted
<1>. QED
  BY <1>1, <1>2, <1>3, <1>4

(* A client is told success or failure, never both, and nothing but the    *)
(* end of the stream after it - even when the log has both                 *)
(* (orchestrator.go:367, 686-700).                                         *)
THEOREM ClientIsToldOneOutcome == Spec => []ClientSeesOneOutcome
<1>1. StreamInv /\ ToldInv /\ [Next]_vars => ToldInv'
  BY ToldStep DEF StreamInv
<1>2. StreamInv /\ ToldInv => ClientSeesOneOutcome
  <2> SUFFICES ASSUME StreamInv, ToldInv, NEW i \in DOMAIN sent, sent[i].type \in Outcomes
               PROVE  i = Len(sent) \/ (i + 1 = Len(sent) /\ sent[i + 1] = Final)
    BY DEF ClientSeesOneOutcome
  <2>1. CASE sent[i].type = "response.completed"
    BY <2>1 DEF ToldInv
  <2>2. CASE sent[i].type = "response.failed"
    BY <2>2 DEF StreamInv, SentInv, Entry, Final
  <2>. QED
    BY <2>1, <2>2 DEF Outcomes
<1>. QED
  BY <1>1, <1>2, ToldInit, StreamAlways, PTL DEF Spec
-----------------------------------------------------------------------------
(* A message marked completed is whole.                                    *)

LEMMA WholeInit == Init => WholeInv
  BY DEF Init, WholeInv, At, Between, InCall, CallsSettled

LEMMA WholeEmit ==
  ASSUME TypeInv, WholeInv, EmitStep
  PROVE  WholeInv'
<1>1. PICK at, type, call, next : EmitsAs(at, type, call, next)
  BY EmitEffect
<1>2. /\ UNCHANGED <<items, calls, results, user, status, Current>>
      /\ At = at /\ Announces(at, type, call, next)
  BY <1>1 DEF EmitsAs, messages, toolRows, Current
<1>3. CASE log' = Append(log, EventOf(type, call)) /\ At' = next
  <2>1. /\ \A t, c : Logged(t, c)' <=> Logged(t, c) \/ (type = t /\ call = c)
        /\ HasText' <=> HasText \/ type = "message.delta"
    BY <1>1, <1>3, LoggedGrows DEF EmitsAs, EventOf
  <2>2. /\ CallsSettled => CallsSettled'
        /\ OthersSettled => OthersSettled'
        /\ MessageTold' <=> MessageTold \/ (type = "message.completed" /\ call = 0)
        /\ UsageTold' <=> UsageTold \/ (type = "usage.updated" /\ call = 0)
        /\ type # "message.delta" /\ TextStored => TextStored'
    BY <1>2, <2>1 DEF CallsSettled, OthersSettled, Settled, TextStored, HasTextItem,
                      MessageTold, UsageTold
  <2>3. next = "toolUsage" => CallsSettled'
    <3> SUFFICES ASSUME next = "toolUsage", NEW c \in DOMAIN calls PROVE Settled(c)'
      BY <1>2 DEF CallsSettled
    <3>1. at = "callCompleted" /\ type = "tool_call.completed" /\ call = Current
      BY <1>2 DEF Announces
    <3>2. CASE Settled(c)
      BY <1>2, <2>1, <3>2 DEF Settled
    <3>3. CASE c = Current
      BY <1>2, <2>1, <3>1, <3>3 DEF Settled, WholeInv
    <3>. QED
      BY <1>2, <3>1, <3>2, <3>3 DEF WholeInv, OthersSettled, InCall
  <2>. QED
    BY <1>2, <1>3, <2>2, <2>3 DEF WholeInv, Announces, Between, InCall, Closing, Preparing
<1>5. CASE log' = Append(log, EventOf(type, call)) /\ At' = OnEmitError(type)
  <2>1. /\ \A t, c : Logged(t, c) => Logged(t, c)'
        /\ HasText' <=> HasText \/ type = "message.delta"
    BY <1>1, <1>5, LoggedGrows DEF EmitsAs, EventOf
  <2>2. /\ CallsSettled => CallsSettled'
        /\ MessageTold => MessageTold'
        /\ UsageTold => UsageTold'
        /\ type # "message.delta" /\ TextStored => TextStored'
    BY <1>2, <2>1 DEF CallsSettled, Settled, TextStored, HasTextItem, MessageTold, UsageTold
  <2>. QED
    BY <1>2, <1>5, <2>2
       DEF WholeInv, Announces, OnEmitError, Between, InCall, Closing, Preparing
<1>4. CASE UNCHANGED log /\ At' = OnEmitError(type)
  <2>1. UNCHANGED <<CallsSettled, TextStored, MessageTold, UsageTold>>
    BY <1>2, <1>4 DEF CallsSettled, Settled, TextStored, HasTextItem, HasText, MessageTold,
                      UsageTold, Logged
  <2>. QED
    BY <1>2, <1>4, <2>1 DEF WholeInv, OnEmitError, Between, InCall, Closing, Preparing
<1>. QED
  BY <1>1, <1>3, <1>4, <1>5 DEF EmitsAs

LEMMA WholePush ==
  ASSUME TypeInv, WholeInv, Push
  PROVE  WholeInv'
<1>1. /\ UNCHANGED <<log, items, calls, results, user, status, Current>>
      /\ At' \in {At, "fail", "final"}
  BY PushEffect DEF durable, toolRows, messages, Current
<1>2. UNCHANGED <<CallsSettled, OthersSettled, TextStored, MessageTold, UsageTold>>
  BY <1>1 DEF CallsSettled, OthersSettled, Settled, TextStored, HasTextItem, HasText,
              MessageTold, UsageTold, Logged
<1>. QED
  BY <1>1, <1>2 DEF WholeInv, Between, InCall, Closing, Preparing

(* The steps that write neither a call nor an item: what they need is      *)
(* there at the place they start from.                                     *)
LEMMA WholeMoves ==
  ASSUME TypeInv, WholeInv, UNCHANGED <<log, resume>>,
         \/ Prepare \/ AuditCreated \/ ModelFailed \/ ModelSucceeded \/ RecordToolUsage
         \/ RecordModelUsage \/ AuditCompleted \/ AuditFailed \/ BuildModelMessages
         \/ BeginTurn \/ RecvError \/ RecvEOF \/ SkipText \/ CompleteMessage \/ FailMessage
         \/ SendFinal \/ ExecuteTool \/ ToolNotFound
         \/ Handler \/ Disconnect \/ HandlerReturned \/ Crash \/ UNCHANGED vars
  PROVE  WholeInv'
<1>0. UNCHANGED toolRows
  BY DEF durable, Prepare, EnsureConversation, CreateUserMessage, AppendUserItem,
         CreateAssistantMessage, AuditCreated, ModelFailed, ModelSucceeded,
         RecordToolUsage, RecordModelUsage, AuditCompleted, AuditFailed, Book,
         BuildModelMessages, BeginTurn, RecvError, RecvEOF, SkipText, CompleteMessage,
         FailMessage, SendFinal, ExecuteTool, ToolNotFound, Handler, HandlerWrite,
         HandlerWriteError, HandlerFinish, HandlerTakes, Disconnect, HandlerReturned,
         CancelContext, Crash, vars
<1>1. UNCHANGED <<items, calls, results, Current>>
  BY <1>0 DEF toolRows, Current
<1>2. UNCHANGED <<CallsSettled, OthersSettled, TextStored, MessageTold, UsageTold>>
  BY <1>1 DEF CallsSettled, OthersSettled, Settled, TextStored, HasTextItem, HasText,
              MessageTold, UsageTold, Logged
<1>3. CallsSettled => OthersSettled
  BY DEF CallsSettled, OthersSettled
<1> USE <1>1, <1>2, <1>3
    DEF WholeInv, At, Between, InCall, Closing, Preparing, Goto, durable, messages, transport
<1>4. CASE Prepare
  BY <1>4 DEF Prepare, EnsureConversation, CreateUserMessage, AppendUserItem,
              CreateAssistantMessage, Reject
<1>5. CASE AuditCreated \/ ModelFailed \/ RecordModelUsage
             \/ AuditCompleted \/ AuditFailed
  BY <1>5 DEF AuditCreated, ModelFailed, RecordModelUsage, AuditCompleted, AuditFailed, Book
<1>6. CASE ModelSucceeded
  BY <1>6 DEF ModelSucceeded, Book
<1>7. CASE RecordToolUsage
  BY <1>7 DEF RecordToolUsage, Book
<1>8. CASE BuildModelMessages \/ BeginTurn \/ RecvError \/ RecvEOF
  BY <1>8 DEF BuildModelMessages, BeginTurn, RecvError, RecvEOF
<1>9. CASE SkipText
  BY <1>9 DEF SkipText, TextStored
<1>10. CASE CompleteMessage \/ FailMessage \/ SendFinal
  BY <1>10 DEF CompleteMessage, FailMessage, SendFinal
<1>11. CASE ExecuteTool \/ ToolNotFound
  BY <1>11 DEF ExecuteTool, ToolNotFound
<1>12. CASE Handler \/ Disconnect \/ HandlerReturned \/ Crash
  BY <1>12 DEF Handler, HandlerWrite, HandlerWriteError, HandlerFinish, HandlerTakes,
               Disconnect, HandlerReturned, CancelContext, Crash
<1>13. CASE UNCHANGED vars
  BY <1>13 DEF vars
<1>. QED
  BY <1>4, <1>5, <1>6, <1>7, <1>8, <1>9, <1>10, <1>11, <1>12, <1>13
LEMMA WholeItems ==
  ASSUME TypeInv, WholeInv, UNCHANGED log,
         AppendCallItem \/ AppendCitation \/ AppendResultItem \/ AppendText
  PROVE  WholeInv'
<1>1. UNCHANGED <<calls, results, user, status, Current, resume>>
  BY DEF AppendCallItem, AppendCitation, AppendResultItem, AppendText, AddItem, messages,
         Current, emitter
<1>2. UNCHANGED <<CallsSettled, OthersSettled, MessageTold, UsageTold>>
  BY <1>1 DEF CallsSettled, OthersSettled, Settled, MessageTold, UsageTold, Logged
<1>3. AppendText => (pc' = "messageCompleted" => HasTextItem')
  <2> SUFFICES ASSUME AppendText, pc' = "messageCompleted" PROVE HasTextItem'
    OBVIOUS
  <2> DEFINE item == [type |-> "text", call |-> 0, seq |-> itemSeq + 1]
  <2>1. items \in Seq(Item) /\ item \in Item
    BY DEF TypeInv, TypeOK, Item, ItemTypes
  <2>2. items' = Append(items, item)
    BY DEF AppendText, AddItem
  <2>3. items'[Len(items) + 1] = item /\ Len(items) + 1 \in DOMAIN items'
    BY <2>1, <2>2, AppendFacts
  <2>. QED
    BY <2>3 DEF HasTextItem
<1> USE <1>1, <1>2 DEF WholeInv, At, Between, InCall, Closing, Preparing, AddItem
<1>4. CASE AppendCallItem
  BY <1>4 DEF AppendCallItem
<1>5. CASE AppendCitation
  BY <1>5 DEF AppendCitation
<1>6. CASE AppendResultItem
  BY <1>6 DEF AppendResultItem
<1>7. CASE AppendText
  <2>1. pc = "text" /\ pc' \in {"messageCompleted", "fail"}
    BY <1>7 DEF AppendText
  <2>2. pc' = "messageCompleted" => TextStored'
    BY <1>3, <1>7 DEF TextStored
  <2>. QED
    BY <2>1, <2>2
<1>. QED
  BY <1>4, <1>5, <1>6, <1>7

(* A new call does not touch those before it, which are settled.           *)
LEMMA WholeCreate ==
  ASSUME TypeInv, WholeInv, UNCHANGED log, CreateToolCall
  PROVE  WholeInv'
<1> DEFINE Statuses == {"running", "succeeded", "failed"}
<1>1. /\ UNCHANGED <<items, results, user, status>>
      /\ pc = "toolCall" /\ At = "toolCall"
  BY DEF CreateToolCall, messages, At
<1>2. UNCHANGED <<TextStored, MessageTold, UsageTold>> /\ CallsSettled /\ user = "item"
      /\ status # "completed"
  BY <1>1 DEF TextStored, HasTextItem, HasText, MessageTold, UsageTold, Logged,
              WholeInv, Between, Closing
<1>3. CASE calls' = Append(calls, "running") /\ pc' = "callCreated"
  <2>1. calls \in Seq(Statuses) /\ "running" \in Statuses
    BY DEF TypeInv, TypeOK
  <2>2. /\ DOMAIN calls = 1 .. Len(calls) /\ DOMAIN calls' = 1 .. Len(calls) + 1
        /\ Current' = Len(calls) + 1 /\ Len(calls) \in Nat
        /\ \A c \in 1 .. Len(calls) : calls'[c] = calls[c]
    <3> HIDE DEF Statuses
    <3>. QED
      BY <1>3, <2>1, AppendFacts DEF Current
  <2>3. OthersSettled'
    <3> SUFFICES ASSUME NEW c \in 1 .. Len(calls) + 1, c # Len(calls) + 1 PROVE Settled(c)'
      BY <2>2 DEF OthersSettled
    <3>1. c \in DOMAIN calls /\ calls'[c] = calls[c]
      BY <2>2
    <3>. QED
      BY <1>1, <1>2, <3>1 DEF CallsSettled, Settled, Logged
  <2>4. At' = "callCreated"
    BY <1>3 DEF At
  <2>. QED
    BY <1>1, <1>2, <2>3, <2>4 DEF WholeInv, Between, InCall, Preparing
<1>4. CASE pc' = "fail"
  <2>1. At' = "fail" /\ status' # "completed"
    BY <1>1, <1>2, <1>4 DEF At, WholeInv, Closing
  <2>. QED
    BY <2>1 DEF WholeInv, Between, InCall, Preparing
<1>. QED
  BY <1>3, <1>4 DEF CreateToolCall

(* The end of a call and its result concern no other call.                 *)
LEMMA WholeEnd ==
  ASSUME TypeInv, WholeInv, UNCHANGED log,
         CallFailed \/ CallSucceeded \/ SaveResult
  PROVE  WholeInv'
<1> DEFINE Statuses == {"running", "succeeded", "failed"}
<1>1. /\ UNCHANGED <<items, user, status, resume>>
      /\ pc \in {"callFailed", "callSucceeded", "saveResult"} /\ At = pc
  BY DEF CallFailed, CallSucceeded, SaveResult, Goto, messages, emitter, At
<1>2. UNCHANGED <<TextStored, MessageTold, UsageTold>> /\ OthersSettled /\ user = "item"
      /\ status # "completed"
  BY <1>1 DEF TextStored, HasTextItem, HasText, MessageTold, UsageTold, Logged,
              WholeInv, InCall, Closing
<1>3. calls \in Seq(Statuses) /\ Current = Len(calls) /\ Current \in 1 .. Len(calls)
  BY <1>1, CurrentIsACall DEF InCall, TypeInv, TypeOK, Current
<1>4. /\ DOMAIN calls' = DOMAIN calls /\ Current' = Current
      /\ \A c \in DOMAIN calls : c # Current => calls'[c] = calls[c]
      /\ results \subseteq results'
  <2>1. CASE calls' \in {calls, [calls EXCEPT ![Current] = "failed"],
                         [calls EXCEPT ![Current] = "succeeded"]}
             /\ results \subseteq results'
    BY <1>3, <2>1 DEF Current
  <2>. QED
    BY <2>1 DEF CallFailed, CallSucceeded, SaveResult
<1>5. OthersSettled'
  BY <1>2, <1>4 DEF OthersSettled, Settled, Logged
<1>6. CASE CallFailed
  <2>1. At' = "emitCallFailed"
    BY <1>6 DEF CallFailed, Goto, At
  <2>. QED
    BY <1>1, <1>2, <1>5, <2>1 DEF WholeInv, Between, InCall, Preparing
<1>7. CASE CallSucceeded
  <2>1. At' = "fail" \/ (At' = "saveResult" /\ calls'[Current'] = "succeeded")
    BY <1>3, <1>4, <1>7 DEF CallSucceeded, At
  <2>. QED
    BY <1>1, <1>2, <1>5, <2>1 DEF WholeInv, Between, InCall, Preparing
<1>8. CASE SaveResult
  <2>1. UNCHANGED calls /\ calls[Current] = "succeeded"
    BY <1>8 DEF SaveResult, WholeInv, At
  <2>2. At' = "fail" \/ (At' = "citation" /\ Current' \in results')
    BY <1>4, <1>8 DEF SaveResult, At
  <2>. QED
    BY <1>1, <1>2, <1>4, <1>5, <2>1, <2>2 DEF WholeInv, Between, InCall, Preparing
<1>. QED
  BY <1>6, <1>7, <1>8

LEMMA WholeStep == TypeInv /\ WholeInv /\ [Next]_vars => WholeInv'
<1> SUFFICES ASSUME TypeInv, WholeInv, [Next]_vars PROVE WholeInv'
  OBVIOUS
<1>1. CASE EmitStep \/ Push
  BY <1>1, WholeEmit, WholePush
<1>2. CASE ~EmitStep /\ ~Push
  <2>1. UNCHANGED <<log, resume>>
    BY <1>2, StepClasses DEF Quiet, emitter
  <2>2. CASE AppendCallItem \/ AppendCitation \/ AppendResultItem \/ AppendText
    BY <2>1, <2>2, WholeItems
  <2>3. CASE CreateToolCall \/ CallFailed \/ CallSucceeded \/ SaveResult
    BY <2>1, <2>3, WholeCreate, WholeEnd
  <2>. QED
    BY <1>2, <2>1, <2>2, <2>3, WholeMoves
       DEF Next, Goroutine, Loop, Tool, Finish, EmitStep
<1>. QED
  BY <1>1, <1>2
LEMMA WholeAlways == Spec => [](TypeInv /\ WholeInv)
  BY TypeInit, TypeStep, WholeInit, WholeStep, PTL DEF Spec

(* A message is marked completed only when the user's input, every tool    *)
(* call with its result, the text and all events of the answer are stored, *)
(* whatever calls of the database fail (orchestrator.go:213-347).          *)
THEOREM CompletedIsWhole == Spec => []CompletionIsWhole
<1>1. WholeInv => CompletionIsWhole
  BY DEF WholeInv, CompletionIsWhole, CallsSettled, Settled, TextStored, HasTextItem,
         MessageTold, UsageTold
<1>. QED
  BY <1>1, WholeAlways, PTL
-----------------------------------------------------------------------------
(* The books of a completed response balance.                              *)

LEMMA BooksInit == Init => BooksInv
  BY DEF Init, BooksInv, CallsBooked, TurnsBooked, At, Awaiting, InCall, Preparing

LEMMA BooksEmit ==
  ASSUME TypeInv, BooksInv, EmitStep
  PROVE  BooksInv'
<1>1. PICK at, type, call, next : EmitsAs(at, type, call, next)
  BY EmitEffect
<1>2. /\ UNCHANGED <<calls, iter, status, books, Current>>
      /\ At = at /\ Announces(at, type, call, next)
      /\ \/ At' = next /\ UNCHANGED faults
         \/ faults' # 0
  BY <1>1 DEF EmitsAs, messages, toolRows, loop, Current
<1>3. UNCHANGED <<CallsBooked, OthersBooked, TurnsBooked, EarlierTurnsBooked>>
  BY <1>2 DEF CallsBooked, OthersBooked, TurnsBooked, EarlierTurnsBooked
<1>. QED
  BY <1>2, <1>3 DEF BooksInv, Announces, Awaiting, InCall, Between, Preparing

LEMMA BooksPush ==
  ASSUME TypeInv, BooksInv, Push
  PROVE  BooksInv'
<1>1. /\ UNCHANGED <<calls, iter, status, books, Current, faults>>
      /\ At' \in {At, "fail", "final"}
  BY PushEffect DEF durable, messages, toolRows, loop, Current
<1>2. UNCHANGED <<CallsBooked, OthersBooked, TurnsBooked, EarlierTurnsBooked>>
  BY <1>1 DEF CallsBooked, OthersBooked, TurnsBooked, EarlierTurnsBooked
<1>. QED
  BY <1>1, <1>2 DEF BooksInv, Awaiting, InCall, Between, Preparing

(* Each turn is booked when it succeeds, each call when it is over.        *)
LEMMA BooksTurn ==
  ASSUME TypeInv, WholeInv, BooksInv,
         BeginTurn \/ ModelSucceeded \/ ModelFailed \/ RecordToolUsage
  PROVE  BooksInv'
<1>1. /\ UNCHANGED <<calls, status, Current>>
      /\ pc \in Between \cup {"toolUsage"} /\ At = pc
      /\ faults \in Nat /\ (faults' = 0 => faults = 0)
  BY ConstantsAssumption
     DEF BeginTurn, ModelSucceeded, ModelFailed, RecordToolUsage, Book, Fault, Goto, At, Between,
         durable, messages, toolRows, Current, TypeInv, TypeOK
<1>2. status # "completed"
  BY <1>1 DEF WholeInv, Between, Closing
<1>3. iter \in Nat
  BY ConstantsAssumption DEF TypeInv, TypeOK
<1>4. CASE BeginTurn
  <2>1. At = "turn" /\ books' = books /\ (pc' = "fail" \/ (iter' = iter + 1 /\ pc' \in Awaiting))
    BY <1>4 DEF BeginTurn, At, durable, Awaiting
  <2>2. At' = pc'
    BY <2>1 DEF At, Awaiting
  <2>3. CallsBooked => CallsBooked'
    <3>1. calls' = calls /\ books' = books
      BY <1>1, <2>1
    <3>. QED
      BY <3>1 DEF CallsBooked
  <2>4. TurnsBooked /\ iter' = iter + 1 => EarlierTurnsBooked'
    <3>1. books' = books
      BY <2>1
    <3>2. \A i \in 1 .. iter + 1 : i \in 1 .. iter \/ i = iter + 1
      BY <1>3
    <3>. QED
      BY <3>1, <3>2 DEF TurnsBooked, EarlierTurnsBooked
  <2>. QED
    BY <1>1, <1>2, <2>1, <2>2, <2>3, <2>4
       DEF BooksInv, Awaiting, InCall, Between, Preparing
<1>5. CASE ModelSucceeded
  <2>1. /\ At = "modelSucceeded" /\ At' \in {"text", "toolCall"} /\ UNCHANGED iter
        /\ faults' = 0 => books' = books \cup {<<"invocation.succeeded", iter>>}
    BY <1>1, <1>5 DEF ModelSucceeded, Book, Goto, At, loop, Fault
  <2>2. /\ faults' = 0 /\ CallsBooked => CallsBooked'
        /\ faults' = 0 /\ EarlierTurnsBooked => TurnsBooked'
    BY <1>1, <2>1 DEF CallsBooked, TurnsBooked, EarlierTurnsBooked
  <2>. QED
    BY <1>1, <1>2, <2>1, <2>2 DEF BooksInv, Awaiting, InCall, Between, Preparing
<1>6. CASE ModelFailed
  <2>1. At' = "fail"
    BY <1>6 DEF ModelFailed, Goto, At
  <2>. QED
    BY <1>1, <1>2, <2>1 DEF BooksInv, Awaiting, InCall, Between, Preparing
<1>7. CASE RecordToolUsage
  <2>1. /\ At = "toolUsage" /\ At' \in {"turn", "toolCall"} /\ UNCHANGED iter
        /\ faults' = 0 => books' = books \cup {<<"usage.tool", Current>>}
    BY <1>1, <1>7 DEF RecordToolUsage, Book, Goto, At, loop, Fault
  <2>2. /\ faults' = 0 /\ OthersBooked => CallsBooked'
        /\ faults' = 0 /\ TurnsBooked => TurnsBooked'
    BY <1>1, <2>1 DEF CallsBooked, OthersBooked, TurnsBooked
  <2>. QED
    BY <1>1, <1>2, <2>1, <2>2 DEF BooksInv, Awaiting, InCall, Between, Preparing
<1>. QED
  BY <1>4, <1>5, <1>6, <1>7

LEMMA BooksCall ==
  ASSUME TypeInv, WholeInv, BooksInv,
         CreateToolCall \/ CallFailed \/ CallSucceeded
  PROVE  BooksInv'
<1> DEFINE Statuses == {"running", "succeeded", "failed"}
<1>1. /\ UNCHANGED <<iter, status, books>>
      /\ pc \in Between \cup InCall /\ At = pc
      /\ faults \in Nat /\ (faults' = 0 => faults = 0)
  BY ConstantsAssumption
     DEF CreateToolCall, CallFailed, CallSucceeded, Fault, Goto, At, Between, InCall,
         messages, loop, TypeInv, TypeOK
<1>2. status # "completed"
  BY <1>1 DEF WholeInv, Between, InCall, Closing
<1>3. calls \in Seq(Statuses) /\ "running" \in Statuses
  BY DEF TypeInv, TypeOK
<1>4. UNCHANGED TurnsBooked
  BY <1>1 DEF TurnsBooked
<1>5. CASE CreateToolCall
  <2>1. \/ At = "toolCall" /\ calls' = Append(calls, "running") /\ At' = "callCreated"
        \/ At = "toolCall" /\ At' = "fail"
    BY <1>5 DEF CreateToolCall, At
  <2>2. calls' = Append(calls, "running") /\ CallsBooked => OthersBooked'
    <3> SUFFICES ASSUME calls' = Append(calls, "running"), CallsBooked,
                        NEW c \in DOMAIN calls'
                 PROVE  <<"usage.tool", c>> \in books' \/ c = Current'
      BY DEF OthersBooked
    <3>1. /\ DOMAIN calls = 1 .. Len(calls) /\ DOMAIN calls' = 1 .. Len(calls) + 1
          /\ Len(calls') = Len(calls) + 1 /\ Len(calls) \in Nat
      <4> HIDE DEF Statuses
      <4>. QED
        BY <1>3, AppendFacts
    <3>2. books' = books
      BY <1>1
    <3>3. c \in DOMAIN calls \/ c = Current'
      BY <3>1 DEF Current
    <3>. QED
      BY <3>2, <3>3 DEF CallsBooked
  <2>. QED
    BY <1>1, <1>2, <1>4, <2>1, <2>2 DEF BooksInv, Awaiting, InCall, Between, Preparing
<1>6. CASE CallFailed \/ CallSucceeded
  <2>1. DOMAIN calls' = DOMAIN calls /\ Len(calls') = Len(calls)
    BY <1>3, <1>6, ExceptType DEF CallFailed, CallSucceeded
  <2>2. UNCHANGED OthersBooked
    BY <1>1, <2>1 DEF OthersBooked, Current
  <2>3. At \in InCall /\ At' \in {"emitCallFailed", "saveResult", "fail"}
    BY <1>6 DEF CallFailed, CallSucceeded, Goto, At, InCall
  <2>. QED
    BY <1>1, <1>2, <1>4, <2>2, <2>3 DEF BooksInv, Awaiting, InCall, Between, Preparing
<1>. QED
  BY <1>5, <1>6
LEMMA BooksMoves ==
  ASSUME TypeInv, WholeInv, BooksInv,
         \/ Prepare \/ AuditCreated
         \/ RecordModelUsage \/ AuditCompleted \/ AuditFailed \/ BuildModelMessages
         \/ RecvError \/ RecvEOF \/ SkipText \/ CompleteMessage \/ FailMessage
         \/ SendFinal \/ ExecuteTool \/ ToolNotFound \/ SaveResult
         \/ AppendCallItem \/ AppendCitation \/ AppendResultItem \/ AppendText
         \/ Handler \/ Disconnect \/ HandlerReturned \/ Crash \/ UNCHANGED vars
  PROVE  BooksInv'
<1>1. /\ UNCHANGED <<calls, iter>> /\ books \subseteq books'
      /\ UNCHANGED resume
  BY DEF durable, loop, toolRows, Prepare, EnsureConversation, CreateUserMessage, AppendUserItem,
         CreateAssistantMessage, AuditCreated, RecordModelUsage, AuditCompleted, AuditFailed, Book,
         BuildModelMessages, RecvError, RecvEOF, SkipText, CompleteMessage, FailMessage,
         SendFinal, ExecuteTool, ToolNotFound, SaveResult, AppendCallItem, AppendCitation,
         AppendResultItem, AppendText, AddItem, Handler, HandlerWrite,
         HandlerWriteError, HandlerFinish, HandlerTakes, Disconnect, HandlerReturned,
         CancelContext, Crash, vars, emitter
<1>2. /\ CallsBooked => CallsBooked'
      /\ OthersBooked => OthersBooked'
      /\ TurnsBooked => TurnsBooked'
      /\ EarlierTurnsBooked => EarlierTurnsBooked'
  <2>1. calls' = calls /\ iter' = iter /\ books \subseteq books'
    BY <1>1
  <2>. QED
    BY <2>1 DEF CallsBooked, OthersBooked, TurnsBooked, EarlierTurnsBooked, Current
<1>3. CallsBooked => OthersBooked
  BY DEF CallsBooked, OthersBooked
<1>4. faults \in Nat
  BY ConstantsAssumption DEF TypeInv, TypeOK
<1>5. status = "completed" => At \in Closing
  BY DEF WholeInv
<1> USE <1>1, <1>2, <1>3, <1>4, <1>5
    DEF BooksInv, Awaiting, At, Between, InCall, Closing, Preparing, Goto, Fault, CtxFault,
        durable, messages, transport
<1>6. CASE Prepare
  BY <1>6 DEF Prepare, EnsureConversation, CreateUserMessage, AppendUserItem,
              CreateAssistantMessage, Reject
<1>7. CASE AuditCreated \/ RecordModelUsage \/ AuditCompleted \/ AuditFailed
  BY <1>7 DEF AuditCreated, RecordModelUsage, AuditCompleted, AuditFailed, Book
<1>8. CASE BuildModelMessages \/ RecvError \/ RecvEOF \/ SkipText
  BY <1>8 DEF BuildModelMessages, RecvError, RecvEOF, SkipText
<1>9. CASE CompleteMessage \/ FailMessage \/ SendFinal
  BY <1>9 DEF CompleteMessage, FailMessage, SendFinal
<1>10. CASE ExecuteTool \/ ToolNotFound \/ SaveResult
  BY <1>10 DEF ExecuteTool, ToolNotFound, SaveResult
<1>11. CASE AppendCallItem \/ AppendCitation \/ AppendResultItem \/ AppendText
  BY <1>11 DEF AppendCallItem, AppendCitation, AppendResultItem, AppendText, AddItem
<1>12. CASE Handler \/ Disconnect \/ HandlerReturned \/ Crash
  BY <1>12 DEF Handler, HandlerWrite, HandlerWriteError, HandlerFinish, HandlerTakes,
               Disconnect, HandlerReturned, CancelContext, Crash
<1>13. CASE UNCHANGED vars
  BY <1>13 DEF vars
<1>. QED
  BY <1>6, <1>7, <1>8, <1>9, <1>10, <1>11, <1>12, <1>13

LEMMA BooksStep == TypeInv /\ WholeInv /\ BooksInv /\ [Next]_vars => BooksInv'
  BY BooksEmit, BooksPush, BooksTurn, BooksCall, BooksMoves
     DEF Next, Goroutine, Loop, Tool, Finish, EmitStep

(* A completed response has every model call and every tool call on the    *)
(* books unless the database refused a row (orchestrator.go:396-432,       *)
(* 520-545).                                                               *)
THEOREM CompletedIsBooked == Spec => []BooksBalance
<1>1. Spec => [](TypeInv /\ WholeInv /\ BooksInv)
  BY WholeAlways, BooksInit, BooksStep, PTL DEF Spec
<1>2. BooksInv => BooksBalance
  BY DEF BooksInv, BooksBalance, CallsBooked, TurnsBooked
<1>. QED
  BY <1>1, <1>2, PTL
-----------------------------------------------------------------------------
(* The tool events of a response do not overlap.                           *)

LEMMA NestedInit == Init => NestedInv
  BY DEF Init, NestedInv, ToolEventsNested, AllNumbered, AllClosed, At, InCall, Preparing

(* What an event adds: it is told of a call that has begun and has not     *)
(* ended, and a call begins when the others are closed.                    *)
LEMMA NestedAppend ==
  ASSUME TypeInv, NestedInv, NEW at, NEW type, NEW call, NEW next,
         EmitsAs(at, type, call, next), log' = Append(log, EventOf(type, call))
  PROVE  ToolEventsNested' /\ AllNumbered'
<1> DEFINE event == EventOf(type, call)
           n == Len(log) + 1
<1>1. event \in Event /\ log \in Seq(Event) /\ UNCHANGED calls
      /\ At = at /\ pc = at /\ Announces(at, type, call, next)
  BY DEF EmitsAs, toolRows
<1>2. /\ \A i \in 1 .. Len(log) : log'[i] = log[i]
      /\ log'[n] = event /\ n \in Nat \ {0} /\ Len(log) \in Nat
      /\ DOMAIN log = 1 .. Len(log) /\ DOMAIN log' = 1 .. n
  BY <1>1, AppendFacts
<1>3. event.type = type /\ event.call = call
  BY DEF EventOf
<1> HIDE DEF event, n
<1>4. IF type \in ToolEvents THEN at \in InCall /\ call = Current /\ Current \in DOMAIN calls
                             ELSE call = 0
  <2>1. IF type \in ToolEvents THEN at \in InCall /\ call = Current ELSE call = 0
    BY <1>1 DEF Announces, ToolEvents, Ends, InCall
  <2>2. at \in InCall => Current \in DOMAIN calls
    BY <1>1, CurrentIsACall DEF TypeInv, TypeOK
  <2>. QED
    BY <2>1, <2>2
<1>5. AllNumbered'
  <2> SUFFICES ASSUME NEW i \in 1 .. n PROVE Numbered(i)'
    BY <1>2 DEF AllNumbered
  <2>1. CASE i \in 1 .. Len(log)
    BY <1>1, <1>2, <2>1 DEF NestedInv, AllNumbered, Numbered
  <2>2. CASE i = n
    BY <1>1, <1>2, <1>3, <1>4, <2>2 DEF Numbered
  <2>. QED
    BY <1>2, <2>1, <2>2 DEF n
<1>6. ASSUME NEW j \in 1 .. n, log'[j].type \in Ends \cup {"citation.added"}
      PROVE  \E k \in 1 .. j - 1 :
               log'[k].type = "tool_call.created" /\ log'[k].call = log'[j].call
  <2>1. CASE j \in 1 .. Len(log)
    <3>1. PICK k \in 1 .. j - 1 : log[k].type = "tool_call.created" /\ log[k].call = log[j].call
      BY <1>2, <1>6, <2>1 DEF NestedInv, ToolEventsNested
    <3>. QED
      BY <1>2, <2>1, <3>1
  <2>2. CASE j = n
    <3>1. at \in InCall \ {"callCreated"} /\ call = Current
      BY <1>1, <1>2, <1>3, <1>6, <2>2 DEF Announces, Ends, InCall
    <3>2. PICK k \in DOMAIN log : log[k].type = "tool_call.created" /\ log[k].call = Current
      BY <1>1, <3>1 DEF NestedInv, Begun, Logged
    <3>. QED
      BY <1>2, <1>3, <2>2, <3>1, <3>2 DEF n
  <2>. QED
    BY <1>2, <2>1, <2>2 DEF n
<1>7. ASSUME NEW i \in 1 .. n, NEW j \in 1 .. n, i < j, log'[i].type \in Ends
      PROVE  log'[j].call # log'[i].call
  <2>1. i \in 1 .. Len(log) /\ log'[i] = log[i]
    BY <1>2, <1>7 DEF n
  <2>2. CASE j \in 1 .. Len(log)
    BY <1>2, <1>7, <2>1, <2>2 DEF NestedInv, ToolEventsNested
  <2>3. CASE j = n
    <3>1. CASE type \in ToolEvents
      <4>1. At \in InCall \ {"toolUsage"} /\ call = Current
        BY <1>1, <3>1 DEF Announces, ToolEvents, Ends, InCall
      <4>. QED
        BY <1>2, <1>3, <1>7, <2>1, <2>3, <4>1 DEF NestedInv, NotEnded
    <3>2. CASE type \notin ToolEvents
      <4>1. log[i].call \in DOMAIN calls
        BY <1>2, <1>7, <2>1 DEF NestedInv, AllNumbered, Numbered, ToolEvents
      <4>2. log[i].call # 0
        BY <4>1 DEF TypeInv, TypeOK
      <4>. QED
        BY <1>2, <1>3, <1>4, <2>1, <2>3, <3>2, <4>2
    <3>. QED
      BY <3>1, <3>2
  <2>. QED
    BY <1>2, <2>2, <2>3 DEF n
<1>8. ASSUME NEW i \in 1 .. n, NEW j \in 1 .. n, i < j,
             log'[i].type = "tool_call.created", log'[j].type = "tool_call.created"
      PROVE  \E k \in i + 1 .. j - 1 :
               log'[k].type = "tool_call.completed" /\ log'[k].call = log'[i].call
  <2>1. i \in 1 .. Len(log) /\ log'[i] = log[i]
    BY <1>2, <1>8 DEF n
  <2>2. CASE j \in 1 .. Len(log)
    <3>1. PICK k \in i + 1 .. j - 1 :
            log[k].type = "tool_call.completed" /\ log[k].call = log[i].call
      BY <1>2, <1>8, <2>1, <2>2 DEF NestedInv, ToolEventsNested
    <3>2. k \in 1 .. Len(log)
      BY <1>2, <2>1, <2>2
    <3>. QED
      BY <1>2, <2>1, <3>1, <3>2
  <2>3. CASE j = n
    <3>1. At = "callCreated"
      BY <1>1, <1>2, <1>3, <1>8, <2>3 DEF Announces
    <3>2. PICK k \in i + 1 .. Len(log) :
            log[k].type = "tool_call.completed" /\ log[k].call = log[i].call
      BY <1>2, <1>8, <2>1, <3>1 DEF NestedInv, AllClosed, IsCreation, Closed
    <3>3. k \in 1 .. Len(log) /\ k \in i + 1 .. j - 1
      BY <1>2, <2>1, <2>3 DEF n
    <3>. QED
      BY <1>2, <2>1, <3>2, <3>3
  <2>. QED
    BY <1>2, <2>2, <2>3 DEF n
<1>9. ToolEventsNested'
  BY <1>2, <1>6, <1>7, <1>8 DEF ToolEventsNested
<1>. QED
  BY <1>5, <1>9
LEMMA NestedEmit ==
  ASSUME TypeInv, NestedInv, EmitStep
  PROVE  NestedInv'
<1>1. PICK at, type, call, next : EmitsAs(at, type, call, next)
  BY EmitEffect
<1>2. At = at /\ Announces(at, type, call, next) /\ UNCHANGED <<calls, Current>>
  BY <1>1 DEF EmitsAs, toolRows, Current
<1>3. CASE log' = Append(log, EventOf(type, call)) /\ At' = next
  <2> DEFINE event == EventOf(type, call)
             n == Len(log) + 1
  <2>1. event \in Event /\ log \in Seq(Event)
    BY <1>1 DEF EmitsAs
  <2>2. /\ \A i \in 1 .. Len(log) : log'[i] = log[i]
        /\ log'[n] = event /\ n \in Nat \ {0} /\ Len(log) \in Nat
        /\ DOMAIN log = 1 .. Len(log) /\ DOMAIN log' = 1 .. n /\ Len(log') = n
        /\ \A i \in 1 .. n : i \in 1 .. Len(log) \/ i = n
    BY <1>3, <2>1, AppendFacts
  <2>3. event.type = type /\ event.call = call
    BY DEF EventOf
  <2> HIDE DEF event, n
  <2>4. \A i \in 1 .. Len(log) : Closed(i) => Closed(i)'
    <3> SUFFICES ASSUME NEW i \in 1 .. Len(log), Closed(i) PROVE Closed(i)'
      OBVIOUS
    <3>1. PICK k \in i + 1 .. Len(log) :
            log[k].type = "tool_call.completed" /\ log[k].call = log[i].call
      BY DEF Closed
    <3>2. k \in 1 .. Len(log) /\ k \in i + 1 .. n
      BY <2>2 DEF n
    <3>. QED
      BY <2>2, <3>1, <3>2 DEF Closed
  <2>5. next \in Between \cup {"callCreated", "toolUsage"} => AllClosed'
    <3> SUFFICES ASSUME next \in Between \cup {"callCreated", "toolUsage"},
                        NEW i \in 1 .. n, IsCreation(i)'
                 PROVE  Closed(i)'
      BY <2>2 DEF AllClosed
    <3>1. type # "tool_call.created"
      BY <1>2 DEF Announces, Between
    <3>2. i \in 1 .. Len(log) /\ IsCreation(i)
      BY <2>2, <2>3, <3>1 DEF IsCreation
    <3>3. CASE Closed(i)
      BY <2>4, <3>2, <3>3
    <3>4. CASE ~Closed(i)
      <4>1. at \in InCall
        BY <1>2, <2>2, <3>2, <3>4 DEF NestedInv, AllClosed, Announces, Between, InCall
      <4>2. type = "tool_call.completed" /\ call = Current
        BY <1>2, <4>1 DEF Announces, InCall, Between
      <4>3. log[i].call = Current
        BY <1>2, <2>2, <3>2, <3>4, <4>1 DEF NestedInv, OthersClosed
      <4>4. n \in i + 1 .. Len(log')
        BY <2>2, <3>2 DEF n
      <4>. QED
        BY <2>2, <2>3, <3>2, <4>2, <4>3, <4>4 DEF Closed
    <3>. QED
      BY <3>3, <3>4
  <2>6. next \in InCall => OthersClosed'
    <3> SUFFICES ASSUME next \in InCall, NEW i \in 1 .. n, IsCreation(i)', ~Closed(i)'
                 PROVE  log'[i].call = Current
      BY <1>2, <2>2 DEF OthersClosed
    <3>1. at \in InCall /\ call = Current
      BY <1>2 DEF Announces, InCall
    <3>2. CASE i \in 1 .. Len(log)
      BY <1>2, <2>2, <2>4, <3>1, <3>2 DEF NestedInv, OthersClosed, IsCreation
    <3>3. CASE i = n
      BY <2>2, <2>3, <3>1, <3>3
    <3>. QED
      BY <2>2, <3>2, <3>3
  <2>7. next \in InCall \ {"toolUsage"} => NotEnded'
    <3> SUFFICES ASSUME next \in InCall \ {"toolUsage"}, NEW i \in 1 .. n,
                        log'[i].type \in Ends
                 PROVE  log'[i].call # Current
      BY <1>2, <2>2 DEF NotEnded
    <3>1. at \in InCall \ {"toolUsage"} /\ type \notin Ends
      BY <1>2 DEF Announces, InCall, Ends
    <3>. QED
      BY <1>2, <2>2, <2>3, <3>1 DEF NestedInv, NotEnded
  <2>8. next \in InCall \ {"callCreated"} => Begun'
    <3> SUFFICES ASSUME next \in InCall PROVE Logged("tool_call.created", Current)'
      BY DEF Begun
    <3>1. at \in InCall /\ (at # "callCreated" \/ (type = "tool_call.created" /\ call = Current))
      BY <1>2 DEF Announces, InCall
    <3>2. \A t, c : Logged(t, c)' <=> Logged(t, c) \/ (type = t /\ call = c)
      BY <1>3, <2>1, <2>3, LoggedGrows DEF event
    <3>3. at # "callCreated" => Logged("tool_call.created", Current)
      BY <1>2, <3>1 DEF NestedInv, Begun
    <3>4. PICK c : c = Current
      OBVIOUS
    <3>5. Logged("tool_call.created", c)'
      BY <3>1, <3>2, <3>3, <3>4
    <3>. QED
      BY <1>2, <3>4, <3>5 DEF Logged
  <2>9. next \notin Preparing \cup {"callCreated"}
    BY <1>2 DEF Announces, Preparing
  <2>10. ToolEventsNested' /\ AllNumbered'
    BY <1>1, <1>3, NestedAppend
  <2>. QED
    BY <1>3, <2>5, <2>6, <2>7, <2>8, <2>9, <2>10 DEF NestedInv
<1>4. CASE UNCHANGED log /\ At' = OnEmitError(type)
  <2>1. UNCHANGED <<ToolEventsNested, AllNumbered>>
    BY <1>2, <1>4 DEF ToolEventsNested, AllNumbered, Numbered
  <2>. QED
    BY <1>4, <2>1 DEF NestedInv, OnEmitError, Between, InCall, Preparing
<1>5. CASE log' = Append(log, EventOf(type, call)) /\ At' = OnEmitError(type)
  <2>1. ToolEventsNested' /\ AllNumbered'
    BY <1>1, <1>5, NestedAppend
  <2>. QED
    BY <1>5, <2>1 DEF NestedInv, OnEmitError, Between, InCall, Preparing
<1>. QED
  BY <1>1, <1>3, <1>4, <1>5 DEF EmitsAs

(* Where log and current call stay, only the place counts.                 *)
LEMMA NestedSame ==
  ASSUME NestedInv, UNCHANGED log, Len(calls') = Len(calls), DOMAIN calls' = DOMAIN calls
  PROVE  /\ UNCHANGED <<AllClosed, OthersClosed, Fresh, Begun, NotEnded>>
         /\ ToolEventsNested' /\ AllNumbered'
         /\ AllClosed => OthersClosed
<1>1. UNCHANGED Current
  BY DEF Current
<1>. QED
  BY <1>1 DEF NestedInv, ToolEventsNested, AllNumbered, Numbered, AllClosed, OthersClosed,
              Fresh, Begun, NotEnded, IsCreation, Closed, Logged

LEMMA NestedPush ==
  ASSUME TypeInv, NestedInv, Push
  PROVE  NestedInv'
<1>1. UNCHANGED <<log, calls>> /\ At' \in {At, "fail", "final"}
  BY PushEffect DEF durable, toolRows
<1>. QED
  BY <1>1, NestedSame DEF NestedInv, Between, InCall, Preparing

LEMMA NestedCreate ==
  ASSUME TypeInv, NestedInv, UNCHANGED log, CreateToolCall
  PROVE  NestedInv'
<1> DEFINE Statuses == {"running", "succeeded", "failed"}
<1>1. pc = "toolCall" /\ At = "toolCall"
  BY DEF CreateToolCall, At
<1>0. ASSUME calls' = Append(calls, "running")
      PROVE  /\ DOMAIN calls = 1 .. Len(calls) /\ DOMAIN calls' = 1 .. Len(calls) + 1
             /\ Current' = Len(calls) + 1 /\ Len(calls) \in Nat
             /\ AllNumbered' /\ ToolEventsNested'
  <2>1. calls \in Seq(Statuses) /\ "running" \in Statuses
    BY DEF TypeInv, TypeOK
  <2>2. /\ DOMAIN calls = 1 .. Len(calls) /\ DOMAIN calls' = 1 .. Len(calls) + 1
        /\ Current' = Len(calls) + 1 /\ Len(calls) \in Nat
    <3> HIDE DEF Statuses
    <3>. QED
      BY <1>0, <2>1, AppendFacts DEF Current
  <2>3. AllNumbered' /\ ToolEventsNested'
    BY <2>2 DEF NestedInv, AllNumbered, Numbered, ToolEventsNested
  <2>. QED
    BY <2>2, <2>3
<1>2. CASE calls' = Append(calls, "running") /\ pc' = "callCreated"
  <2>2. /\ DOMAIN calls = 1 .. Len(calls) /\ DOMAIN calls' = 1 .. Len(calls) + 1
        /\ Current' = Len(calls) + 1 /\ Len(calls) \in Nat
    BY <1>0, <1>2
  <2>3. AllNumbered' /\ ToolEventsNested'
    BY <1>0, <1>2
  <2>4. Fresh'
    <3> SUFFICES ASSUME NEW i \in DOMAIN log PROVE log[i].call # Len(calls) + 1
      BY <2>2 DEF Fresh
    <3>1. log[i].call \in 0 .. Len(calls)
      BY <2>2 DEF NestedInv, AllNumbered, Numbered
    <3>. QED
      BY <2>2, <3>1
  <2>5. NotEnded'
    BY <2>4 DEF Fresh, NotEnded
  <2>6. AllClosed /\ AllClosed' /\ OthersClosed'
    BY <1>1 DEF NestedInv, Between, AllClosed, OthersClosed, IsCreation, Closed
  <2>8. At' = "callCreated"
    BY <1>2 DEF At
  <2>. QED
    BY <2>3, <2>4, <2>5, <2>6, <2>8 DEF NestedInv
<1>3. CASE pc' = "fail" /\ UNCHANGED calls
  BY <1>3, NestedSame DEF NestedInv, At, Between, InCall, Preparing
<1>4. CASE pc' = "fail" /\ calls' = Append(calls, "running")
  BY <1>0, <1>4 DEF NestedInv, At, Between, InCall, Preparing
<1>. QED
  BY <1>2, <1>3, <1>4 DEF CreateToolCall

LEMMA NestedMoves ==
  ASSUME TypeInv, NestedInv, UNCHANGED <<log, resume>>,
         [Next]_vars, ~EmitStep, ~Push, ~CreateToolCall
  PROVE  NestedInv'
<1>1. Len(calls') = Len(calls) /\ DOMAIN calls' = DOMAIN calls
  <2> DEFINE Statuses == {"running", "succeeded", "failed"}
  <2>1. calls \in Seq(Statuses)
    BY DEF TypeInv, TypeOK
  <2>2. CallFailed \/ CallSucceeded \/ UNCHANGED calls
    <3>1. ExecuteTool => UNCHANGED calls
      BY DEF ExecuteTool, durable, toolRows
    <3>. QED
      BY <3>1, Unrelated
  <2>. QED
    BY <2>1, <2>2, ExceptType DEF CallFailed, CallSucceeded
<1>2. /\ UNCHANGED <<AllClosed, OthersClosed, Fresh, Begun, NotEnded>>
      /\ ToolEventsNested' /\ AllNumbered'
      /\ AllClosed => OthersClosed
  BY <1>1, NestedSame
<1> USE <1>2 DEF NestedInv, At, Between, InCall, Preparing, Goto
<1>3. CASE Prepare
  BY <1>3 DEF Prepare, EnsureConversation, CreateUserMessage, AppendUserItem,
              CreateAssistantMessage, Reject
<1>4. CASE AuditCreated \/ ModelFailed \/ ModelSucceeded \/ RecordToolUsage \/ RecordModelUsage
             \/ AuditCompleted \/ AuditFailed
  BY <1>4 DEF AuditCreated, ModelFailed, ModelSucceeded, RecordToolUsage, RecordModelUsage,
              AuditCompleted, AuditFailed, Book
<1>5. CASE AppendCallItem \/ AppendCitation \/ AppendResultItem \/ AppendText
  BY <1>5 DEF AppendCallItem, AppendCitation, AppendResultItem, AppendText, AddItem
<1>6. CASE BuildModelMessages \/ BeginTurn \/ RecvError \/ RecvEOF \/ SkipText
             \/ CompleteMessage \/ FailMessage \/ SendFinal
  BY <1>6 DEF BuildModelMessages, BeginTurn, RecvError, RecvEOF, SkipText, CompleteMessage,
              FailMessage, SendFinal
<1>7. CASE ExecuteTool \/ ToolNotFound \/ CallFailed \/ CallSucceeded \/ SaveResult
  BY <1>7 DEF ExecuteTool, ToolNotFound, CallFailed, CallSucceeded, SaveResult
<1>8. CASE Handler \/ Disconnect \/ HandlerReturned \/ Crash
  BY <1>8 DEF Handler, HandlerWrite, HandlerWriteError, HandlerFinish, HandlerTakes,
              Disconnect, HandlerReturned, CancelContext, Crash
<1>9. CASE UNCHANGED vars
  BY <1>9 DEF vars
<1>. QED
  BY <1>3, <1>4, <1>5, <1>6, <1>7, <1>8, <1>9
     DEF Next, Goroutine, Loop, Tool, Finish, EmitStep

LEMMA NestedStep == TypeInv /\ NestedInv /\ [Next]_vars => NestedInv'
<1> SUFFICES ASSUME TypeInv, NestedInv, [Next]_vars PROVE NestedInv'
  OBVIOUS
<1>1. CASE EmitStep \/ Push
  BY <1>1, NestedEmit, NestedPush
<1>2. CASE ~EmitStep /\ ~Push
  <2>1. UNCHANGED <<log, resume>>
    BY <1>2, StepClasses DEF Quiet, emitter
  <2>. QED
    BY <1>2, <2>1, NestedCreate, NestedMoves
<1>. QED
  BY <1>1, <1>2

(* Replaying a log tells the calls apart: each begins when the one before  *)
(* completed, has its citations, and ends once, whatever fails on the way  *)
(* (orchestrator.go:435-548).                                              *)
THEOREM ToolEventsAreNested == Spec => []ToolEventsNested
<1>1. Spec => [](TypeInv /\ NestedInv)
  BY TypeInit, TypeStep, NestedInit, NestedStep, PTL DEF Spec
<1>2. NestedInv => ToolEventsNested
  BY DEF NestedInv
<1>. QED
  BY <1>1, <1>2, PTL
-----------------------------------------------------------------------------
(* The items of a message.                                                 *)

LEMMA OrderInit == Init => OrderInv
  BY DEF Init, OrderInv, HasTextItem

(* An item is added with the next number, and none behind the text.        *)
LEMMA OrderAdd ==
  ASSUME TypeInv, OrderInv,
         AppendCallItem \/ AppendCitation \/ AppendResultItem \/ AppendText
  PROVE  OrderInv'
<1> DEFINE Adds(at, type, call, next, failed) ==
             /\ AddItem(at, type, call, next, failed)
             /\ at \in {"callItem", "citation", "text"}
             /\ type \in ItemTypes /\ call \in Nat
             /\ next # "push" /\ failed # "push"
             /\ type = "text" => next = "messageCompleted" /\ failed = "fail"
<1>1. PICK at, type, call, next, failed : Adds(at, type, call, next, failed)
  <2>0. Current \in Nat
    BY DEF TypeInv, TypeOK, Current
  <2> USE DEF ItemTypes
  <2>1. AppendCallItem => Adds("callItem", "tool_call", Current, "execute", "execute")
    BY <2>0 DEF AppendCallItem
  <2>2. AppendCitation => Adds("citation", "citation", Current, "citationAdded", "fail")
    BY <2>0 DEF AppendCitation
  <2>3. AppendResultItem =>
          Adds("citation", "tool_result", Current, "callCompleted", "callCompleted")
    BY <2>0 DEF AppendResultItem
  <2>4. AppendText => Adds("text", "text", 0, "messageCompleted", "fail")
    BY DEF AppendText
  <2> HIDE DEF Adds
  <2>5. CASE AppendCallItem
    BY <2>1, <2>5
  <2>6. CASE AppendCitation
    BY <2>2, <2>6
  <2>7. CASE AppendResultItem
    BY <2>3, <2>7
  <2>8. CASE AppendText
    BY <2>4, <2>8
  <2>. QED
    BY <2>5, <2>6, <2>7, <2>8
<1> DEFINE item == [type |-> type, call |-> call, seq |-> itemSeq + 1]
           n == Len(items) + 1
<1>2. items \in Seq(Item) /\ item \in Item /\ itemSeq \in Nat
  BY <1>1 DEF TypeInv, TypeOK, Item
<1>3. itemSeq' = itemSeq + 1 /\ At \in {"callItem", "citation", "text"}
  BY <1>1 DEF AddItem, At
<1>4. \A i \in DOMAIN items : items[i].type # "text"
  BY <1>3 DEF OrderInv, HasTextItem, Closing
<1>5. \A i \in DOMAIN items : items[i].seq \in Nat
  <2>1. \A i \in DOMAIN items : items[i] \in Item
    BY <1>2
  <2>. QED
    BY <2>1 DEF Item
<1>6. CASE items' = Append(items, item) /\ pc' \in {next, failed}
  <2>1. /\ \A i \in 1 .. Len(items) : items'[i] = items[i]
        /\ items'[n] = item /\ Len(items) \in Nat
        /\ DOMAIN items = 1 .. Len(items) /\ DOMAIN items' = 1 .. n
        /\ \A i \in 1 .. n : i \in 1 .. Len(items) \/ i = n
    BY <1>2, <1>6, AppendFacts
  <2>2. item.type = type /\ item.seq = itemSeq + 1
    OBVIOUS
  <2> HIDE DEF item
  <2>3. \A i \in 1 .. Len(items) : /\ items[i].seq <= itemSeq /\ items[i].seq \in Nat
                                   /\ items[i].type # "text"
    BY <1>4, <1>5, <2>1 DEF OrderInv
  <2>4. \A i, j \in 1 .. n : i < j => /\ items'[i].seq < items'[j].seq
                                      /\ items'[i].type # "text"
    <3> SUFFICES ASSUME NEW i \in 1 .. n, NEW j \in 1 .. n, i < j
                 PROVE  items'[i].seq < items'[j].seq /\ items'[i].type # "text"
      OBVIOUS
    <3>1. i \in 1 .. Len(items)
      BY <2>1
    <3>2. CASE j \in 1 .. Len(items)
      BY <2>1, <3>1, <3>2 DEF OrderInv
    <3>3. CASE j = n
      BY <1>2, <2>1, <2>2, <2>3, <3>1, <3>3
    <3>. QED
      BY <2>1, <3>2, <3>3
  <2>5. \A i \in 1 .. n : items'[i].seq <= itemSeq'
    BY <1>2, <1>3, <2>1, <2>2, <2>3
  <2>6. HasTextItem' => pc' \in {"messageCompleted", "fail"}
    BY <1>1, <1>6, <2>1, <2>2, <2>3 DEF HasTextItem
  <2>. QED
    BY <2>1, <2>4, <2>5, <2>6 DEF OrderInv, At, Closing
<1>7. CASE UNCHANGED items
  <2>1. \A i \in DOMAIN items : items[i].seq <= itemSeq'
    BY <1>2, <1>3, <1>5 DEF OrderInv
  <2>2. ~HasTextItem'
    BY <1>4, <1>7 DEF HasTextItem
  <2>. QED
    BY <1>7, <2>1, <2>2 DEF OrderInv
<1>. QED
  BY <1>1, <1>6, <1>7 DEF AddItem

(* No other step adds an item, or goes back behind the text.               *)
LEMMA OrderKept ==
  ASSUME TypeInv, OrderInv, [Next]_vars,
         ~(AppendCallItem \/ AppendCitation \/ AppendResultItem \/ AppendText)
  PROVE  OrderInv'
<1> DEFINE Late == {"messageCompleted", "usageUpdated", "modelUsage", "complete"} \cup Closing
<1>1. UNCHANGED <<items, itemSeq>> /\ (At \in Late => At' \in Late)
  <2>1. CASE EmitStep
    <3>1. PICK at, type, call, next : EmitsAs(at, type, call, next)
      BY <2>1, EmitEffect
    <3>2. UNCHANGED <<items, itemSeq>>
      BY <3>1 DEF EmitsAs, toolRows, loop
    <3>3. At \in Late => At' \in Late
      BY <3>1 DEF EmitsAs, Announces, OnEmitError, Closing
    <3>. QED
      BY <3>2, <3>3
  <2>2. CASE Push
    BY <2>2, PushEffect DEF durable, toolRows, loop, Closing
  <2>3. CASE ~EmitStep /\ ~Push
    <3>1. UNCHANGED resume
      BY <2>3, StepClasses DEF Quiet, emitter
    <3> USE <3>1 DEF At, Closing, Goto, durable, toolRows, loop
    <3>2. CASE Prepare
      BY <3>2 DEF Prepare, EnsureConversation, CreateUserMessage, AppendUserItem,
                  CreateAssistantMessage, Reject
    <3>3. CASE AuditCreated \/ ModelFailed \/ ModelSucceeded \/ RecordToolUsage
                 \/ RecordModelUsage \/ AuditCompleted \/ AuditFailed
      BY <3>3 DEF AuditCreated, ModelFailed, ModelSucceeded, RecordToolUsage, RecordModelUsage,
                  AuditCompleted, AuditFailed, Book
    <3>4. CASE BuildModelMessages \/ BeginTurn \/ RecvError \/ RecvEOF \/ SkipText
                 \/ CompleteMessage \/ FailMessage \/ SendFinal
      BY <3>4 DEF BuildModelMessages, BeginTurn, RecvError, RecvEOF, SkipText, CompleteMessage,
                  FailMessage, SendFinal
    <3>5. CASE CreateToolCall \/ ExecuteTool \/ ToolNotFound \/ CallFailed \/ CallSucceeded
                 \/ SaveResult
      BY <3>5 DEF CreateToolCall, ExecuteTool, ToolNotFound, CallFailed, CallSucceeded, SaveResult
    <3>6. CASE Handler \/ Disconnect \/ HandlerReturned \/ Crash
      BY <3>6 DEF Handler, HandlerWrite, HandlerWriteError, HandlerFinish, HandlerTakes,
                  Disconnect, HandlerReturned, CancelContext, Crash
    <3>7. CASE UNCHANGED vars
      BY <3>7 DEF vars
    <3>. QED
      BY <2>3, <3>2, <3>3, <3>4, <3>5, <3>6, <3>7
         DEF Next, Goroutine, Loop, Tool, Finish, EmitStep
  <2>. QED
    BY <2>1, <2>2, <2>3
<1>. QED
  BY <1>1 DEF OrderInv, HasTextItem
LEMMA OrderStep == TypeInv /\ OrderInv /\ [Next]_vars => OrderInv'
  BY OrderAdd, OrderKept

LEMMA MarksAreCounted ==
  ASSUME NEW S, NEW s \in Seq(S), NEW type, NEW call
  PROVE  /\ IsFiniteSet(Marked(s, type, call))
         /\ Cardinality(Marked(s, type, call)) \in Nat
<1>1. Len(s) \in Nat /\ DOMAIN s = 1 .. Len(s)
  OBVIOUS
<1>2. IsFiniteSet(1 .. Len(s))
  BY <1>1, FS_Interval
<1>3. Marked(s, type, call) \in SUBSET (1 .. Len(s))
  BY <1>1 DEF Marked
<1>. QED
  BY <1>2, <1>3, FS_Subset, FS_CardinalityType

(* The entries of one type and one call, counted as a sequence grows.      *)
LEMMA MarksGrow ==
  ASSUME NEW S, NEW s \in Seq(S), NEW e \in S, NEW type, NEW call
  PROVE  Cardinality(Marked(Append(s, e), type, call)) =
           Cardinality(Marked(s, type, call)) + IF e.type = type /\ e.call = call THEN 1 ELSE 0
<1> DEFINE t == Append(s, e)
           n == Len(s) + 1
           Old == Marked(s, type, call)
           New == Marked(t, type, call)
<1>1. /\ \A i \in 1 .. Len(s) : t[i] = s[i]
      /\ t[n] = e /\ Len(s) \in Nat
      /\ DOMAIN s = 1 .. Len(s) /\ DOMAIN t = 1 .. n
      /\ \A i \in 1 .. n : i \in 1 .. Len(s) \/ i = n
      /\ n \notin 1 .. Len(s) /\ 1 .. Len(s) \subseteq 1 .. n /\ n \in 1 .. n
  BY AppendFacts
<1>2. IsFiniteSet(Old)
  BY MarksAreCounted
<1> HIDE DEF t, n
<1>3. CASE e.type = type /\ e.call = call
  <2>1. New = Old \cup {n} /\ n \notin Old
    BY <1>1, <1>3 DEF Marked
  <2> HIDE DEF New, Old
  <2>2. Cardinality(New) = Cardinality(Old) + 1
    BY <1>2, <2>1, FS_AddElement
  <2>. QED
    BY <1>3, <2>2 DEF New, Old, t
<1>4. CASE ~(e.type = type /\ e.call = call)
  <2>1. New = Old
    BY <1>1, <1>4 DEF Marked
  <2> HIDE DEF New, Old
  <2>2. Cardinality(New) = Cardinality(Old) + 0
    BY <1>2, <2>1, FS_CardinalityType
  <2>. QED
    BY <1>4, <2>2 DEF New, Old, t
<1>. QED
  BY <1>3, <1>4

LEMMA CitationInit == Init => CitationInv
  BY DEF Init, CitationInv, At

(* A citation.added is logged only where an item was added before.         *)
LEMMA CitationEmit ==
  ASSUME TypeInv, CitationInv, EmitStep
  PROVE  CitationInv'
<1>1. PICK at, type, call, next : EmitsAs(at, type, call, next)
  BY EmitEffect
<1>2. /\ At = at /\ Announces(at, type, call, next) /\ UNCHANGED <<items, calls>>
      /\ EventOf(type, call) \in Event /\ log \in Seq(Event)
  BY <1>1 DEF EmitsAs, toolRows
<1>3. \A c : CitationItems(c)' = CitationItems(c)
  BY <1>2 DEF CitationItems
<1>4. At' # "citationAdded"
  BY <1>1 DEF EmitsAs, Announces, OnEmitError
<1>5. ASSUME NEW c \in 1 .. Len(calls)
      PROVE  Cardinality(CitationEvents(c)') <= Cardinality(CitationItems(c))
  <2>1. Cardinality(CitationEvents(c)) <= Cardinality(CitationItems(c))
    BY DEF CitationInv
  <2>2. Cardinality(CitationEvents(c)) \in Nat /\ Cardinality(CitationItems(c)) \in Nat
    BY MarksAreCounted DEF CitationEvents, CitationItems, TypeInv, TypeOK
  <2>3. CASE log' = Append(log, EventOf(type, call))
    <3>1. Cardinality(CitationEvents(c)') = Cardinality(CitationEvents(c))
            + IF type = "citation.added" /\ call = c THEN 1 ELSE 0
      <4>1. EventOf(type, call).type = type /\ EventOf(type, call).call = call
        BY DEF EventOf
      <4>. QED
        BY <1>2, <2>3, <4>1, MarksGrow DEF CitationEvents
    <3>2. CASE type = "citation.added" /\ call = c
      <4>1. At = "citationAdded" /\ c = Current
        BY <1>2, <3>2 DEF Announces
      <4>2. Cardinality(CitationEvents(c)) < Cardinality(CitationItems(c))
        BY <4>1 DEF CitationInv
      <4>. QED
        BY <2>2, <3>1, <3>2, <4>2
    <3>3. CASE ~(type = "citation.added" /\ call = c)
      BY <2>1, <2>2, <3>1, <3>3
    <3>. QED
      BY <3>2, <3>3
  <2>4. CASE UNCHANGED log
    BY <2>1, <2>4 DEF CitationEvents
  <2>. QED
    BY <1>1, <2>3, <2>4 DEF EmitsAs
<1>6. ASSUME NEW c \in 1 .. Len(calls)'
      PROVE  Cardinality(CitationEvents(c)') <= Cardinality(CitationItems(c)')
  <2>1. c \in 1 .. Len(calls) /\ CitationItems(c)' = CitationItems(c)
    BY <1>2, <1>3
  <2>. QED
    BY <1>5, <2>1
<1>. QED
  BY <1>4, <1>6 DEF CitationInv

(* The item of a citation comes before its event.                          *)
LEMMA CitationItem ==
  ASSUME TypeInv, CitationInv, UNCHANGED log,
         AppendCallItem \/ AppendCitation \/ AppendResultItem \/ AppendText
  PROVE  CitationInv'
<1> DEFINE Adds(at, type, call, next, failed) ==
             /\ AddItem(at, type, call, next, failed)
             /\ type \in ItemTypes /\ call \in Nat
             /\ next # "push" /\ failed \notin {"push", "citationAdded"}
             /\ next = "citationAdded" => type = "citation" /\ call = Current
<1>1. PICK at, type, call, next, failed : Adds(at, type, call, next, failed)
  <2>0. Current \in Nat
    BY DEF TypeInv, TypeOK, Current
  <2> USE DEF ItemTypes
  <2>1. AppendCallItem => Adds("callItem", "tool_call", Current, "execute", "execute")
    BY <2>0 DEF AppendCallItem
  <2>2. AppendCitation => Adds("citation", "citation", Current, "citationAdded", "fail")
    BY <2>0 DEF AppendCitation
  <2>3. AppendResultItem =>
          Adds("citation", "tool_result", Current, "callCompleted", "callCompleted")
    BY <2>0 DEF AppendResultItem
  <2>4. AppendText => Adds("text", "text", 0, "messageCompleted", "fail")
    BY DEF AppendText
  <2> HIDE DEF Adds
  <2>. QED
    BY <2>1, <2>2, <2>3, <2>4
<1> DEFINE item == [type |-> type, call |-> call, seq |-> itemSeq + 1]
<1>2. items \in Seq(Item) /\ item \in Item
  BY <1>1 DEF TypeInv, TypeOK, Item
<1>3. UNCHANGED <<calls, Current>>
  BY <1>1 DEF AddItem, Current
<1>4. \A c : CitationEvents(c)' = CitationEvents(c)
  BY DEF CitationEvents
<1>5. item.type = type /\ item.call = call
  OBVIOUS
<1> HIDE DEF item
<1>6. CASE items' = Append(items, item) /\ pc' \in {next, failed}
  <2>1. ASSUME NEW c
        PROVE  /\ Cardinality(CitationItems(c)) \in Nat /\ Cardinality(CitationEvents(c)) \in Nat
               /\ Cardinality(CitationItems(c)') = Cardinality(CitationItems(c))
                    + IF type = "citation" /\ call = c THEN 1 ELSE 0
    <3>1. /\ Cardinality(Marked(items, "citation", c)) \in Nat
          /\ Cardinality(Marked(log, "citation.added", c)) \in Nat
      BY <1>2, MarksAreCounted DEF TypeInv, TypeOK
    <3>2. Cardinality(Marked(items', "citation", c)) = Cardinality(Marked(items, "citation", c))
            + IF type = "citation" /\ call = c THEN 1 ELSE 0
      BY <1>2, <1>5, <1>6, MarksGrow
    <3>. QED
      BY <3>1, <3>2 DEF CitationItems, CitationEvents
  <2>2. \A c \in 1 .. Len(calls) :
          Cardinality(CitationEvents(c)) <= Cardinality(CitationItems(c)')
    <3> SUFFICES ASSUME NEW c \in 1 .. Len(calls)
                 PROVE  Cardinality(CitationEvents(c)) <= Cardinality(CitationItems(c)')
      OBVIOUS
    <3>1. Cardinality(CitationEvents(c)) <= Cardinality(CitationItems(c))
      BY DEF CitationInv
    <3>. QED
      BY <2>1, <3>1
  <2>3. ASSUME NEW c, c = Current, At' = "citationAdded"
        PROVE  Cardinality(CitationEvents(c)) < Cardinality(CitationItems(c)')
    <3>1. type = "citation" /\ call = c
      BY <1>1, <1>6, <2>3 DEF At
    <3>2. c \in 1 .. Len(calls)
      <4>1. TypeInv'
        BY TypeItems
      <4>2. Len(calls') > 0
        BY <2>3, <4>1 DEF TypeInv, ControlInv, InCall
      <4>. QED
        BY <1>3, <2>3, <4>2 DEF Current, TypeInv, TypeOK
    <3>3. Cardinality(CitationEvents(c)) <= Cardinality(CitationItems(c))
      BY <3>2 DEF CitationInv
    <3>. QED
      BY <2>1, <3>1, <3>3
  <2>4. PICK c : c = Current
    OBVIOUS
  <2>5. At' = "citationAdded" =>
          Cardinality(CitationEvents(Current)') < Cardinality(CitationItems(Current)')
    BY <1>3, <1>4, <2>3, <2>4 DEF CitationItems, CitationEvents
  <2>. QED
    BY <1>3, <1>4, <2>2, <2>5 DEF CitationInv, CitationItems, CitationEvents
<1>7. CASE UNCHANGED items /\ pc' = failed
  <2>1. At' # "citationAdded" /\ \A c : CitationItems(c)' = CitationItems(c)
    BY <1>1, <1>7 DEF At, CitationItems
  <2>. QED
    BY <1>3, <1>4, <2>1 DEF CitationInv
<1>. QED
  BY <1>1, <1>6, <1>7 DEF AddItem, item
(* A new call has neither citations nor events of them.                    *)
LEMMA CitationCreate ==
  ASSUME TypeInv, NestedInv, CitationInv, CreateToolCall
  PROVE  CitationInv'
<1> DEFINE Statuses == {"running", "succeeded", "failed"}
<1>1. UNCHANGED <<log, items>> /\ pc' \in {"callCreated", "fail"}
  BY DEF CreateToolCall
<1>2. At' # "citationAdded"
  BY <1>1 DEF At
<1>3. /\ DOMAIN calls = 1 .. Len(calls) /\ Len(calls) \in Nat
      /\ Len(calls') \in {Len(calls), Len(calls) + 1}
  <2>1. calls \in Seq(Statuses) /\ "running" \in Statuses
    BY DEF TypeInv, TypeOK
  <2> HIDE DEF Statuses
  <2>. QED
    BY <2>1, AppendFacts DEF CreateToolCall
<1>4. ASSUME NEW c \in 1 .. Len(calls')
      PROVE  Cardinality(CitationEvents(c)) <= Cardinality(CitationItems(c))
  <2>1. CASE c \in 1 .. Len(calls)
    BY <2>1 DEF CitationInv
  <2>2. CASE c = Len(calls) + 1
    <3>1. CitationEvents(c) = {}
      <4>1. \A i \in DOMAIN log : log[i].call # c
        BY <1>3, <2>2 DEF NestedInv, AllNumbered, Numbered
      <4>. QED
        BY <4>1 DEF CitationEvents, Marked
    <3>2. Cardinality(CitationItems(c)) \in Nat
      BY MarksAreCounted DEF CitationItems, TypeInv, TypeOK
    <3>. QED
      BY <3>1, <3>2, FS_EmptySet
  <2>. QED
    BY <1>3, <2>1, <2>2
<1>5. \A c : CitationEvents(c)' = CitationEvents(c) /\ CitationItems(c)' = CitationItems(c)
  BY <1>1 DEF CitationEvents, CitationItems
<1>. QED
  BY <1>2, <1>4, <1>5 DEF CitationInv

(* Every other step leaves log, items and the current call alone, and      *)
(* comes to the emit of a citation from nowhere.                           *)
LEMMA CitationKept ==
  ASSUME TypeInv, CitationInv, [Next]_vars, ~EmitStep, ~CreateToolCall,
         ~(AppendCallItem \/ AppendCitation \/ AppendResultItem \/ AppendText)
  PROVE  CitationInv'
<1>1. UNCHANGED <<log, items>> /\ Len(calls') = Len(calls)
      /\ (At' = "citationAdded" => At = "citationAdded")
  <2> DEFINE Statuses == {"running", "succeeded", "failed"}
  <2>0. calls \in Seq(Statuses)
    BY DEF TypeInv, TypeOK
  <2>1. CASE Push
    BY <2>1, PushEffect DEF durable, toolRows
  <2>2. CASE ~Push
    <3>1. UNCHANGED <<log, resume>>
      BY <2>2, StepClasses DEF Quiet, emitter
    <3> USE <3>1 DEF At, Goto, durable, toolRows
    <3>2. CASE Prepare
      BY <3>2 DEF Prepare, EnsureConversation, CreateUserMessage, AppendUserItem,
                  CreateAssistantMessage, Reject
    <3>3. CASE AuditCreated \/ ModelFailed \/ ModelSucceeded \/ RecordToolUsage
                 \/ RecordModelUsage \/ AuditCompleted \/ AuditFailed
      BY <3>3 DEF AuditCreated, ModelFailed, ModelSucceeded, RecordToolUsage, RecordModelUsage,
                  AuditCompleted, AuditFailed, Book
    <3>4. CASE BuildModelMessages \/ BeginTurn \/ RecvError \/ RecvEOF \/ SkipText
                 \/ CompleteMessage \/ FailMessage \/ SendFinal
      BY <3>4 DEF BuildModelMessages, BeginTurn, RecvError, RecvEOF, SkipText, CompleteMessage,
                  FailMessage, SendFinal
    <3>5. CASE ExecuteTool \/ ToolNotFound \/ SaveResult
      BY <3>5 DEF ExecuteTool, ToolNotFound, SaveResult
    <3>6. CASE CallFailed \/ CallSucceeded
      <4>1. Len(calls') = Len(calls)
        BY <2>0, <3>6, ExceptType DEF CallFailed, CallSucceeded
      <4>. QED
        BY <3>6, <4>1 DEF CallFailed, CallSucceeded
    <3>7. CASE Handler \/ Disconnect \/ HandlerReturned \/ Crash
      BY <3>7 DEF Handler, HandlerWrite, HandlerWriteError, HandlerFinish, HandlerTakes,
                  Disconnect, HandlerReturned, CancelContext, Crash
    <3>8. CASE UNCHANGED vars
      BY <3>8 DEF vars
    <3>. QED
      BY <2>2, <3>2, <3>3, <3>4, <3>5, <3>6, <3>7, <3>8
         DEF Next, Goroutine, Loop, Tool, Finish, EmitStep
  <2>. QED
    BY <2>1, <2>2
<1>2. \A c : CitationEvents(c)' = CitationEvents(c) /\ CitationItems(c)' = CitationItems(c)
  BY <1>1 DEF CitationEvents, CitationItems
<1>3. UNCHANGED Current
  BY <1>1 DEF Current
<1>4. CitationEvents(Current)' = CitationEvents(Current)
      /\ CitationItems(Current)' = CitationItems(Current)
  BY <1>1, <1>3 DEF CitationEvents, CitationItems
<1>. QED
  BY <1>1, <1>2, <1>4 DEF CitationInv

LEMMA CitationStep ==
  ASSUME TypeInv, NestedInv, CitationInv, [Next]_vars
  PROVE  CitationInv'
<1>1. CASE AppendCallItem \/ AppendCitation \/ AppendResultItem \/ AppendText
  <2>1. UNCHANGED log
    BY <1>1 DEF AppendCallItem, AppendCitation, AppendResultItem, AppendText, AddItem
  <2>. QED
    BY <1>1, <2>1, CitationItem
<1>. QED
  BY <1>1, CitationEmit, CitationCreate, CitationKept

(* The items of a message keep their order, the text stands last, and no   *)
(* citation is announced that is not stored (orchestrator.go:510-528,      *)
(* message_repo.go:93-111).                                                *)
THEOREM ItemsStandBehindEvents == Spec => []ItemsBackEvents
<1>1. TypeInv /\ NestedInv /\ OrderInv /\ CitationInv /\ [Next]_vars
        => OrderInv' /\ CitationInv'
  BY OrderStep, CitationStep
<1>2. Spec => [](OrderInv /\ CitationInv)
  BY <1>1, TypeInit, TypeStep, NestedInit, NestedStep, OrderInit, CitationInit, PTL DEF Spec
<1>3. OrderInv /\ CitationInv => ItemsBackEvents
  BY DEF OrderInv, CitationInv, ItemsBackEvents, CitationEvents, CitationItems, Marked
<1>. QED
  BY <1>2, <1>3, PTL
-----------------------------------------------------------------------------
(* Every step of the goroutine leaves less to do.                          *)

(* Fewer calls take fewer steps.                                           *)
LEMMA FewerCalls ==
  ASSUME NEW m \in 0 .. MaxCalls
  PROVE  /\ CallSteps \in Nat /\ TurnSteps \in Nat
         /\ m * CallSteps \in Nat /\ m * CallSteps + 4 <= TurnSteps
<1>1. MaxCitations \in Nat /\ MaxCalls \in Nat /\ m \in Nat /\ MaxCalls - m \in Nat
  BY ConstantsAssumption
<1>2. CallSteps \in Nat
  BY <1>1 DEF CallSteps
<1>3. \A n, k \in Nat : n * k \in Nat
  OBVIOUS
<1>4. m * CallSteps \in Nat /\ MaxCalls * CallSteps \in Nat /\ (MaxCalls - m) * CallSteps \in Nat
  BY <1>1, <1>2, <1>3
<1>5. MaxCalls * CallSteps = m * CallSteps + (MaxCalls - m) * CallSteps
  BY <1>1, <1>2
<1>. QED
  BY <1>2, <1>4, <1>5 DEF TurnSteps

LEMMA LeftTypes ==
  ASSUME TypeInv
  PROVE  /\ CallSteps \in Nat /\ TurnSteps \in Nat /\ TurnsLeft \in Nat /\ CallsLeft \in Nat
         /\ CallSteps = 3 * MaxCitations + 11 /\ CallsLeft + 4 <= TurnSteps
         /\ cites \in 0 .. MaxCitations /\ MaxCitations \in Nat
         /\ resume \in Resumes
<1>1. /\ MaxCitations \in Nat /\ MaxCalls \in Nat /\ MaxToolIterations \in Nat
      /\ iter \in 0 .. MaxToolIterations /\ todo \in 0 .. MaxCalls
      /\ cites \in 0 .. MaxCitations /\ resume \in Resumes
  BY ConstantsAssumption DEF TypeInv, TypeOK
<1>2. CallSteps \in Nat /\ CallSteps = 3 * MaxCitations + 11
  BY <1>1 DEF CallSteps
<1>3. \A m, n \in Nat : m * n \in Nat
  OBVIOUS
<1>5. TurnSteps \in Nat /\ CallsLeft \in Nat /\ CallsLeft + 4 <= TurnSteps
  BY <1>1, FewerCalls DEF CallsLeft
<1>7. TurnsLeft \in Nat
  <2>1. MaxToolIterations - iter \in Nat
    BY <1>1
  <2>. QED
    BY <1>3, <1>5, <2>1 DEF TurnsLeft
<1>. QED
  BY <1>1, <1>2, <1>5, <1>7

(* What a place leaves to do, by where it is.                              *)
LEMMA LeftAtClosing ==
  ASSUME NEW at \in Closings
  PROVE  LeftAt(at) = LeftToClose(at)
  BY DEF LeftAt

LEMMA LeftAtTurn ==
  ASSUME NEW at, at \notin Closings
  PROVE  LeftAt(at) = 16 + TurnsLeft + LeftInTurn(at)
  BY DEF LeftAt

LEMMA LeftIsEnough ==
  ASSUME TypeInv, NEW at \in PCs \ {"push"}
  PROVE  /\ LeftAt(at) \in Nat
         /\ at \notin Closings => LeftInTurn(at) \in Nat
         /\ at \in Resumes => LeftAt(at) >= 1 /\ (at # "final" => LeftAt(at) >= 5)
<1>1. at \in Closings => LeftToClose(at) \in Nat
  BY DEF LeftToClose
<1>2. at \in InCall => LeftInCall(at) \in Nat
  BY LeftTypes DEF LeftInCall, InCall
<1>3. at \notin Closings => LeftInTurn(at) \in Nat
  BY <1>2, LeftTypes DEF LeftInTurn, PCs, Closings, Closing, InCall
<1>4. LeftAt(at) \in Nat
  BY <1>1, <1>3, LeftTypes DEF LeftAt
<1>5. at \notin Closings => LeftAt(at) >= 16
  BY <1>3, LeftTypes DEF LeftAt
<1>6. at \in Closings /\ at \in Resumes => LeftAt(at) >= 1 /\ (at # "final" => LeftAt(at) >= 5)
  BY DEF LeftAt, LeftToClose, Closings, Closing, Resumes
<1>. QED
  BY <1>3, <1>4, <1>5, <1>6

LEMMA DeltasOf ==
  ASSUME NEW s \in Seq(Event), \A i \in DOMAIN s : s[i].type = "message.delta" => s[i].call = 0
  PROVE  {i \in DOMAIN s : s[i].type = "message.delta"} = Marked(s, "message.delta", 0)
  BY DEF Marked

LEMMA DeltasAreMarks ==
  ASSUME TypeInv, NestedInv
  PROVE  Deltas = Cardinality(Marked(log, "message.delta", 0)) /\ Deltas \in Nat
<1>1. log \in Seq(Event) /\ \A i \in DOMAIN log : log[i].type = "message.delta" => log[i].call = 0
  BY DEF TypeInv, TypeOK, NestedInv, AllNumbered, Numbered, ToolEvents, Ends
<1>. QED
  BY <1>1, DeltasOf, MarksAreCounted DEF Deltas

LEMMA DeltasGrow ==
  ASSUME TypeInv, NestedInv, TypeInv', NestedInv',
         NEW type, NEW call, EventOf(type, call) \in Event,
         log' = Append(log, EventOf(type, call)), type = "message.delta" => call = 0
  PROVE  /\ Deltas \in Nat /\ Deltas' \in Nat
         /\ Deltas' = Deltas + IF type = "message.delta" THEN 1 ELSE 0
<1> DEFINE e == EventOf(type, call)
<1>1. log' \in Seq(Event) /\ \A i \in DOMAIN log' : log'[i].type = "message.delta" => log'[i].call = 0
  BY DEF TypeInv, TypeOK, NestedInv, AllNumbered, Numbered, ToolEvents, Ends
<1>2. e.type = type /\ e.call = call /\ log \in Seq(Event)
  BY DEF EventOf, TypeInv, TypeOK
<1>3. Deltas' = Cardinality(Marked(log', "message.delta", 0)) /\ Deltas' \in Nat
  <2> DEFINE s == log'
  <2>1. Deltas' = Cardinality({i \in DOMAIN s : s[i].type = "message.delta"})
    BY DEF Deltas
  <2>2. s \in Seq(Event) /\ \A i \in DOMAIN s : s[i].type = "message.delta" => s[i].call = 0
    BY <1>1
  <2> HIDE DEF s
  <2>3. {i \in DOMAIN s : s[i].type = "message.delta"} = Marked(s, "message.delta", 0)
    BY <2>2, DeltasOf
  <2>4. Cardinality(Marked(s, "message.delta", 0)) \in Nat
    BY <2>2, MarksAreCounted
  <2>. QED
    BY <2>1, <2>3, <2>4 DEF s
<1>4. Deltas = Cardinality(Marked(log, "message.delta", 0)) /\ Deltas \in Nat
  BY DeltasAreMarks
<1> HIDE DEF e
<1>5. Cardinality(Marked(Append(log, e), "message.delta", 0)) =
        Cardinality(Marked(log, "message.delta", 0))
          + IF e.type = "message.delta" /\ e.call = 0 THEN 1 ELSE 0
  BY <1>2, MarksGrow DEF e
<1>6. log' = Append(log, e)
  BY DEF e
<1>. QED
  BY <1>2, <1>3, <1>4, <1>5, <1>6

RunInv == TypeInv /\ SeqInv /\ NestedInv

LEMMA LeftEmit ==
  ASSUME RunInv, RunInv', EmitStep
  PROVE  Left' < Left
<1>1. PICK at, type, call, next : EmitsAs(at, type, call, next)
  BY EmitEffect DEF RunInv
<1>2. /\ UNCHANGED <<iter, todo, cites>> /\ pc = at /\ At = at
      /\ Announces(at, type, call, next) /\ EventOf(type, call) \in Event
      /\ at # "push"
  BY <1>1 DEF EmitsAs, loop, Announces
<1>3. /\ TurnsLeft' = TurnsLeft /\ CallsLeft' = CallsLeft
      /\ \A x : LeftAt(x)' = LeftAt(x)
  BY <1>2 DEF TurnsLeft, CallsLeft, LeftAt, LeftInTurn, LeftInCall
<1>4. /\ TurnsLeft \in Nat /\ CallsLeft \in Nat /\ CallsLeft + 4 <= TurnSteps
      /\ cites \in Nat /\ MaxCitations \in Nat /\ TurnSteps \in Nat
  BY LeftTypes DEF RunInv
<1>5. LeftAt(at) \in Nat /\ LeftAt("fail") = 5 /\ LeftAt("final") = 1
  BY <1>2, LeftIsEnough DEF RunInv, PCs, Announces, LeftAt, LeftToClose, Closings, Closing
<1>6. MaxDeltas \in Nat
  BY ConstantsAssumption
<1>7. CASE /\ log' = Append(log, EventOf(type, call))
           /\ pc' = "push" /\ At' = next
  <2>1. Deltas \in Nat /\ Deltas' \in Nat /\ Deltas' = Deltas + IF type = "message.delta" THEN 1 ELSE 0
    BY <1>2, <1>7, DeltasGrow DEF RunInv, Announces
  <2>2. LeftAt(next) \in Nat
    BY <1>2, LeftIsEnough DEF RunInv, PCs, Announces
  <2>3. IF type = "message.delta" THEN next = at ELSE LeftAt(next) + 2 <= LeftAt(at)
    BY <1>2, <1>4 DEF Announces, LeftAt, LeftToClose, LeftInTurn, LeftInCall, InCall, Closings, Closing
  <2>4. Left' = LeftAt(next) + 1 + 2 * (MaxDeltas - Deltas')
    BY <1>3, <1>7 DEF Left
  <2>5. Left = LeftAt(at) + 0 + 2 * (MaxDeltas - Deltas)
    BY <1>2 DEF Left
  <2>. QED
    BY <1>5, <1>6, <2>1, <2>2, <2>3, <2>4, <2>5
<1>8. CASE /\ pc' = OnEmitError(type) /\ At' = OnEmitError(type)
           /\ log' \in {log, Append(log, EventOf(type, call))}
  <2>1. Deltas' >= Deltas /\ Deltas \in Nat /\ Deltas' \in Nat
    <3>1. CASE UNCHANGED log
      BY <3>1, DeltasAreMarks DEF Deltas, RunInv
    <3>2. CASE log' = Append(log, EventOf(type, call))
      BY <1>2, <3>2, DeltasGrow DEF RunInv, Announces
    <3>. QED
      BY <1>8, <3>1, <3>2
  <2>2. LeftAt(OnEmitError(type)) < LeftAt(at)
    BY <1>2, <1>4, <1>5
       DEF Announces, OnEmitError, LeftAt, LeftToClose, LeftInTurn, LeftInCall, InCall, Closings, Closing
  <2>3. OnEmitError(type) \in {"fail", "final"}
    BY DEF OnEmitError
  <2>4. Left' = LeftAt(OnEmitError(type)) + 0 + 2 * (MaxDeltas - Deltas')
    BY <1>3, <1>8, <2>3 DEF Left
  <2>5. Left = LeftAt(at) + 0 + 2 * (MaxDeltas - Deltas)
    BY <1>2 DEF Left
  <2>. QED
    BY <1>5, <1>6, <2>1, <2>2, <2>3, <2>4, <2>5
<1>. QED
  BY <1>1, <1>7, <1>8 DEF EmitsAs

LEMMA LeftPush ==
  ASSUME RunInv, Push
  PROVE  Left' < Left
<1>1. /\ UNCHANGED <<log, iter, todo, cites>> /\ pc = "push" /\ At = resume
      /\ \/ At' = resume /\ pc' = resume
         \/ At' = OnEmitError(pending.type) /\ pc' = At'
  BY PushEffect DEF RunInv, durable, loop, At
<1>2. /\ \A x : LeftAt(x)' = LeftAt(x)
      /\ Deltas' = Deltas /\ Deltas \in Nat /\ MaxDeltas \in Nat
  BY <1>1, DeltasAreMarks, ConstantsAssumption
     DEF TurnsLeft, CallsLeft, LeftAt, LeftInTurn, LeftInCall, Deltas, RunInv
<1>3. resume \in Resumes /\ resume \in PCs /\ resume # "push"
  BY DEF RunInv, TypeInv, TypeOK, Resumes, PCs
<1>4. LeftAt(resume) \in Nat /\ LeftAt(resume) >= 1 /\ (resume # "final" => LeftAt(resume) >= 5)
  BY <1>3, LeftIsEnough DEF RunInv
<1>5. Left = LeftAt(resume) + 1 + 2 * (MaxDeltas - Deltas)
  BY <1>1 DEF Left
<1>6. CASE At' = resume /\ pc' = resume
  <2>1. Left' = LeftAt(resume) + 0 + 2 * (MaxDeltas - Deltas)
    BY <1>2, <1>3, <1>6 DEF Left
  <2>. QED
    BY <1>2, <1>4, <1>5, <2>1
<1>7. CASE At' = OnEmitError(pending.type) /\ pc' = At'
  <2>1. At' = "final" \/ (At' = "fail" /\ resume # "final")
    BY <1>1, <1>7 DEF OnEmitError, RunInv, SeqInv
  <2>2. LeftAt("fail") = 5 /\ LeftAt("final") = 1
    BY DEF LeftAt, LeftToClose, Closings, Closing
  <2>3. /\ LeftAt(At') \in Nat /\ LeftAt(At') < LeftAt(resume) + 1
        /\ pc' # "push"
    BY <1>4, <1>7, <2>1, <2>2
  <2>4. Left' = LeftAt(At') + 0 + 2 * (MaxDeltas - Deltas)
    BY <1>2, <2>3 DEF Left
  <2>. QED
    BY <1>2, <1>4, <1>5, <2>3, <2>4
<1>. QED
  BY <1>1, <1>6, <1>7
(* Every other step of the goroutine goes from one place to the next.      *)
Moves(at, next) ==
  /\ pc = at /\ pc' = next /\ {at, next} \subseteq PCs \ {"push"}
  /\ UNCHANGED log /\ LeftAt(next)' \in Int /\ LeftAt(next)' < LeftAt(at)

LEMMA LeftMoves ==
  ASSUME RunInv, NEW at, NEW next, Moves(at, next)
  PROVE  Left' < Left
<1>1. /\ Deltas' = Deltas /\ Deltas \in Nat /\ MaxDeltas \in Nat
  BY DeltasAreMarks, ConstantsAssumption DEF Moves, Deltas, RunInv
<1>2. Left = LeftAt(at) + 0 + 2 * (MaxDeltas - Deltas) /\ LeftAt(at) \in Nat
  BY LeftIsEnough DEF Left, At, Moves, RunInv
<1>3. Left' = LeftAt(next)' + 0 + 2 * (MaxDeltas - Deltas)
  BY <1>1 DEF Left, At, Moves
<1>. QED
  BY <1>1, <1>2, <1>3 DEF Moves

(* Where the steps lead that change no counter of the loop.                *)
GoesOn(at, next) ==
  \/ at = "ensure" /\ next \in {"userMessage", "rejected"}
  \/ at = "userMessage" /\ next \in {"userItem", "rejected"}
  \/ at = "userItem" /\ next \in {"assistantMessage", "rejected"}
  \/ at = "assistantMessage" /\ next \in {"created", "rejected"}
  \/ at = "auditCreated" /\ next = "history"
  \/ at = "history" /\ next \in {"turn", "fail"}
  \/ at = "turn" /\ next = "fail"
  \/ at = "recv" /\ next \in {"modelFailed", "fail"}
  \/ at = "modelFailed" /\ next = "fail"
  \/ at = "modelSucceeded" /\ next \in {"text", "toolCall"}
  \/ at = "callItem" /\ next = "execute"
  \/ at = "execute" /\ next \in {"callFailed", "fail"}
  \/ at = "callFailed" /\ next = "emitCallFailed"
  \/ at = "callSucceeded" /\ next \in {"saveResult", "fail"}
  \/ at = "saveResult" /\ next \in {"citation", "fail"}
  \/ at = "citation" /\ next = "callCompleted"
  \/ at = "toolUsage" /\ next \in {"turn", "toolCall"}
  \/ at = "text" /\ next \in {"messageCompleted", "fail"}
  \/ at = "modelUsage" /\ next = "complete"
  \/ at = "complete" /\ next \in {"responseCompleted", "fail"}
  \/ at = "auditCompleted" /\ next = "final"
  \/ at = "fail" /\ next = "auditFailed"
  \/ at = "auditFailed" /\ next = "emitFailed"
  \/ at = "final" /\ next = "ended"

LEMMA LeftGoesOn ==
  ASSUME RunInv, GoesOn(pc, pc'), UNCHANGED <<log, iter, todo, cites>>
  PROVE  Left' < Left
<1> PICK next : next = pc'
  OBVIOUS
<1>1. {pc, next} \subseteq PCs \ {"push"}
  BY DEF GoesOn, PCs
<1>2. LeftAt(next)' = LeftAt(next)
  BY DEF TurnsLeft, CallsLeft, LeftAt, LeftInTurn, LeftInCall
<1>3. LeftAt(next) \in Nat
  BY <1>1, LeftIsEnough DEF RunInv
<1>4. LeftAt(next) < LeftAt(pc)
  <2>1. /\ TurnsLeft \in Nat /\ CallsLeft \in Nat /\ CallsLeft + 4 <= TurnSteps
        /\ cites \in 0 .. MaxCitations /\ MaxCitations \in Nat /\ TurnSteps \in Nat
    BY LeftTypes DEF RunInv
  <2>. QED
    BY <2>1 DEF GoesOn, LeftAt, LeftToClose, LeftInTurn, LeftInCall, InCall, Closings, Closing
<1>5. Moves(pc, next)
  BY <1>1, <1>2, <1>3, <1>4 DEF Moves
<1>. QED
  BY <1>5, LeftMoves

LEMMA StepsGoOn ==
  ASSUME RunInv,
         \/ Prepare \/ AuditCreated \/ BuildModelMessages \/ RecvError \/ ModelFailed
         \/ ModelSucceeded \/ AppendCallItem \/ ToolNotFound \/ CallFailed \/ CallSucceeded
         \/ SaveResult \/ AppendResultItem \/ RecordToolUsage \/ AppendText \/ SkipText
         \/ RecordModelUsage \/ CompleteMessage \/ AuditCompleted \/ FailMessage
         \/ AuditFailed \/ SendFinal
  PROVE  GoesOn(pc, pc') /\ UNCHANGED <<log, iter, todo, cites>>
<1> USE DEF Goto, durable, toolRows, messages, loop, transport, GoesOn
<1>1. CASE Prepare
  BY <1>1 DEF Prepare, EnsureConversation, CreateUserMessage, AppendUserItem,
              CreateAssistantMessage, Reject
<1>2. CASE AuditCreated \/ ModelFailed \/ ModelSucceeded \/ RecordToolUsage \/ RecordModelUsage
             \/ AuditCompleted \/ AuditFailed
  BY <1>2 DEF AuditCreated, ModelFailed, ModelSucceeded, RecordToolUsage, RecordModelUsage,
              AuditCompleted, AuditFailed, Book
<1>3. CASE AppendCallItem \/ AppendResultItem \/ AppendText
  BY <1>3 DEF AppendCallItem, AppendResultItem, AppendText, AddItem
<1>4. CASE BuildModelMessages \/ RecvError \/ SkipText \/ CompleteMessage \/ FailMessage \/ SendFinal
  BY <1>4 DEF BuildModelMessages, RecvError, SkipText, CompleteMessage, FailMessage, SendFinal
<1>5. CASE ToolNotFound \/ CallFailed \/ CallSucceeded \/ SaveResult
  BY <1>5 DEF ToolNotFound, CallFailed, CallSucceeded, SaveResult
<1>. QED
  BY <1>1, <1>2, <1>3, <1>4, <1>5

(* A turn begins, its calls are known, a call begins, its result is known, *)
(* a citation is written.                                                  *)
LEMMA LeftCounts ==
  ASSUME RunInv, RunInv',
         BeginTurn \/ RecvEOF \/ CreateToolCall \/ ExecuteTool \/ AppendCitation
  PROVE  Left' < Left
<1>0. /\ TurnsLeft \in Nat /\ CallsLeft \in Nat /\ CallsLeft + 4 <= TurnSteps
      /\ cites \in 0 .. MaxCitations /\ MaxCitations \in Nat
      /\ TurnSteps \in Nat /\ CallSteps \in Nat /\ CallSteps = 3 * MaxCitations + 11
      /\ iter \in 0 .. MaxToolIterations /\ MaxToolIterations \in Nat
      /\ todo \in 0 .. MaxCalls /\ MaxCalls \in Nat
  BY LeftTypes, ConstantsAssumption DEF RunInv, TypeInv, TypeOK
<1> PICK next : next = pc'
  OBVIOUS
<1> USE DEF LeftAt, LeftToClose, LeftInTurn, LeftInCall, InCall, Closings, Closing, PCs
<1>1. CASE BeginTurn
  <2>1. CASE iter = MaxToolIterations
    <3>1. GoesOn(pc, pc') /\ UNCHANGED <<log, iter, todo, cites>>
      BY <1>1, <2>1 DEF BeginTurn, GoesOn, durable
    <3>. QED
      BY <3>1, LeftGoesOn
  <2>2. CASE iter # MaxToolIterations
    <3>1. /\ pc = "turn" /\ pc' \in {"recv", "modelFailed"} /\ iter' = iter + 1
          /\ UNCHANGED <<log, todo, cites>>
      BY <1>1, <2>2 DEF BeginTurn, durable
    <3>2. TurnsLeft' + TurnSteps = TurnsLeft /\ TurnsLeft' \in Int
      <4>1. (MaxToolIterations - iter) - 1 = MaxToolIterations - iter' /\ MaxToolIterations - iter \in Int
        BY <1>0, <3>1
      <4>2. \A m, n \in Int : (m - 1) * n + n = m * n /\ (m - 1) * n \in Int
        OBVIOUS
      <4>3. /\ ((MaxToolIterations - iter) - 1) * TurnSteps + TurnSteps
               = (MaxToolIterations - iter) * TurnSteps
            /\ ((MaxToolIterations - iter) - 1) * TurnSteps \in Int
        BY <1>0, <4>1, <4>2
      <4>4. TurnsLeft' = ((MaxToolIterations - iter) - 1) * TurnSteps
        BY <4>1 DEF TurnsLeft, TurnSteps, CallSteps
      <4>. QED
        BY <4>3, <4>4 DEF TurnsLeft
    <3>3. TurnSteps' = TurnSteps
      BY DEF TurnSteps, CallSteps
    <3>4. LeftAt(next)' \in Int /\ LeftAt(next)' < LeftAt(pc)
      BY <1>0, <3>1, <3>2, <3>3
    <3>5. Moves(pc, next)
      BY <3>1, <3>4 DEF Moves
    <3>. QED
      BY <3>5, LeftMoves
  <2>. QED
    BY <2>1, <2>2
<1>2. CASE RecvEOF
  <2>1. /\ pc = "recv" /\ pc' \in {"modelSucceeded", "fail"} /\ UNCHANGED <<log, iter, cites>>
    BY <1>2 DEF RecvEOF, durable
  <2>2. CallsLeft' \in Nat /\ CallsLeft' + 4 <= TurnSteps
    <3>1. todo' \in 0 .. MaxCalls
      BY DEF RunInv, TypeInv, TypeOK
    <3>2. CallsLeft' = todo' * CallSteps
      BY DEF CallsLeft, CallSteps
    <3>3. todo' * CallSteps \in Nat /\ todo' * CallSteps + 4 <= TurnSteps
      BY <3>1, FewerCalls DEF RunInv
    <3>. QED
      BY <3>2, <3>3
  <2>3. TurnsLeft' = TurnsLeft
    BY <2>1 DEF TurnsLeft, TurnSteps, CallSteps
  <2>4. LeftAt(next)' \in Int /\ LeftAt(next)' < LeftAt(pc)
    BY <1>0, <2>1, <2>2, <2>3
  <2>5. Moves(pc, next)
    BY <2>1, <2>4 DEF Moves
  <2>. QED
    BY <2>5, LeftMoves
<1>3. CASE CreateToolCall
  <2>1. /\ pc = "toolCall" /\ pc' \in {"callCreated", "fail"} /\ todo' = todo - 1
        /\ UNCHANGED <<log, iter, cites>>
    BY <1>3 DEF CreateToolCall
  <2>2. CallsLeft' + CallSteps = CallsLeft /\ CallsLeft' \in Int
    <3>1. \A m, n \in Int : (m - 1) * n + n = m * n /\ (m - 1) * n \in Int
      OBVIOUS
    <3>2. (todo - 1) * CallSteps + CallSteps = todo * CallSteps /\ (todo - 1) * CallSteps \in Int
      BY <1>0, <3>1
    <3>3. CallsLeft' = (todo - 1) * CallSteps
      BY <2>1 DEF CallsLeft, CallSteps
    <3>. QED
      BY <3>2, <3>3 DEF CallsLeft
  <2>3. TurnsLeft' = TurnsLeft
    BY <2>1 DEF TurnsLeft, TurnSteps, CallSteps
  <2>4. LeftAt(next)' \in Int /\ LeftAt(next)' < LeftAt(pc)
    BY <1>0, <2>1, <2>2, <2>3
  <2>5. Moves(pc, next)
    BY <2>1, <2>4 DEF Moves
  <2>. QED
    BY <2>5, LeftMoves
<1>4. CASE ExecuteTool
  <2>1. /\ pc = "execute" /\ UNCHANGED <<log, iter, todo>> /\ cites' \in 0 .. MaxCitations
        /\ pc' \in {"callSucceeded", "callFailed", "fail"}
    BY <1>0, <1>4 DEF ExecuteTool, durable
  <2>2. TurnsLeft' = TurnsLeft /\ CallsLeft' = CallsLeft
    BY <2>1 DEF TurnsLeft, CallsLeft, TurnSteps, CallSteps
  <2>3. LeftAt(next)' \in Int /\ LeftAt(next)' < LeftAt(pc)
    BY <1>0, <2>1, <2>2
  <2>4. Moves(pc, next)
    BY <2>1, <2>3 DEF Moves
  <2>. QED
    BY <2>4, LeftMoves
<1>5. CASE AppendCitation
  <2>1. /\ pc = "citation" /\ UNCHANGED <<log, iter, todo>> /\ cites' = cites - 1 /\ cites > 0
        /\ pc' \in {"citationAdded", "fail"}
    BY <1>5 DEF AppendCitation, AddItem
  <2>2. TurnsLeft' = TurnsLeft /\ CallsLeft' = CallsLeft
    BY <2>1 DEF TurnsLeft, CallsLeft, TurnSteps, CallSteps
  <2>3. LeftAt(next)' \in Int /\ LeftAt(next)' < LeftAt(pc)
    BY <1>0, <2>1, <2>2
  <2>4. Moves(pc, next)
    BY <2>1, <2>3 DEF Moves
  <2>. QED
    BY <2>4, LeftMoves
<1>. QED
  BY <1>1, <1>2, <1>3, <1>4, <1>5

LEMMA LeftStep == RunInv /\ RunInv' /\ Goroutine => Left' < Left
  BY LeftEmit, LeftPush, LeftGoesOn, StepsGoOn, LeftCounts
     DEF Goroutine, Loop, Tool, Finish, EmitStep

(* The text deltas stay within their bound.                                *)
LEMMA DeltasStep ==
  ASSUME RunInv, RunInv', [Next]_vars, Deltas <= MaxDeltas
  PROVE  Deltas' <= MaxDeltas
<1>1. CASE EmitStep
  <2>1. PICK at, type, call, next : EmitsAs(at, type, call, next)
    BY <1>1, EmitEffect DEF RunInv
  <2>2. CASE UNCHANGED log
    BY <2>2 DEF Deltas
  <2>3. CASE log' = Append(log, EventOf(type, call))
    <3>1. /\ Deltas \in Nat /\ Deltas' \in Nat
          /\ Deltas' = Deltas + IF type = "message.delta" THEN 1 ELSE 0
      BY <2>1, <2>3, DeltasGrow DEF RunInv, EmitsAs, Announces
    <3>2. type = "message.delta" => Deltas < MaxDeltas
      <4>1. type = "message.delta" => pc = "recv"
        BY <2>1 DEF EmitsAs, Announces
      <4>2. pc = "recv" => RecvDelta
        BY <1>1 DEF EmitStep, EmitCreated, EmitCallCreated, EmitCallFailed, EmitCitationAdded,
                    EmitCallCompleted, EmitMessageCompleted, EmitUsageUpdated,
                    EmitResponseCompleted, EmitResponseFailed, Emit
      <4>. QED
        BY <4>1, <4>2 DEF RecvDelta
    <3>. QED
      BY <3>1, <3>2, ConstantsAssumption
  <2>. QED
    BY <2>1, <2>2, <2>3 DEF EmitsAs
<1>2. CASE ~EmitStep
  <2>1. UNCHANGED log
    BY <1>2, StepClasses DEF Quiet, Push, durable
  <2>. QED
    BY <2>1 DEF Deltas
<1>. QED
  BY <1>1, <1>2

(* A run is over after a number of steps that its limits bound, however    *)
(* often the model asks for tools, whatever fails and whoever leaves: what *)
(* is left to do is a natural number, and every step of the goroutine      *)
(* leaves less (orchestrator.go:205-299).                                  *)
THEOREM TheLoopEnds == Spec => LoopAdvances /\ [](Left \in Nat)
<1>1. Spec => []RunInv
  BY SeqAlways, NestedInit, NestedStep, PTL DEF Spec, RunInv
<1>2. RunInv /\ RunInv' /\ [Next]_vars => [Goroutine => Left' < Left]_vars
  BY LeftStep
<1>3. Init => Deltas <= MaxDeltas
  <2>1. ASSUME Init PROVE Deltas = 0
    <3>1. {i \in DOMAIN log : log[i].type = "message.delta"} = {}
      BY <2>1 DEF Init
    <3>. QED
      BY <3>1, FS_EmptySet DEF Deltas
  <2>. QED
    BY <2>1, ConstantsAssumption
<1>4. RunInv /\ RunInv' /\ [Next]_vars /\ Deltas <= MaxDeltas => (Deltas <= MaxDeltas)'
  BY DeltasStep
<1>5. RunInv /\ Deltas <= MaxDeltas => Left \in Nat
  <2> SUFFICES ASSUME RunInv, Deltas <= MaxDeltas PROVE Left \in Nat
    OBVIOUS
  <2>1. Deltas \in Nat /\ MaxDeltas \in Nat
    BY DeltasAreMarks, ConstantsAssumption DEF RunInv
  <2>2. At \in PCs \ {"push"}
    BY DEF At, RunInv, TypeInv, TypeOK, PCs, Resumes
  <2>3. LeftAt(At) \in Nat
    BY <2>2, LeftIsEnough DEF RunInv
  <2>4. (IF pc = "push" THEN 1 ELSE 0) \in Nat /\ 2 * (MaxDeltas - Deltas) \in Nat
    BY <2>1
  <2>. QED
    BY <2>3, <2>4 DEF Left
<1>6. Spec => [](RunInv /\ Deltas <= MaxDeltas)
  BY <1>1, <1>3, <1>4, PTL DEF Spec
<1>. QED
  BY <1>1, <1>2, <1>5, <1>6, PTL DEF Spec, LoopAdvances
=============================================================================
