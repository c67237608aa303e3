--------------------------- MODULE ResponseProofs ---------------------------
(***************************************************************************)
(* Proofs about ResponseRun, for every channel capacity, every limit of    *)
(* the tool loop and every number of failing database calls: its types,    *)
(* and its event stream: the log has no holes, what is pushed is the log,  *)
(* and the whole implements EventStream.                                   *)
(***************************************************************************)
EXTENDS ResponseProperties, SequenceTheorems, TLAPS

-----------------------------------------------------------------------------
(* Type correctness, with what the control flow says of todo and calls.    *)

TypeInv == TypeOK /\ ControlInv

(* What the shared parts of the actions do to the types.                   *)
LEMMA EmitType ==
  ASSUME TypeInv,
         NEW at, NEW type \in EventTypes, NEW call \in Nat, NEW next \in Resumes,
         at # "push",
         next \in InCall => at \in InCall,
         Emit(at, type, call, next)
  PROVE  TypeInv'
<1> DEFINE event == [type |-> type, call |-> call, seq |-> seq + 1]
<1>1. event \in Event
  BY DEF TypeInv, TypeOK, Event
<1>0. /\ log \in Seq(Event) /\ seq \in Nat /\ unheard \subseteq 1 .. seq
      /\ seq' = seq + 1 /\ UNCHANGED <<toolRows, messages, books, loop, transport, ran>>
  BY DEF Emit, TypeInv, TypeOK
<1>2. CASE /\ log' = Append(log, event) /\ pending' = event
           /\ resume' = next /\ pc' = "push" /\ UNCHANGED <<unheard, faults>>
  <2>0. log' \in Seq(Event) /\ seq' \in Nat /\ unheard' \subseteq 1 .. seq'
    BY <1>0, <1>1, <1>2
  <2>1. TypeOK'
    BY <1>0, <1>1, <1>2, <2>0 DEF TypeInv, TypeOK, PCs, toolRows, messages, loop, transport
  <2>2. At' \in InCall => At \in InCall
    BY <1>2 DEF Emit, At, InCall
  <2>. QED
    BY <1>2, <2>1, <2>2 DEF Emit, TypeInv, ControlInv, toolRows
<1>3. CASE /\ Fault /\ pc' = OnEmitError(type) /\ UNCHANGED <<pending, resume>>
           /\ \/ UNCHANGED <<log, unheard>>
              \/ log' = Append(log, event) /\ unheard' = unheard \cup {event.seq}
  <2>0. log' \in Seq(Event) /\ seq' \in Nat /\ unheard' \subseteq 1 .. seq'
    <3>1. log' \in Seq(Event) /\ seq' \in Nat
      BY <1>0, <1>1, <1>3
    <3>2. unheard' \subseteq unheard \cup {seq + 1}
      BY <1>3
    <3>. QED
      BY <1>0, <3>1, <3>2
  <2>1. TypeOK'
    BY <1>0, <1>3, <2>0, ConstantsAssumption
       DEF TypeInv, TypeOK, PCs, toolRows, messages, loop, transport, Fault, OnEmitError
  <2>. QED
    BY <1>3, <2>1 DEF Emit, TypeInv, ControlInv, At, InCall, OnEmitError
<1>. QED
  BY <1>2, <1>3 DEF Emit

LEMMA BookType ==
  ASSUME TypeInv,
         NEW at, NEW next \in PCs, NEW what \in BookKinds, NEW which \in Nat,
         at # "push", next # "push",
         next \in InCall => at \in InCall,
         next = "toolCall" => todo > 0,
         Goto(at, next), Book(what, which)
  PROVE  TypeInv'
<1>1. TypeOK'
  BY ConstantsAssumption DEF TypeInv, TypeOK, Goto, Book, Fault, toolRows, messages,
                             emitter, loop, transport
<1>2. ControlInv'
  BY DEF TypeInv, ControlInv, Goto, Book, At, toolRows, loop
<1>. QED
  BY <1>1, <1>2 DEF TypeInv

LEMMA AddItemType ==
  ASSUME TypeInv,
         NEW at \in PCs, NEW type \in ItemTypes, NEW call \in Nat,
         NEW next \in PCs \ {"push", "toolCall"}, NEW failed \in PCs \ {"push", "toolCall"},
         at # "push",
         next \in InCall \/ failed \in InCall => at \in InCall,
         AddItem(at, type, call, next, failed),
         cites' \in 0 .. MaxCitations
  PROVE  TypeInv'
<1> DEFINE item == [type |-> type, call |-> call, seq |-> itemSeq + 1]
<1>1. item \in Item
  BY DEF TypeInv, TypeOK, Item
<1>2. items' \in Seq(Item)
  <2>1. items \in Seq(Item)
    BY DEF TypeInv, TypeOK
  <2>2. items' = items \/ items' = Append(items, item)
    BY DEF AddItem
  <2>. QED
    BY <1>1, <2>1, <2>2
<1>3. faults' \in 0 .. MaxFaults
  BY ConstantsAssumption DEF TypeInv, TypeOK, AddItem, Fault
<1>4. pc' \in PCs /\ itemSeq' \in Nat
  BY DEF TypeInv, TypeOK, AddItem
<1>5. UNCHANGED <<log, calls, results, messages, books, emitter, iter, todo, transport, ran>>
  BY DEF AddItem
<1>6. TypeOK'
  BY <1>2, <1>3, <1>4, <1>5 DEF TypeInv, TypeOK, messages, emitter, transport
<1>7. ControlInv'
  BY DEF TypeInv, ControlInv, AddItem, At, InCall, toolRows, emitter
<1>. QED
  BY <1>6, <1>7 DEF TypeInv

LEMMA TypeInit == Init => TypeInv
<1> SUFFICES ASSUME Init PROVE TypeInv
  OBVIOUS
<1>1. TypeOK
  BY ConstantsAssumption DEF Init, TypeOK, PCs, Resumes
<1>2. ControlInv
  BY DEF Init, ControlInv, At, InCall
<1>. QED
  BY <1>1, <1>2 DEF TypeInv

(* The actions that are an emit, a book entry or an item and nothing else. *)
LEMMA TypeEmits ==
  ASSUME TypeInv,
         EmitCreated \/ RecvDelta \/ EmitCallCreated \/ EmitCallFailed
           \/ EmitCitationAdded \/ EmitCallCompleted \/ EmitMessageCompleted
           \/ EmitUsageUpdated \/ EmitResponseCompleted \/ EmitResponseFailed
  PROVE  TypeInv'
<1>0. Current \in Nat
  BY DEF TypeInv, TypeOK, Current
<1>1. CASE EmitCreated
  BY <1>1, EmitType DEF EmitCreated, EventTypes, Resumes, InCall
<1>2. CASE RecvDelta
  BY <1>2, EmitType DEF RecvDelta, EventTypes, Resumes, InCall
<1>3. CASE EmitCallCreated
  BY <1>0, <1>3, EmitType DEF EmitCallCreated, EventTypes, Resumes, InCall
<1>4. CASE EmitCallFailed
  BY <1>0, <1>4, EmitType DEF EmitCallFailed, EventTypes, Resumes, InCall
<1>5. CASE EmitCitationAdded
  BY <1>0, <1>5, EmitType DEF EmitCitationAdded, EventTypes, Resumes, InCall
<1>6. CASE EmitCallCompleted
  BY <1>0, <1>6, EmitType DEF EmitCallCompleted, EventTypes, Resumes, InCall
<1>7. CASE EmitMessageCompleted
  BY <1>7, EmitType DEF EmitMessageCompleted, EventTypes, Resumes, InCall
<1>8. CASE EmitUsageUpdated
  BY <1>8, EmitType DEF EmitUsageUpdated, EventTypes, Resumes, InCall
<1>9. CASE EmitResponseCompleted
  BY <1>9, EmitType DEF EmitResponseCompleted, EventTypes, Resumes, InCall
<1>10. CASE EmitResponseFailed
  BY <1>10, EmitType DEF EmitResponseFailed, EventTypes, Resumes, InCall
<1>. QED
  BY <1>1, <1>2, <1>3, <1>4, <1>5, <1>6, <1>7, <1>8, <1>9, <1>10

LEMMA TypeBooks ==
  ASSUME TypeInv,
         AuditCreated \/ ModelFailed \/ ModelSucceeded \/ RecordToolUsage
           \/ AuditCompleted \/ AuditFailed
  PROVE  TypeInv'
<1>0. Current \in Nat /\ iter \in Nat /\ todo \in Nat
  BY ConstantsAssumption DEF TypeInv, TypeOK, Current
<1>1. CASE AuditCreated
  BY <1>1, BookType DEF AuditCreated, BookKinds, PCs, InCall
<1>2. CASE ModelFailed
  BY <1>0, <1>2, BookType DEF ModelFailed, BookKinds, PCs, InCall
<1>3. CASE ModelSucceeded
  BY <1>0, <1>3, BookType DEF ModelSucceeded, BookKinds, PCs, InCall
<1>4. CASE RecordToolUsage
  BY <1>0, <1>4, BookType DEF RecordToolUsage, BookKinds, PCs, InCall
<1>5. CASE AuditCompleted
  BY <1>5, BookType DEF AuditCompleted, BookKinds, PCs, InCall
<1>6. CASE AuditFailed
  BY <1>6, BookType DEF AuditFailed, BookKinds, PCs, InCall
<1>. QED
  BY <1>1, <1>2, <1>3, <1>4, <1>5, <1>6

LEMMA TypeItems ==
  ASSUME TypeInv,
         AppendCallItem \/ AppendCitation \/ AppendResultItem \/ AppendText
  PROVE  TypeInv'
<1>0. Current \in Nat /\ cites \in 0 .. MaxCitations /\ MaxCitations \in Nat
  BY ConstantsAssumption DEF TypeInv, TypeOK, Current
<1>1. CASE AppendCallItem
  BY <1>0, <1>1, AddItemType DEF AppendCallItem, ItemTypes, PCs, InCall
<1>2. CASE AppendCitation
  <2>1. cites' \in 0 .. MaxCitations
    BY <1>0, <1>2 DEF AppendCitation
  <2>. QED
    BY <1>0, <1>2, <2>1, AddItemType DEF AppendCitation, ItemTypes, PCs, InCall
<1>3. CASE AppendResultItem
  BY <1>0, <1>3, AddItemType DEF AppendResultItem, ItemTypes, PCs, InCall
<1>4. CASE AppendText
  <2>1. /\ AddItem("text", "text", 0, "messageCompleted", "fail")
        /\ cites' \in 0 .. MaxCitations
    BY <1>0, <1>4 DEF AppendText
  <2>2. /\ "text" \in PCs /\ "text" \in ItemTypes /\ "text" # "push" /\ 0 \in Nat
        /\ {"messageCompleted", "fail"} \subseteq PCs \ {"push", "toolCall"}
        /\ "messageCompleted" \notin InCall /\ "fail" \notin InCall
    BY DEF PCs, ItemTypes, InCall
  <2>. QED
    BY <2>1, <2>2, AddItemType
<1>. QED
  BY <1>1, <1>2, <1>3, <1>4

(* A step that moves on, outside of any call, and leaves everything but    *)
(* the message and a counter alone.                                        *)
LEMMA MoveType ==
  ASSUME TypeInv, pc' \in PCs, pc' \notin InCall \cup {"push", "toolCall"},
         user' \in {"none", "message", "item"},
         status' \in {"none", "in_progress", "completed", "failed"},
         handler' \in {"calling", "rejected", "streaming", "finished", "broken", "crashed"},
         iter' \in 0 .. MaxToolIterations, todo' \in 0 .. MaxCalls, faults' \in 0 .. MaxFaults,
         UNCHANGED <<log, toolRows, books, emitter, itemSeq, cites, sent, taken, ctx, ran>>
  PROVE  TypeInv'
<1>1. TypeOK'
  BY DEF TypeInv, TypeOK, toolRows, emitter
<1>2. ControlInv'
  BY DEF ControlInv, At
<1>. QED
  BY <1>1, <1>2 DEF TypeInv

LEMMA TypePrepare == TypeInv /\ Prepare => TypeInv'
<1> SUFFICES ASSUME TypeInv, Prepare PROVE TypeInv'
  OBVIOUS
<1>0. /\ user \in {"none", "message", "item"}
      /\ status \in {"none", "in_progress", "completed", "failed"}
      /\ handler \in {"calling", "rejected", "streaming", "finished", "broken", "crashed"}
      /\ faults \in 0 .. MaxFaults /\ iter \in 0 .. MaxToolIterations /\ todo \in 0 .. MaxCalls
  BY DEF TypeInv, TypeOK
<1>1. CtxFault => faults' \in 0 .. MaxFaults
  BY <1>0, ConstantsAssumption DEF CtxFault, Fault
<1>2. /\ {"userMessage", "userItem", "assistantMessage", "created", "rejected"} \subseteq PCs
      /\ {"userMessage", "userItem", "assistantMessage", "created", "rejected"}
           \cap (InCall \cup {"push", "toolCall"}) = {}
  BY DEF PCs, InCall
<1>3. CASE EnsureConversation
  <2>1. /\ pc' \in {"userMessage", "rejected"} /\ handler' \in {handler, "rejected"}
        /\ UNCHANGED <<messages, faults, log, toolRows, books, emitter, loop, sent, taken, ctx, ran>>
    BY <1>3 DEF EnsureConversation, Reject
  <2>. QED
    BY <1>0, <1>2, <2>1, MoveType DEF messages, loop
<1>4. CASE CreateUserMessage
  <2>1. /\ pc' \in {"userItem", "rejected"} /\ handler' \in {handler, "rejected"}
        /\ user' \in {user, "message"} /\ status' = status
        /\ faults' = faults \/ CtxFault
        /\ UNCHANGED <<log, toolRows, books, emitter, loop, sent, taken, ctx, ran>>
    BY <1>4 DEF CreateUserMessage, Reject, messages
  <2>. QED
    BY <1>0, <1>1, <1>2, <2>1, MoveType DEF loop
<1>5. CASE AppendUserItem
  <2>1. /\ pc' \in {"assistantMessage", "rejected"} /\ handler' \in {handler, "rejected"}
        /\ user' \in {user, "item"} /\ status' = status
        /\ faults' = faults \/ CtxFault
        /\ UNCHANGED <<log, toolRows, books, emitter, loop, sent, taken, ctx, ran>>
    BY <1>5 DEF AppendUserItem, Reject, messages
  <2>. QED
    BY <1>0, <1>1, <1>2, <2>1, MoveType DEF loop
<1>6. CASE CreateAssistantMessage
  <2>1. /\ pc' \in {"created", "rejected"} /\ handler' \in {"streaming", "rejected"}
        /\ user' = user /\ status' \in {status, "in_progress"}
        /\ faults' = faults \/ CtxFault
        /\ UNCHANGED <<log, toolRows, books, emitter, loop, sent, taken, ctx, ran>>
    BY <1>6 DEF CreateAssistantMessage, Reject, messages
  <2>. QED
    BY <1>0, <1>1, <1>2, <2>1, MoveType DEF loop
<1>. QED
  BY <1>3, <1>4, <1>5, <1>6 DEF Prepare

LEMMA AppendFacts ==
  ASSUME NEW S, NEW s \in Seq(S), NEW e \in S
  PROVE  /\ Append(s, e) \in Seq(S)
         /\ Len(Append(s, e)) = Len(s) + 1
         /\ \A i \in 1 .. Len(s) : Append(s, e)[i] = s[i]
         /\ Append(s, e)[Len(s) + 1] = e
         /\ DOMAIN s = 1 .. Len(s)
         /\ DOMAIN Append(s, e) = 1 .. Len(s) + 1
  OBVIOUS

LEMMA ExceptType ==
  ASSUME NEW S, NEW s \in Seq(S), NEW i, NEW e \in S
  PROVE  [s EXCEPT ![i] = e] \in Seq(S) /\ Len([s EXCEPT ![i] = e]) = Len(s)
<1> DEFINE t == [s EXCEPT ![i] = e]
<1>1. Len(s) \in Nat /\ s \in [1 .. Len(s) -> S]
  OBVIOUS
<1>2. t \in [1 .. Len(s) -> S]
  BY <1>1
<1>. QED
  BY <1>1, <1>2

(* In the handling of a call, the call is the last one recorded.           *)
LEMMA CurrentIsACall ==
  ASSUME TypeInv, pc \in InCall
  PROVE  Current \in 1 .. Len(calls)
<1>1. At = pc
  BY DEF At, InCall
<1>. QED
  BY <1>1 DEF TypeInv, TypeOK, ControlInv, Current

(* The steps of the loop that are neither emit, book entry nor item.       *)
LEMMA TypeLocal ==
  ASSUME TypeInv,
         BuildModelMessages \/ BeginTurn \/ RecvError \/ RecvEOF \/ CreateToolCall
           \/ ExecuteTool \/ ToolNotFound \/ CallFailed \/ CallSucceeded \/ SaveResult
           \/ SkipText \/ CompleteMessage \/ FailMessage
  PROVE  TypeInv'
<1> DEFINE Statuses == {"running", "succeeded", "failed"}
<1>a. calls \in Seq(Statuses) /\ Current = Len(calls) /\ Current \in Nat
  BY DEF TypeInv, TypeOK, Current
<1>b. results \subseteq 1 .. Len(calls) /\ ran \subseteq 1 .. Len(calls)
  BY DEF TypeInv, TypeOK
<1>c. CreateToolCall => /\ calls' \in Seq(Statuses)
                        /\ Len(calls') \in {Len(calls), Len(calls) + 1}
                        /\ pc' = "callCreated" => Len(calls') = Len(calls) + 1
                        /\ results' \subseteq 1 .. Len(calls')
                        /\ ran' \subseteq 1 .. Len(calls')
  BY <1>a, <1>b, AppendFacts DEF CreateToolCall
<1>d. ExecuteTool => UNCHANGED calls /\ ran' \subseteq 1 .. Len(calls)
  BY <1>b, CurrentIsACall DEF ExecuteTool, InCall, durable, toolRows
<1>e. SaveResult => UNCHANGED calls /\ results' \subseteq 1 .. Len(calls)
  BY <1>b, CurrentIsACall DEF SaveResult, InCall
<1>f. CallFailed \/ CallSucceeded => calls' \in Seq(Statuses) /\ Len(calls') = Len(calls)
  BY <1>a, ExceptType DEF CallFailed, CallSucceeded
<1>g. /\ user \in {"none", "message", "item"}
      /\ status \in {"none", "in_progress", "completed", "failed"}
      /\ handler \in {"calling", "rejected", "streaming", "finished", "broken", "crashed"}
      /\ faults \in 0 .. MaxFaults /\ iter \in 0 .. MaxToolIterations /\ todo \in 0 .. MaxCalls
  BY DEF TypeInv, TypeOK
<1>h. (CtxFault => faults' \in 0 .. MaxFaults) /\ (Fault => faults' \in 0 .. MaxFaults)
  BY <1>g, ConstantsAssumption DEF CtxFault, Fault
<1> DEFINE Places == {"turn", "fail", "recv", "modelFailed", "modelSucceeded",
                      "messageCompleted", "responseCompleted", "auditFailed"}
<1>i. Places \subseteq PCs /\ Places \cap (InCall \cup {"push", "toolCall"}) = {}
  BY DEF PCs, InCall
<1>j. ASSUME pc' \in Places, status' \in {status, "completed", "failed"},
             iter' \in 0 .. MaxToolIterations, todo' \in 0 .. MaxCalls, faults' \in 0 .. MaxFaults,
             UNCHANGED <<log, toolRows, user, books, emitter, itemSeq, cites, transport, ran>>
      PROVE  TypeInv'
  <2>1. /\ UNCHANGED <<log, toolRows, books, emitter, itemSeq, cites, sent, taken, ctx, ran>>
        /\ handler' = handler /\ user' = user
        /\ status' \in {"none", "in_progress", "completed", "failed"}
    BY <1>g, <1>j DEF transport
  <2>2. pc' \in PCs /\ pc' \notin InCall \cup {"push", "toolCall"}
    BY <1>i, <1>j
  <2> HIDE DEF Places
  <2>. QED
    BY <1>g, <1>j, <2>1, <2>2, MoveType
<1>1. CASE BuildModelMessages
  BY <1>1, <1>g, <1>h, <1>j DEF BuildModelMessages, durable, messages, loop
<1>2. CASE BeginTurn
  <2>1. iter' \in 0 .. MaxToolIterations
    BY <1>2, <1>g, ConstantsAssumption DEF BeginTurn
  <2>. QED
    BY <1>2, <1>g, <1>j, <2>1 DEF BeginTurn, durable, messages
<1>3. CASE RecvError
  BY <1>3, <1>g, <1>j DEF RecvError, Goto, durable, messages, loop
<1>4. CASE RecvEOF
  BY <1>4, <1>g, <1>j DEF RecvEOF, durable, messages
<1>11. CASE SkipText
  BY <1>11, <1>g, <1>j DEF SkipText, Goto, durable, messages, loop
<1>12. CASE CompleteMessage
  BY <1>12, <1>g, <1>h, <1>j DEF CompleteMessage, loop
<1>13. CASE FailMessage
  BY <1>13, <1>g, <1>h, <1>j DEF FailMessage, Goto, loop
<1> USE ConstantsAssumption DEF TypeInv, TypeOK, ControlInv, CtxFault, Fault, Goto, At, InCall,
        PCs, durable, toolRows, messages, emitter, loop, transport
<1>5. CASE CreateToolCall
  <2>1. /\ calls' \in Seq(Statuses)
        /\ Len(calls') \in {Len(calls), Len(calls) + 1}
        /\ pc' = "callCreated" => Len(calls') = Len(calls) + 1
    BY <1>5, <1>c
  <2>2. pc' \in {"callCreated", "fail"} /\ todo' \in 0 .. MaxCalls /\ faults' \in 0 .. MaxFaults
    BY <1>5 DEF CreateToolCall
  <2>3. results' \subseteq 1 .. Len(calls') /\ ran' \subseteq 1 .. Len(calls')
    BY <1>5, <1>c
  <2>4. UNCHANGED <<log, items, messages, books, emitter, itemSeq, iter, cites, transport>>
    BY <1>5 DEF CreateToolCall
  <2>5. TypeOK'
    BY <2>1, <2>2, <2>3, <2>4
  <2>6. ControlInv'
    BY <1>a, <2>1, <2>2
  <2>. QED
    BY <2>5, <2>6
<1>6. CASE ExecuteTool
  <2>1. ran' \subseteq 1 .. Len(calls') /\ UNCHANGED calls
    BY <1>6, <1>d
  <2>2. pc' \in {"callSucceeded", "callFailed", "fail"} /\ cites' \in 0 .. MaxCitations
    BY <1>6 DEF ExecuteTool
  <2>3. UNCHANGED <<durable, emitter, itemSeq, iter, todo, transport, faults>>
    BY <1>6 DEF ExecuteTool
  <2>4. TypeOK'
    BY <2>1, <2>2, <2>3
  <2>5. ControlInv'
    BY <1>6, <2>1, <2>2 DEF ExecuteTool
  <2>. QED
    BY <2>4, <2>5
<1>7. CASE ToolNotFound
  BY <1>7 DEF ToolNotFound
<1>8. CASE CallFailed
  <2>1. calls' \in Seq(Statuses) /\ Len(calls') = Len(calls)
    BY <1>8, <1>f
  <2>2. pc' \in {"emitCallFailed"} /\ faults' \in 0 .. MaxFaults
    BY <1>8 DEF CallFailed
  <2>3. UNCHANGED <<log, items, results, messages, books, emitter, loop, transport, ran>>
    BY <1>8 DEF CallFailed
  <2>4. TypeOK'
    BY <2>1, <2>2, <2>3
  <2>5. ControlInv'
    BY <1>8, <2>1, <2>2 DEF CallFailed
  <2>. QED
    BY <2>4, <2>5
<1>9. CASE CallSucceeded
  <2>1. calls' \in Seq(Statuses) /\ Len(calls') = Len(calls)
    BY <1>9, <1>f
  <2>2. pc' \in {"saveResult", "fail"} /\ faults' \in 0 .. MaxFaults
    BY <1>9 DEF CallSucceeded
  <2>3. UNCHANGED <<log, items, results, messages, books, emitter, loop, transport, ran>>
    BY <1>9 DEF CallSucceeded
  <2>4. TypeOK'
    BY <2>1, <2>2, <2>3
  <2>5. ControlInv'
    BY <1>9, <2>1, <2>2 DEF CallSucceeded
  <2>. QED
    BY <2>4, <2>5
<1>10. CASE SaveResult
  <2>1. results' \subseteq 1 .. Len(calls') /\ UNCHANGED calls
    BY <1>10, <1>e
  <2>2. pc' \in {"citation", "fail"} /\ faults' \in 0 .. MaxFaults
    BY <1>10 DEF SaveResult
  <2>3. UNCHANGED <<log, items, messages, books, emitter, loop, transport, ran>>
    BY <1>10 DEF SaveResult
  <2>4. TypeOK'
    BY <2>1, <2>2, <2>3
  <2>5. ControlInv'
    BY <1>10, <2>1, <2>2 DEF SaveResult
  <2>. QED
    BY <2>4, <2>5
<1>. QED
  BY <1>1, <1>2, <1>3, <1>4, <1>5, <1>6, <1>7, <1>8, <1>9, <1>10, <1>11, <1>12, <1>13

(* The channel, the handler, the context, the process.                     *)
LEMMA TypeTransport ==
  ASSUME TypeInv,
         Push \/ SendFinal \/ Handler \/ Disconnect \/ HandlerReturned \/ Crash
  PROVE  TypeInv'
<1>a. Push => sent' \in Seq(Event \cup {Final}) /\ taken' \in 0 .. Len(sent')
  <2> DEFINE Envelope == Event \cup {Final}
  <2>1. sent \in Seq(Envelope) /\ pending \in Envelope /\ taken \in 0 .. Len(sent)
    BY DEF TypeInv, TypeOK
  <2>2. Push => sent' \in {sent, Append(sent, pending)} /\ UNCHANGED taken
    BY DEF Push
  <2> HIDE DEF Envelope
  <2>3. Push => sent' \in Seq(Envelope) /\ taken' \in 0 .. Len(sent')
    BY <2>1, <2>2, AppendFacts
  <2>. QED
    BY <2>3 DEF Envelope
<1> USE DEF TypeInv, TypeOK, ControlInv, Goto, At, InCall, PCs, Resumes, OnEmitError,
        durable, toolRows, messages, emitter, loop, transport
<1>1. CASE Push
  <2>1. sent' \in Seq(Event \cup {Final}) /\ taken' \in 0 .. Len(sent')
    BY <1>1, <1>a
  <2>2. pc' \in PCs /\ (At' \in InCall => At \in InCall) /\ pc' # "toolCall"
    BY <1>1 DEF Push
  <2>3. UNCHANGED <<durable, emitter, loop, handler, ctx, faults, ran>>
    BY <1>1 DEF Push
  <2>4. TypeOK'
    BY <2>1, <2>2, <2>3
  <2>5. ControlInv'
    BY <2>2, <2>3
  <2>. QED
    BY <2>4, <2>5
<1>2. CASE SendFinal
  BY <1>2 DEF SendFinal
<1>3. CASE Handler
  <2> USE <1>3 DEF Handler, HandlerWrite, HandlerWriteError, HandlerFinish, HandlerTakes
  <2>1. taken' \in 0 .. Len(sent') /\ UNCHANGED sent
    OBVIOUS
  <2>2. handler' \in {"streaming", "finished", "broken"}
    OBVIOUS
  <2>3. UNCHANGED <<durable, pc, emitter, loop, ctx, faults, ran>>
    OBVIOUS
  <2>4. TypeOK'
    BY <2>1, <2>2, <2>3
  <2>5. ControlInv'
    BY <2>3
  <2>. QED
    BY <2>4, <2>5
<1>4. CASE Disconnect
  BY <1>4 DEF Disconnect, CancelContext
<1>5. CASE HandlerReturned
  BY <1>5 DEF HandlerReturned, CancelContext
<1>6. CASE Crash
  BY <1>6 DEF Crash
<1>. QED
  BY <1>1, <1>2, <1>3, <1>4, <1>5, <1>6

LEMMA TypeStep == TypeInv /\ [Next]_vars => TypeInv'
<1> SUFFICES ASSUME TypeInv, [Next]_vars PROVE TypeInv'
  OBVIOUS
<1>1. CASE RecordModelUsage
  <2>1. CASE Book("usage.model", 0)
    BY <1>1, <2>1, BookType DEF RecordModelUsage, BookKinds, PCs, InCall
  <2>2. CASE UNCHANGED <<durable, emitter, loop, transport, faults, ran>>
    BY <1>1, <2>2 DEF RecordModelUsage, Goto, TypeInv, TypeOK, ControlInv, PCs, At, InCall,
         durable, toolRows, messages, emitter, loop, transport
  <2>. QED
    BY <1>1, <2>1, <2>2 DEF RecordModelUsage
<1>2. CASE UNCHANGED vars
  BY <1>2 DEF vars, TypeInv, TypeOK, ControlInv, At,
       durable, toolRows, messages, emitter, loop, transport
<1>. QED
  BY <1>1, <1>2, TypePrepare, TypeEmits, TypeBooks, TypeItems, TypeLocal, TypeTransport
     DEF Next, Goroutine, Loop, Tool, Finish

(* Every variable keeps its type, every counter its bound, and no response *)
(* makes more than MaxToolIterations model calls.                          *)
THEOREM TypeCorrect == Spec => []TypeOK
<1>1. Spec => []TypeInv
  BY TypeInit, TypeStep, PTL DEF Spec
<1>2. TypeInv => TypeOK
  BY DEF TypeInv
<1>. QED
  BY <1>1, <1>2, PTL

-----------------------------------------------------------------------------
(* The actions fall into three classes: emits, the push, and the steps     *)
(* that touch neither log nor emitter.                                     *)

EmitStep == \/ EmitCreated \/ RecvDelta \/ EmitCallCreated \/ EmitCallFailed
            \/ EmitCitationAdded \/ EmitCallCompleted \/ EmitMessageCompleted
            \/ EmitUsageUpdated \/ EmitResponseCompleted \/ EmitResponseFailed

(* The goroutine never leaves an end, and never leaves the error path but  *)
(* for an end.                                                             *)
Onward == \/ pc' = pc
          \/ pc' \in Halted
          \/ pc' \in Failing /\ pc \notin Halted \cup {"push"}
          \/ pc' # "push" /\ pc \notin Halted \cup Failing \cup {"push"}

Quiet == UNCHANGED <<log, emitter>> /\ Onward

LEMMA StepClasses == [Next]_vars => EmitStep \/ Push \/ Quiet
<1> SUFFICES ASSUME [Next]_vars, ~EmitStep, ~Push PROVE Quiet
  OBVIOUS
<1> USE DEF Quiet, Onward, Halted, Failing, Goto, durable, toolRows, messages, loop, transport
<1>1. CASE Prepare
  BY <1>1 DEF Prepare, EnsureConversation, CreateUserMessage, AppendUserItem,
              CreateAssistantMessage, Reject
<1>2. CASE AuditCreated \/ ModelFailed \/ ModelSucceeded \/ RecordToolUsage \/ RecordModelUsage
             \/ AuditCompleted \/ AuditFailed
  BY <1>2 DEF AuditCreated, ModelFailed, ModelSucceeded, RecordToolUsage, RecordModelUsage,
              AuditCompleted, AuditFailed, Book
<1>3. CASE AppendCallItem \/ AppendCitation \/ AppendResultItem \/ AppendText
  BY <1>3 DEF AppendCallItem, AppendCitation, AppendResultItem, AppendText, AddItem
<1>4. CASE BuildModelMessages \/ BeginTurn \/ RecvError \/ RecvEOF \/ SkipText
             \/ CompleteMessage \/ FailMessage \/ SendFinal
  BY <1>4 DEF BuildModelMessages, BeginTurn, RecvError, RecvEOF, SkipText, CompleteMessage,
              FailMessage, SendFinal
<1>5. CASE CreateToolCall \/ ExecuteTool \/ ToolNotFound \/ CallFailed \/ CallSucceeded
             \/ SaveResult
  BY <1>5 DEF CreateToolCall, ExecuteTool, ToolNotFound, CallFailed, CallSucceeded, SaveResult
<1>6. CASE Handler \/ Disconnect \/ HandlerReturned \/ Crash
  BY <1>6 DEF Handler, HandlerWrite, HandlerWriteError, HandlerFinish, HandlerTakes,
              Disconnect, HandlerReturned, CancelContext, Crash
<1>7. CASE UNCHANGED vars
  BY <1>7 DEF vars
<1>. QED
  BY <1>1, <1>2, <1>3, <1>4, <1>5, <1>6, <1>7
     DEF Next, Goroutine, Loop, Tool, Finish, EmitStep

(* Every emit is an Emit from a place where the run may go on; only fail   *)
(* itself emits response.failed, from its last place.                      *)
LEMMA EmitForm ==
  ASSUME TypeInv, EmitStep
  PROVE  \E at \in PCs \ (Halted \cup {"push"}), type \in EventTypes,
            call \in Nat, next \in Resumes :
           /\ Emit(at, type, call, next)
           /\ IF type = "response.failed" THEN next = "final"
              ELSE at \notin Failing /\ next # "final"
           /\ next = "callItem" => type = "tool_call.created" /\ call = Current
<1>0. Current \in Nat
  BY DEF TypeInv, TypeOK, Current
<1> USE DEF PCs, Halted, Failing, EventTypes, Resumes
<1>1. CASE EmitCreated
  BY <1>1 DEF EmitCreated
<1>2. CASE RecvDelta
  BY <1>2 DEF RecvDelta
<1>3. CASE EmitCallCreated
  BY <1>0, <1>3 DEF EmitCallCreated
<1>4. CASE EmitCallFailed
  BY <1>0, <1>4 DEF EmitCallFailed
<1>5. CASE EmitCitationAdded
  BY <1>0, <1>5 DEF EmitCitationAdded
<1>6. CASE EmitCallCompleted
  BY <1>0, <1>6 DEF EmitCallCompleted
<1>7. CASE EmitMessageCompleted
  BY <1>7 DEF EmitMessageCompleted
<1>8. CASE EmitUsageUpdated
  BY <1>8 DEF EmitUsageUpdated
<1>9. CASE EmitResponseCompleted
  BY <1>9 DEF EmitResponseCompleted
<1>10. CASE EmitResponseFailed
  BY <1>10 DEF EmitResponseFailed
<1>. QED
  BY <1>1, <1>2, <1>3, <1>4, <1>5, <1>6, <1>7, <1>8, <1>9, <1>10 DEF EmitStep

-----------------------------------------------------------------------------
(* The log has no holes before the failure of the run.                     *)

LEMMA SeqInit == Init => SeqInv
  BY DEF Init, SeqInv, FailedLogged, Halted, Failing

LEMMA SeqEmit ==
  ASSUME TypeInv, SeqInv,
         NEW at \in PCs \ (Halted \cup {"push"}), NEW type \in EventTypes,
         NEW call \in Nat, NEW next \in Resumes,
         Emit(at, type, call, next),
         IF type = "response.failed" THEN next = "final"
         ELSE at \notin Failing /\ next # "final"
  PROVE  SeqInv'
<1> DEFINE event == [type |-> type, call |-> call, seq |-> seq + 1]
<1>1. /\ log \in Seq(Event) /\ event \in Event /\ seq \in Nat /\ Len(log) \in Nat
  BY DEF TypeInv, TypeOK, Event
<1>2. /\ Len(log) <= seq
      /\ \A i \in 1 .. Len(log) : log[i].type # "response.failed" /\ log[i].seq = i
      /\ at \notin Failing => seq = Len(log)
  BY <1>1 DEF SeqInv, FailedLogged, Emit
<1>3. CASE /\ log' = Append(log, event) /\ pending' = event
           /\ resume' = next /\ pc' = "push"
  <2>1. /\ Len(log') = Len(log) + 1
        /\ DOMAIN log' = 1 .. Len(log) + 1
        /\ \A i \in 1 .. Len(log) : log'[i] = log[i]
        /\ log'[Len(log) + 1] = event
    BY <1>1, <1>3, AppendFacts
  <2>2. seq' = seq + 1
    BY DEF Emit
  <2>3. \A i \in DOMAIN log' :
          IF log'[i].type = "response.failed" THEN i = Len(log') /\ i <= log'[i].seq
                                              ELSE log'[i].seq = i
    <3> SUFFICES ASSUME NEW i \in 1 .. Len(log) + 1
                 PROVE  IF log'[i].type = "response.failed"
                        THEN i = Len(log') /\ i <= log'[i].seq
                        ELSE log'[i].seq = i
      BY <2>1
    <3>1. CASE i \in 1 .. Len(log)
      BY <1>2, <2>1, <3>1
    <3>2. CASE i = Len(log) + 1
      BY <1>1, <1>2, <2>1, <3>2
    <3>. QED
      BY <1>1, <3>1, <3>2
  <2>4. /\ Len(log') > 0 /\ pending' = log'[Len(log')]
        /\ IF pending'.type = "response.failed"
           THEN resume' = "final"
           ELSE resume' # "final" /\ seq' = Len(log')
    BY <1>1, <1>2, <1>3, <2>1, <2>2
  <2>. QED
    BY <1>3, <2>3, <2>4 DEF SeqInv, Halted, Failing
<1>4. CASE pc' = OnEmitError(type) /\ UNCHANGED log
  <2>1. pc' \in Failing \cup {"final"} /\ seq' = seq + 1 /\ Len(log') <= seq'
    BY <1>1, <1>2, <1>4 DEF OnEmitError, Failing, Emit
  <2>. QED
    BY <1>1, <1>2, <1>4, <2>1 DEF SeqInv, FailedLogged, Halted, Failing
<1>5. CASE pc' = OnEmitError(type) /\ log' = Append(log, event)
  <2>1. /\ Len(log') = Len(log) + 1
        /\ DOMAIN log' = 1 .. Len(log) + 1
        /\ \A i \in 1 .. Len(log) : log'[i] = log[i]
        /\ log'[Len(log) + 1] = event
    BY <1>1, <1>5, AppendFacts
  <2>2. seq' = seq + 1 /\ Len(log') <= seq'
    BY <1>1, <1>2, <2>1 DEF Emit
  <2>3. \A i \in 1 .. Len(log) : log'[i].type # "response.failed" /\ log'[i].seq = i
    BY <1>2, <2>1
  <2>4. CASE type = "response.failed"
    <3>1. pc' = "final"
      BY <1>5, <2>4 DEF OnEmitError
    <3>. QED
      BY <1>1, <1>2, <2>1, <2>2, <2>3, <2>4, <3>1 DEF SeqInv, Halted
  <2>5. CASE type # "response.failed"
    <3>1. pc' = "fail" /\ event.seq = Len(log) + 1
      BY <1>1, <1>2, <1>5, <2>5 DEF OnEmitError, Emit
    <3>. QED
      BY <1>1, <1>2, <2>1, <2>2, <2>3, <2>5, <3>1 DEF SeqInv, FailedLogged, Halted, Failing
  <2>. QED
    BY <2>4, <2>5
<1>. QED
  BY <1>3, <1>4, <1>5 DEF Emit

LEMMA SeqPush ==
  ASSUME TypeInv, SeqInv, Push
  PROVE  SeqInv'
<1>1. log \in Seq(Event) /\ seq \in Nat /\ Len(log) \in Nat /\ DOMAIN log = 1 .. Len(log)
  BY DEF TypeInv, TypeOK
<1>2. /\ UNCHANGED <<log, seq, pending, resume>>
      /\ pc = "push" /\ pc' \in {resume, OnEmitError(pending.type)}
      /\ resume \in Resumes
  BY DEF Push, emitter, durable, TypeInv, TypeOK
<1>3. CASE pending.type = "response.failed"
  BY <1>2, <1>3 DEF SeqInv, OnEmitError, Halted, FailedLogged
<1>4. CASE pending.type # "response.failed"
  <2>1. ~FailedLogged /\ seq = Len(log)
    BY <1>1, <1>2, <1>4 DEF SeqInv, FailedLogged
  <2>2. pc' # "push"
    BY <1>2, <1>4 DEF OnEmitError, Resumes
  <2>. QED
    BY <1>1, <1>2, <2>1, <2>2 DEF SeqInv, FailedLogged
<1>. QED
  BY <1>3, <1>4

LEMMA SeqStep == TypeInv /\ SeqInv /\ [Next]_vars => SeqInv'
<1> SUFFICES ASSUME TypeInv, SeqInv, [Next]_vars PROVE SeqInv'
  OBVIOUS
<1>1. CASE EmitStep
  <2>1. PICK at \in PCs \ (Halted \cup {"push"}), type \in EventTypes,
             call \in Nat, next \in Resumes :
               /\ Emit(at, type, call, next)
               /\ IF type = "response.failed" THEN next = "final"
                  ELSE at \notin Failing /\ next # "final"
    BY <1>1, EmitForm
  <2>. QED
    BY <2>1, SeqEmit
<1>2. CASE Push
  BY <1>2, SeqPush
<1>3. CASE Quiet
  BY <1>3 DEF Quiet, Onward, SeqInv, FailedLogged, emitter, Halted, Failing
<1>. QED
  BY <1>1, <1>2, <1>3, StepClasses

LEMMA SeqAlways == Spec => [](TypeInv /\ SeqInv)
  BY TypeInit, TypeStep, SeqInit, SeqStep, PTL DEF Spec

(* Replay by seq finds the events 1, 2, 3, ... of a response, with a hole  *)
(* at most right before its response.failed, whichever writes failed.      *)
THEOREM LogIsDense == Spec => []SeqWithoutHoles
<1>1. TypeInv /\ SeqInv => SeqWithoutHoles
  BY DEF SeqInv, SeqWithoutHoles
<1>. QED
  BY <1>1, SeqAlways, PTL

-----------------------------------------------------------------------------
(* What is pushed is the log: one event behind during a push, and complete *)
(* unless the request is cut.                                              *)

LEMMA SentInit == Init => SentInv
  BY DEF Init, SentInv, Entry, Lag, HeardInv, Halted, Failing, Preparing

LEMMA SentTypes ==
  ASSUME TypeInv
  PROVE  /\ log \in Seq(Event) /\ Len(log) \in Nat /\ DOMAIN log = 1 .. Len(log)
         /\ sent \in Seq(Event \cup {Final}) /\ Len(sent) \in Nat
         /\ DOMAIN sent = 1 .. Len(sent)
         /\ taken \in Nat /\ taken <= Len(sent)
         /\ pending \in Event \cup {Final} /\ resume \in Resumes
  BY DEF TypeInv, TypeOK

LEMMA FinalIsNoEvent == Final \notin Event
  BY DEF Final, Event, EventTypes

(* What an emit logs is about to be pushed, or was not heard of.           *)
LEMMA HeardEmit ==
  ASSUME TypeInv, SeqInv, HeardInv,
         NEW at \in PCs \ (Halted \cup {"push"}), NEW type \in EventTypes,
         NEW call \in Nat, NEW next \in Resumes,
         Emit(at, type, call, next),
         \A i \in DOMAIN sent : i <= Len(log) /\ sent[i] = log[i]
  PROVE  HeardInv'
<1> DEFINE event == [type |-> type, call |-> call, seq |-> seq + 1]
<1>1. /\ log \in Seq(Event) /\ event \in Event /\ Len(log) \in Nat
      /\ seq \in Nat /\ unheard \subseteq 1 .. seq
  BY DEF TypeInv, TypeOK, Event
<1>2. pc = at /\ at \notin {"push", "crashed"} /\ UNCHANGED <<sent, ctx>>
  BY DEF Emit, transport, Halted
<1>3. \A i \in 1 .. Len(log) : log[i].seq <= seq
  BY <1>1, <1>2 DEF SeqInv, FailedLogged
<1>4. \A i \in DOMAIN sent : sent[i].seq <= seq
  BY <1>1, <1>3, SentTypes
<1>5. ctx = "live" => \A i \in 1 .. Len(log) :
        log[i].seq \in unheard \/ \E j \in DOMAIN sent : sent[j] = log[i]
  BY <1>1, <1>2 DEF HeardInv, SentOn
<1>6. CASE log' = Append(log, event) /\ pc' = "push" /\ pending' = event /\ UNCHANGED unheard
  <2>1. /\ DOMAIN log' = 1 .. Len(log) + 1 /\ Len(log') = Len(log) + 1
        /\ \A i \in 1 .. Len(log) : log'[i] = log[i]
    BY <1>1, <1>6, AppendFacts
  <2>2. \A i \in DOMAIN log' : i \in 1 .. Len(log) \/ i = Len(log')
    BY <1>1, <2>1
  <2>3. ctx' = "live" => \A i \in DOMAIN log' : SentOn(i)'
    BY <1>2, <1>5, <1>6, <2>1, <2>2 DEF SentOn
  <2>4. pending'.seq \notin unheard'
    BY <1>1, <1>6
  <2>. QED
    BY <1>2, <1>6, <2>3, <2>4 DEF HeardInv
<1>7. CASE pc' = OnEmitError(type) /\ UNCHANGED <<log, unheard>>
  BY <1>2, <1>5, <1>7, SentTypes DEF HeardInv, SentOn, OnEmitError
<1>8. CASE /\ pc' = OnEmitError(type)
           /\ log' = Append(log, event) /\ unheard' = unheard \cup {event.seq}
  <2>1. /\ DOMAIN log' = 1 .. Len(log) + 1 /\ log'[Len(log) + 1] = event
        /\ \A i \in 1 .. Len(log) : log'[i] = log[i]
    BY <1>1, <1>8, AppendFacts
  <2>2. ctx' = "live" => \A i \in DOMAIN log' : SentOn(i)'
    <3> SUFFICES ASSUME ctx = "live", NEW i \in 1 .. Len(log) + 1 PROVE SentOn(i)'
      BY <1>2, <2>1
    <3>1. CASE i \in 1 .. Len(log)
      BY <1>2, <1>5, <1>8, <2>1, <3>1 DEF SentOn
    <3>2. CASE i = Len(log) + 1
      BY <1>8, <2>1, <3>2 DEF SentOn
    <3>. QED
      BY <1>1, <3>1, <3>2
  <2>3. \A j \in DOMAIN sent' : sent'[j] # Final => sent'[j].seq \notin unheard'
    <3> SUFFICES ASSUME NEW j \in DOMAIN sent, sent[j] # Final, sent[j].seq \in unheard'
                 PROVE  FALSE
      BY <1>2
    <3>1. sent[j].seq \notin unheard
      BY DEF HeardInv
    <3>2. sent[j].seq = seq + 1
      BY <1>8, <3>1
    <3>. QED
      BY <1>1, <1>4, <3>2
  <2>. QED
    BY <1>8, <2>2, <2>3 DEF HeardInv, OnEmitError
<1>. QED
  BY <1>6, <1>7, <1>8 DEF Emit

LEMMA SentEmit ==
  ASSUME TypeInv, SeqInv, SentInv,
         NEW at \in PCs \ (Halted \cup {"push"}), NEW type \in EventTypes,
         NEW call \in Nat, NEW next \in Resumes,
         Emit(at, type, call, next),
         IF type = "response.failed" THEN next = "final"
         ELSE at \notin Failing /\ next # "final"
  PROVE  SentInv'
<1> DEFINE event == [type |-> type, call |-> call, seq |-> seq + 1]
           Plain(i) == sent[i].type # "response.failed" /\ i <= Len(log) /\ sent[i] = log[i]
<1>0. log \in Seq(Event) /\ event \in Event
  BY DEF TypeInv, TypeOK, Event
<1>1. Len(log) \in Nat /\ Len(sent) \in Nat
  BY SentTypes
<1>2. DOMAIN log = 1 .. Len(log) /\ DOMAIN sent = 1 .. Len(sent)
  BY SentTypes
<1>3. UNCHANGED <<sent, taken, handler, ctx>> /\ pc = at
  BY DEF Emit, transport
<1>4. at \notin {"final", "ended", "crashed", "push"}
  BY DEF Halted
<1>5. \A i \in DOMAIN sent : Plain(i)
  <2>1. \A i \in DOMAIN sent : Entry(i)
    BY DEF SentInv
  <2>. QED
    BY <1>3, <1>4, <2>1 DEF Entry
<1>6. Len(sent) <= Len(log) /\ (at \notin Failing => Len(sent) = Len(log))
  <2>1. Lag
    BY DEF SentInv
  <2>2. CASE at \in Failing
    BY <1>3, <1>4, <2>1, <2>2 DEF Lag
  <2>3. CASE at \notin Failing
    BY <1>1, <1>3, <2>1, <2>3 DEF Lag
  <2>. QED
    BY <2>2, <2>3
<1>7. handler = "broken" => taken > 0
  BY DEF SentInv
<1>10. HeardInv'
  BY <1>5, HeardEmit DEF SentInv
<1>8. CASE /\ log' = Append(log, event) /\ pending' = event
           /\ resume' = next /\ pc' = "push"
  <2>1. /\ Len(log') = Len(log) + 1
        /\ \A i \in 1 .. Len(log) : log'[i] = log[i]
    BY <1>0, <1>8, AppendFacts
  <2>2. \A i \in DOMAIN sent' : Plain(i)'
    <3> SUFFICES ASSUME NEW i \in DOMAIN sent PROVE Plain(i)'
      BY <1>3
    <3>1. Plain(i) /\ i \in 1 .. Len(sent)
      BY <1>2, <1>5
    <3>2. i \in 1 .. Len(log) /\ i <= Len(log')
      BY <1>1, <2>1, <3>1
    <3>. QED
      BY <1>3, <2>1, <3>1, <3>2
  <2>4. Len(sent') < Len(log')
    BY <1>1, <1>3, <1>6, <2>1
  <2>5. pending'.type # "response.failed" => Len(sent') + 1 = Len(log')
    BY <1>3, <1>6, <1>8, <2>1
  <2>6. Lag'
    BY <1>8, <2>4, <2>5 DEF Lag, Halted, Failing
  <2>. QED
    BY <1>3, <1>7, <1>8, <1>10, <2>2, <2>6 DEF SentInv, Entry, Preparing
<1>9. CASE pc' = OnEmitError(type) /\ log' \in {log, Append(log, event)}
  <2>1. pc' \in {"fail", "final"}
    BY <1>9 DEF OnEmitError
  <2>2. Len(log') \in {Len(log), Len(log) + 1} /\ \A i \in 1 .. Len(log) : log'[i] = log[i]
    BY <1>0, <1>9, AppendFacts
  <2>3. \A i \in DOMAIN sent' : Plain(i)'
    <3> SUFFICES ASSUME NEW i \in DOMAIN sent PROVE Plain(i)'
      BY <1>3
    <3>1. Plain(i) /\ i \in 1 .. Len(sent)
      BY <1>2, <1>5
    <3>2. i \in 1 .. Len(log) /\ i <= Len(log')
      BY <1>1, <2>2, <3>1
    <3>. QED
      BY <1>3, <2>2, <3>1, <3>2
  <2>4. Lag'
    BY <1>1, <1>3, <1>6, <2>1, <2>2 DEF Lag, Halted, Failing
  <2>. QED
    BY <1>3, <1>7, <1>10, <2>1, <2>3, <2>4 DEF SentInv, Entry, Preparing
<1>. QED
  BY <1>8, <1>9 DEF Emit

LEMMA SentPush ==
  ASSUME TypeInv, SeqInv, SentInv, Push
  PROVE  SentInv'
<1> DEFINE Envelope == Event \cup {Final}
           Plain(i) == sent[i].type # "response.failed" /\ i <= Len(log) /\ sent[i] = log[i]
<1>0. sent \in Seq(Envelope) /\ pending \in Envelope
  BY SentTypes
<1>1. Len(log) \in Nat /\ Len(sent) \in Nat
  BY SentTypes
<1>2. DOMAIN log = 1 .. Len(log) /\ DOMAIN sent = 1 .. Len(sent)
  BY SentTypes
<1>3. /\ UNCHANGED <<log, unheard, pending, taken, handler, ctx>>
      /\ pc = "push" /\ resume \in Resumes
  BY SentTypes DEF Push, emitter, durable
<1>10. /\ ctx = "live" => \A i \in DOMAIN log : SentOn(i)
       /\ \A j \in DOMAIN sent : sent[j] # Final => sent[j].seq \notin unheard
       /\ pending.seq \notin unheard
  BY <1>3 DEF SentInv, HeardInv
<1>4. \A i \in DOMAIN sent : Plain(i)
  <2>1. \A i \in DOMAIN sent : Entry(i)
    BY DEF SentInv
  <2>. QED
    BY <1>3, <2>1 DEF Entry
<1>5. /\ Len(sent) < Len(log)
      /\ pending.type # "response.failed" => Len(sent) + 1 = Len(log)
  BY <1>3 DEF SentInv, Lag
<1>6. pending = log[Len(log)] /\ (pending.type = "response.failed" <=> resume = "final")
  BY <1>3 DEF SeqInv
<1>7. handler = "broken" => taken > 0
  BY DEF SentInv
<1>8. CASE sent' = Append(sent, pending) /\ pc' = resume
  <2>1. /\ Len(sent') = Len(sent) + 1
        /\ DOMAIN sent' = 1 .. Len(sent) + 1
        /\ \A i \in 1 .. Len(sent) : sent'[i] = sent[i]
        /\ sent'[Len(sent) + 1] = pending
    <3> HIDE DEF Envelope
    <3>. QED
      BY <1>0, <1>8, AppendFacts
  <2>2. pc' \notin {"push", "ended", "crashed"} \cup Preparing
    BY <1>3, <1>8 DEF Resumes, Preparing
  <2>3. \A i \in DOMAIN sent' : Entry(i)'
    <3> SUFFICES ASSUME NEW i \in 1 .. Len(sent) + 1 PROVE Entry(i)'
      BY <2>1
    <3>1. CASE i \in 1 .. Len(sent)
      <4>1. Plain(i) /\ sent'[i] = sent[i]
        BY <1>2, <1>4, <2>1, <3>1
      <4>. QED
        BY <1>3, <4>1 DEF Entry
    <3>2. CASE i = Len(sent) + 1
      <4>1. sent'[i] = pending /\ i <= Len(log) /\ i = Len(sent')
        BY <1>1, <1>5, <2>1, <3>2
      <4>2. CASE pending.type = "response.failed"
        BY <1>3, <1>6, <1>8, <4>1, <4>2 DEF Entry
      <4>3. CASE pending.type # "response.failed"
        <5>1. i = Len(log)
          BY <1>5, <3>2, <4>3
        <5>. QED
          BY <1>3, <1>6, <4>1, <4>3, <5>1 DEF Entry
      <4>. QED
        BY <4>2, <4>3
    <3>. QED
      BY <1>1, <3>1, <3>2
  <2>4. /\ Len(sent') <= Len(log')
        /\ pc' # "final" => Len(sent') = Len(log')
    BY <1>1, <1>3, <1>5, <1>6, <1>8, <2>1
  <2>5. Lag'
    BY <2>2, <2>4 DEF Lag, Halted, Failing
  <2>6. ctx' = "live" => \A i \in DOMAIN log' : SentOn(i)'
    <3> SUFFICES ASSUME ctx = "live", NEW i \in 1 .. Len(log) PROVE SentOn(i)'
      BY <1>2, <1>3
    <3>1. CASE i = Len(log)
      BY <1>1, <1>3, <1>6, <2>1, <3>1 DEF SentOn
    <3>2. CASE i # Len(log)
      <4>1. SentOn(i)
        BY <1>2, <1>10
      <4>2. \A j \in DOMAIN sent : j \in DOMAIN sent' /\ sent'[j] = sent[j]
        BY <1>1, <1>2, <2>1
      <4>. QED
        BY <1>3, <3>2, <4>1, <4>2 DEF SentOn
    <3>. QED
      BY <3>1, <3>2
  <2>7. \A j \in DOMAIN sent' : sent'[j] # Final => sent'[j].seq \notin unheard'
    <3> SUFFICES ASSUME NEW j \in 1 .. Len(sent) + 1, sent'[j] # Final
                 PROVE  sent'[j].seq \notin unheard
      BY <1>3, <2>1
    <3>1. CASE j = Len(sent) + 1
      BY <1>10, <2>1, <3>1
    <3>2. CASE j \in 1 .. Len(sent)
      BY <1>2, <1>10, <2>1, <3>2
    <3>. QED
      BY <1>1, <3>1, <3>2
  <2>8. HeardInv'
    BY <2>2, <2>6, <2>7 DEF HeardInv
  <2>. QED
    BY <1>3, <1>7, <2>2, <2>3, <2>5, <2>8 DEF SentInv
<1>9. CASE ctx = "done" /\ pc' = OnEmitError(pending.type) /\ UNCHANGED sent
  <2>1. pc' \in {"fail", "final"}
    BY <1>9 DEF OnEmitError
  <2>2. \A i \in DOMAIN sent' : Entry(i)'
    BY <1>3, <1>4, <1>9 DEF Entry
  <2>3. Lag'
    BY <1>1, <1>3, <1>5, <1>9, <2>1 DEF Lag, Halted, Failing
  <2>4. HeardInv'
    BY <1>3, <1>9, <1>10, <2>1 DEF HeardInv
  <2>. QED
    BY <1>3, <1>7, <2>1, <2>2, <2>3, <2>4 DEF SentInv, Preparing
<1>. QED
  BY <1>8, <1>9 DEF Push

(* The last envelope.                                                      *)
LEMMA SentFinal ==
  ASSUME TypeInv, SeqInv, SentInv, SendFinal
  PROVE  SentInv'
<1> DEFINE Envelope == Event \cup {Final}
<1>0. sent \in Seq(Envelope) /\ Final \in Envelope /\ Len(sent) \in Nat
  BY SentTypes
<1>1. /\ UNCHANGED <<log, unheard, taken, handler, ctx>> /\ pc = "final" /\ pc' = "ended"
      /\ sent' = Append(sent, Final)
  BY DEF SendFinal, Goto, emitter, durable
<1>2. /\ Len(sent') = Len(sent) + 1
      /\ DOMAIN sent' = 1 .. Len(sent) + 1 /\ DOMAIN sent = 1 .. Len(sent)
      /\ \A i \in 1 .. Len(sent) : sent'[i] = sent[i]
      /\ sent'[Len(sent) + 1] = Final
  <2> HIDE DEF Envelope
  <2>. QED
    BY <1>0, <1>1, AppendFacts
<1>3. \A i \in DOMAIN sent' : Entry(i)'
  <2> SUFFICES ASSUME NEW i \in 1 .. Len(sent) + 1 PROVE Entry(i)'
    BY <1>2
  <2>1. CASE i \in 1 .. Len(sent)
    <3>1. Entry(i) /\ sent'[i] = sent[i]
      BY <1>2, <2>1 DEF SentInv
    <3>2. sent[i].type = "response.failed" => i = Len(sent)
      <4> SUFFICES ASSUME i + 1 = Len(sent), sent[i + 1] = Final PROVE FALSE
        BY <1>1, <3>1 DEF Entry, Final
      <4>1. Entry(i + 1)
        BY <1>2, <2>1, <1>0 DEF SentInv
      <4>2. Final = log[i + 1] /\ i + 1 \in 1 .. Len(log)
        BY <1>0, <1>1, <2>1, <4>1 DEF Entry, Final
      <4>. QED
        BY <4>2, FinalIsNoEvent, SentTypes
    <3>. QED
      BY <1>1, <1>2, <3>1, <3>2 DEF Entry
  <2>2. CASE i = Len(sent) + 1
    BY <1>1, <1>2, <2>2 DEF Entry
  <2>. QED
    BY <1>0, <2>1, <2>2
<1>4. Lag'
  BY <1>1, <1>2 DEF SentInv, Lag, Halted, Failing
<1>5. HeardInv'
  <2>1. ctx = "live" => \A i \in DOMAIN log : SentOn(i)'
    <3> SUFFICES ASSUME ctx = "live", NEW i \in DOMAIN log PROVE SentOn(i)'
      OBVIOUS
    <3>1. SentOn(i)
      BY DEF SentInv, HeardInv
    <3>. QED
      BY <1>0, <1>1, <1>2, <3>1 DEF SentOn
  <2>2. \A j \in DOMAIN sent' : sent'[j] # Final => sent'[j].seq \notin unheard'
    <3> SUFFICES ASSUME NEW j \in 1 .. Len(sent) + 1, sent'[j] # Final
                 PROVE  sent'[j].seq \notin unheard
      BY <1>1, <1>2
    <3>1. j \in 1 .. Len(sent) /\ sent'[j] = sent[j]
      BY <1>0, <1>2
    <3>. QED
      BY <1>2, <3>1 DEF SentInv, HeardInv
  <2>. QED
    BY <1>1, <2>1, <2>2 DEF HeardInv
<1>. QED
  BY <1>1, <1>3, <1>4, <1>5 DEF SentInv, Preparing

(* Every other step leaves sent alone; from an end or a push it may only   *)
(* crash; only the request's end changes the context, from live to done.   *)
LEMMA Quieter ==
  ASSUME [Next]_vars, ~EmitStep, ~Push, ~SendFinal
  PROVE  /\ UNCHANGED sent
         /\ ctx' = ctx \/ ctx' = "done"
         /\ pc \in Halted \cup {"push"} => pc' \in {pc, "crashed"}
         /\ pc' = "ended" => pc = "ended"
         /\ pc' = "crashed" => pc = "crashed" \/ handler' \notin {"calling", "streaming"}
         /\ pc = "crashed" => pc' = pc /\ handler' \in {handler, "broken", "finished"}
         /\ pc' \in Preparing => /\ pc \in Preparing
                                 /\ handler = "calling" => handler' = "calling"
         /\ handler' = "broken" => \/ handler = "broken" /\ UNCHANGED taken
                                   \/ handler = "streaming" /\ taken' = taken + 1
<1> USE DEF Halted, Preparing, Goto, durable, transport
<1>1. CASE Prepare
  BY <1>1 DEF Prepare, EnsureConversation, CreateUserMessage, AppendUserItem,
              CreateAssistantMessage, Reject
<1>2. CASE AuditCreated \/ ModelFailed \/ ModelSucceeded \/ RecordToolUsage \/ RecordModelUsage
             \/ AuditCompleted \/ AuditFailed
  BY <1>2 DEF AuditCreated, ModelFailed, ModelSucceeded, RecordToolUsage, RecordModelUsage,
              AuditCompleted, AuditFailed, Book
<1>3. CASE AppendCallItem \/ AppendCitation \/ AppendResultItem \/ AppendText
  BY <1>3 DEF AppendCallItem, AppendCitation, AppendResultItem, AppendText, AddItem
<1>4. CASE BuildModelMessages \/ BeginTurn \/ RecvError \/ RecvEOF \/ SkipText
             \/ CompleteMessage \/ FailMessage
  BY <1>4 DEF BuildModelMessages, BeginTurn, RecvError, RecvEOF, SkipText, CompleteMessage,
              FailMessage
<1>5. CASE CreateToolCall \/ ExecuteTool \/ ToolNotFound \/ CallFailed \/ CallSucceeded
             \/ SaveResult
  BY <1>5 DEF CreateToolCall, ExecuteTool, ToolNotFound, CallFailed, CallSucceeded, SaveResult
<1>6. CASE Handler \/ Disconnect \/ HandlerReturned \/ Crash
  BY <1>6 DEF Handler, HandlerWrite, HandlerWriteError, HandlerFinish, HandlerTakes,
              Disconnect, HandlerReturned, CancelContext, Crash
<1>7. CASE UNCHANGED vars
  BY <1>7 DEF vars
<1>. QED
  BY <1>1, <1>2, <1>3, <1>4, <1>5, <1>6, <1>7
     DEF Next, Goroutine, Loop, Tool, Finish, EmitStep

LEMMA SentQuiet ==
  ASSUME TypeInv, SentInv, [Next]_vars, ~EmitStep, ~Push, ~SendFinal
  PROVE  SentInv'
<1>1. Quiet
  BY StepClasses
<1>2. /\ UNCHANGED <<log, sent, pending, unheard>>
      /\ ctx' = ctx \/ ctx' = "done"
      /\ pc \in Halted \cup {"push"} => pc' \in {pc, "crashed"}
      /\ pc' = "ended" => pc = "ended"
  BY <1>1, Quieter DEF Quiet, emitter
<1>3. \A i \in DOMAIN sent' : Entry(i)'
  <2> SUFFICES ASSUME NEW i \in DOMAIN sent PROVE Entry(i)'
    BY <1>2
  <2>1. Entry(i)
    BY DEF SentInv
  <2>. QED
    BY <1>2, <2>1 DEF Entry, Halted
<1>4. Lag'
  <2>1. Lag /\ Len(log) \in Nat
    BY SentTypes DEF SentInv
  <2>. QED
    BY <1>1, <1>2, <2>1 DEF Lag, Quiet, Onward, Halted, Failing
<1>5. handler' = "broken" => taken' > 0
  BY Quieter, SentTypes DEF SentInv
<1>6. pc' = "crashed" => handler' \notin {"calling", "streaming"}
  BY Quieter DEF SentInv
<1>7. pc' \in Preparing => handler' = "calling"
  BY Quieter DEF SentInv
<1>8. HeardInv'
  <2>1. HeardInv
    BY DEF SentInv
  <2>2. pc' = "push" => pc = "push"
    BY <1>1 DEF Quiet, Onward, Halted, Failing
  <2>3. ctx' = "live" => ctx = "live"
    BY <1>2
  <2>4. pc \in {"push", "crashed"} => pc' \in {"push", "crashed"}
    BY <1>2 DEF Halted
  <2>. QED
    BY <1>2, <2>1, <2>2, <2>3, <2>4 DEF HeardInv, SentOn
<1>. QED
  BY <1>3, <1>4, <1>5, <1>6, <1>7, <1>8 DEF SentInv

LEMMA SentStep == TypeInv /\ SeqInv /\ SentInv /\ [Next]_vars => SentInv'
<1> SUFFICES ASSUME TypeInv, SeqInv, SentInv, [Next]_vars PROVE SentInv'
  OBVIOUS
<1>1. CASE EmitStep
  <2>1. PICK at \in PCs \ (Halted \cup {"push"}), type \in EventTypes,
             call \in Nat, next \in Resumes :
               /\ Emit(at, type, call, next)
               /\ IF type = "response.failed" THEN next = "final"
                  ELSE at \notin Failing /\ next # "final"
    BY <1>1, EmitForm
  <2>. QED
    BY <2>1, SentEmit
<1>. QED
  BY <1>1, SentPush, SentFinal, SentQuiet

StreamInv == TypeInv /\ SeqInv /\ SentInv

LEMMA StreamAlways == Spec => []StreamInv
<1>1. Init => StreamInv
  BY TypeInit, SeqInit, SentInit DEF StreamInv
<1>2. StreamInv /\ [Next]_vars => StreamInv'
  BY TypeStep, SeqStep, SentStep DEF StreamInv
<1>. QED
  BY <1>1, <1>2, PTL DEF Spec

-----------------------------------------------------------------------------
(* The refinement: what the client has been shown is a prefix of the log.  *)

View == SubSeq(sent, 1, Delivered)

LEMMA PrefixFacts ==
  ASSUME NEW S, NEW s \in Seq(S), NEW n \in 0 .. Len(s)
  PROVE  /\ SubSeq(s, 1, n) \in Seq(S)
         /\ Len(SubSeq(s, 1, n)) = n
         /\ \A i \in 1 .. n : SubSeq(s, 1, n)[i] = s[i]
  OBVIOUS

(* What is appended does not change a prefix.                              *)
LEMMA PrefixOfAppend ==
  ASSUME NEW S, NEW s \in Seq(S), NEW e \in S, NEW n \in 0 .. Len(s)
  PROVE  SubSeq(Append(s, e), 1, n) = SubSeq(s, 1, n)
<1> DEFINE t == Append(s, e)
<1>1. t \in Seq(S) /\ Len(t) = Len(s) + 1 /\ n \in 0 .. Len(t) /\ Len(s) \in Nat
  BY AppendFacts
<1>2. \A i \in 1 .. Len(s) : t[i] = s[i]
  BY AppendFacts
<1> HIDE DEF t
<1>3. /\ SubSeq(t, 1, n) \in Seq(S) /\ SubSeq(s, 1, n) \in Seq(S)
      /\ Len(SubSeq(t, 1, n)) = n /\ Len(SubSeq(s, 1, n)) = n
  BY <1>1, PrefixFacts
<1>4. \A i \in 1 .. n : SubSeq(t, 1, n)[i] = SubSeq(s, 1, n)[i]
  BY <1>1, <1>2, PrefixFacts
<1>5. SubSeq(t, 1, n) = SubSeq(s, 1, n)
  BY <1>3, <1>4, SeqEqual
<1>. QED
  BY <1>5 DEF t

(* A prefix grows by the next entry.                                       *)
LEMMA PrefixGrows ==
  ASSUME NEW S, NEW s \in Seq(S), NEW n \in Nat, n < Len(s)
  PROVE  SubSeq(s, 1, n + 1) = Append(SubSeq(s, 1, n), s[n + 1])
<1> DEFINE t == SubSeq(s, 1, n)
           u == SubSeq(s, 1, n + 1)
           v == Append(t, s[n + 1])
<1>1. s[n + 1] \in S /\ Len(s) \in Nat
  OBVIOUS
<1>2. t \in Seq(S) /\ Len(t) = n /\ \A i \in 1 .. n : t[i] = s[i]
  BY <1>1, PrefixFacts
<1>3. u \in Seq(S) /\ Len(u) = n + 1 /\ \A i \in 1 .. n + 1 : u[i] = s[i]
  <2>1. n + 1 \in 0 .. Len(s)
    BY <1>1
  <2>. QED
    BY <2>1, PrefixFacts
<1> HIDE DEF t, u
<1>4. v \in Seq(S) /\ Len(v) = n + 1 /\ v[n + 1] = s[n + 1] /\ \A i \in 1 .. n : v[i] = t[i]
  BY <1>1, <1>2, AppendFacts
<1> HIDE DEF v
<1>5. \A i \in 1 .. n + 1 : u[i] = v[i]
  <2> SUFFICES ASSUME NEW i \in 1 .. n + 1 PROVE u[i] = v[i]
    OBVIOUS
  <2>1. CASE i \in 1 .. n
    BY <1>2, <1>3, <1>4, <2>1
  <2>2. CASE i = n + 1
    BY <1>3, <1>4, <2>2
  <2>. QED
    BY <2>1, <2>2
<1>6. u = v
  BY <1>3, <1>4, <1>5, SeqEqual
<1>. QED
  BY <1>6 DEF t, u, v

LEMMA DeliveredType ==
  ASSUME StreamInv
  PROVE  /\ Delivered \in 0 .. Len(sent)
         /\ View \in Seq(Event \cup {Final})
         /\ Len(View) = Delivered
         /\ \A i \in 1 .. Delivered : View[i] = sent[i]
<1> DEFINE Envelope == Event \cup {Final}
<1>1. Delivered \in 0 .. Len(sent) /\ sent \in Seq(Envelope)
  BY SentTypes DEF StreamInv, SentInv, Delivered
<1> HIDE DEF Envelope
<1>2. /\ View \in Seq(Envelope) /\ Len(View) = Delivered
      /\ \A i \in 1 .. Delivered : View[i] = sent[i]
  BY <1>1, PrefixFacts DEF View
<1>. QED
  BY <1>1, <1>2 DEF Envelope

-----------------------------------------------------------------------------
LEMMA RefineInit == Init => Stream!StreamInit
<1> SUFFICES ASSUME Init PROVE Stream!StreamInit
  OBVIOUS
<1>1. log = <<>> /\ ctx # "done" /\ Delivered = 0 /\ sent = <<>> /\ unheard = {}
  BY DEF Init, Delivered
<1>2. SubSeq(sent, 1, Delivered) = <<>>
  BY <1>1
<1>. QED
  BY <1>1, <1>2 DEF Stream!StreamInit

(* An emit persists an event, or fails and changes nothing a client or a   *)
(* replay could see.                                                       *)
LEMMA RefineEmit ==
  ASSUME StreamInv, EmitStep
  PROVE  Stream!Persist \/ UNCHANGED Stream!streamVars
<1>1. PICK at \in PCs \ (Halted \cup {"push"}), type \in EventTypes,
           call \in Nat, next \in Resumes : Emit(at, type, call, next)
  BY EmitForm DEF StreamInv
<1> DEFINE event == [type |-> type, call |-> call, seq |-> seq + 1]
<1>2. UNCHANGED <<sent, ctx, Delivered>>
  BY <1>1 DEF Emit, transport, Delivered
<1>3. CASE log' = Append(log, event)
  <2>1. log \in Seq(Event) /\ event \in Event /\ Len(log) \in Nat /\ seq \in Nat
    BY DEF StreamInv, TypeInv, TypeOK, Event
  <2>2. /\ log' \in Seq(Event) /\ Len(log') = Len(log) + 1
        /\ log'[Len(log')] = event
        /\ \A i \in 1 .. Len(log) : log'[i] = log[i]
    BY <1>3, <2>1, AppendFacts
  <2>3. SubSeq(log', 1, Len(log)) = log
    <3>1. Len(log) \in 0 .. Len(log')
      BY <2>1, <2>2
    <3>2. /\ SubSeq(log', 1, Len(log)) \in Seq(Event)
          /\ Len(SubSeq(log', 1, Len(log))) = Len(log)
          /\ \A i \in 1 .. Len(log) : SubSeq(log', 1, Len(log))[i] = log[i]
      BY <2>2, <3>1, PrefixFacts
    <3>. QED
      BY <2>1, <3>2, SeqEqual
  <2>4. \A i \in 1 .. Len(log) : log[i].seq = i
    <3>1. DOMAIN log = 1 .. Len(log) /\ ~FailedLogged
      BY <1>1, <2>1 DEF StreamInv, SeqInv, Emit
    <3>. QED
      BY <3>1 DEF StreamInv, SeqInv, FailedLogged
  <2>5. Len(log) <= seq
    BY <1>1 DEF StreamInv, SeqInv, Emit
  <2>6. \A i \in 1 .. Len(log) : log[i].seq < log'[Len(log')].seq
    BY <2>1, <2>2, <2>4, <2>5
  <2>7. unheard' \in {unheard, unheard \cup {log'[Len(log')].seq}}
    BY <1>1, <2>2 DEF Emit
  <2>. QED
    BY <1>2, <2>2, <2>3, <2>6, <2>7 DEF Stream!Persist
<1>4. CASE UNCHANGED <<log, unheard>>
  BY <1>2, <1>4 DEF Stream!streamVars
<1>. QED
  BY <1>1, <1>3, <1>4 DEF Emit

(* A push puts the event behind what the handler has shown.                *)
LEMMA RefinePush ==
  ASSUME StreamInv, Push \/ SendFinal
  PROVE  UNCHANGED Stream!streamVars
<1> DEFINE Envelope == Event \cup {Final}
<1>1. /\ UNCHANGED <<log, unheard, ctx, Delivered>>
      /\ UNCHANGED sent \/ \E e \in {pending, Final} : sent' = Append(sent, e)
  BY DEF Push, SendFinal, emitter, durable, Delivered
<1>2. sent \in Seq(Envelope) /\ pending \in Envelope /\ Final \in Envelope
  BY SentTypes DEF StreamInv
<1>3. Delivered \in 0 .. Len(sent)
  BY DeliveredType
<1> HIDE DEF Envelope
<1>4. SubSeq(sent', 1, Delivered) = SubSeq(sent, 1, Delivered)
  BY <1>1, <1>2, <1>3, PrefixOfAppend
<1>. QED
  BY <1>1, <1>4 DEF Stream!streamVars

(* What the handler takes is an envelope it has not shown, and the stream  *)
(* it shows is still open.                                                 *)
LEMMA HandlerReads ==
  ASSUME StreamInv, NEW last \in BOOLEAN, HandlerTakes(last), handler' # "broken"
  PROVE  /\ Delivered = taken /\ taken < Len(sent) /\ taken \in Nat
         /\ View' = Append(View, sent[taken + 1])
         /\ Entry(taken + 1) /\ (last <=> sent[taken + 1] = Final)
         /\ \A i \in 1 .. taken : Entry(i) /\ View[i] = sent[i] /\ sent[i] # Final
         /\ pc # "crashed"
         /\ UNCHANGED <<log, unheard, ctx>>
<1> DEFINE Envelope == Event \cup {Final}
<1>1. /\ handler = "streaming" /\ taken < Len(sent) /\ taken' = taken + 1
      /\ (last <=> sent[taken + 1] = Final) /\ UNCHANGED <<sent, log, unheard, ctx>>
  BY DEF HandlerTakes, durable, emitter
<1>0. sent \in Seq(Envelope)
  BY SentTypes DEF StreamInv
<1>2. taken \in Nat /\ Len(sent) \in Nat /\ DOMAIN sent = 1 .. Len(sent)
  BY SentTypes DEF StreamInv
<1>3. Delivered = taken /\ Delivered' = taken + 1
  BY <1>1 DEF Delivered
<1>4. View' = Append(View, sent[taken + 1])
  <2> HIDE DEF Envelope
  <2>. QED
    BY <1>0, <1>1, <1>2, <1>3, PrefixGrows DEF View
<1>5. \A i \in 1 .. taken + 1 : Entry(i)
  BY <1>1, <1>2 DEF StreamInv, SentInv
<1>6. \A i \in 1 .. taken : View[i] = sent[i]
  BY <1>3, DeliveredType
<1>7. \A i \in 1 .. taken : sent[i] # Final
  <2> SUFFICES ASSUME NEW i \in 1 .. taken, sent[i] = Final PROVE FALSE
    OBVIOUS
  <2>1. i < Len(sent) /\ i \in 1 .. taken + 1
    BY <1>1, <1>2
  <2>2. Entry(i)
    BY <1>5, <2>1
  <2>3. i <= Len(log) /\ Final = log[i]
    BY <2>1, <2>2 DEF Entry, Final
  <2>4. i \in 1 .. Len(log)
    BY <2>3, SentTypes DEF StreamInv
  <2>. QED
    BY <2>3, <2>4, FinalIsNoEvent, SentTypes DEF StreamInv
<1>8. pc # "crashed"
  BY <1>1 DEF StreamInv, SentInv
<1>. QED
  BY <1>1, <1>2, <1>3, <1>4, <1>5, <1>6, <1>7, <1>8

(* The next event of the log is shown, or response.failed after a hole; no *)
(* event is left out but by a cut or by a writer that was not told of it.  *)
LEMMA RefineWrite ==
  ASSUME StreamInv, HandlerWrite
  PROVE  Stream!Show
<1>0. HandlerTakes(FALSE) /\ handler' # "broken"
  BY DEF HandlerWrite, HandlerTakes
<1>a. taken < Len(sent) /\ taken \in Nat /\ Len(sent) \in Nat /\ Len(log) \in Nat
  BY <1>0, HandlerReads, SentTypes DEF StreamInv
<1>1. /\ Delivered = taken
      /\ View' = Append(View, sent[taken + 1])
      /\ Entry(taken + 1) /\ sent[taken + 1] # Final
      /\ pc # "crashed"
      /\ UNCHANGED <<log, unheard, ctx>>
  BY <1>0, HandlerReads
<1>2. \A i \in 1 .. taken : Entry(i) /\ View[i] = sent[i] /\ sent[i] # Final
  BY <1>0, HandlerReads
<1>3. Len(View) = taken /\ DOMAIN log = 1 .. Len(log) /\ DOMAIN sent = 1 .. Len(sent)
  BY <1>1, DeliveredType, SentTypes DEF StreamInv
<1>4. ~(View # <<>> /\ View[Len(View)] = Final)
  BY <1>a, <1>2, <1>3
<1>5. \A i \in 1 .. taken : View[i] = log[i] /\ i < Len(log) /\ log[i].seq = i
  <2> SUFFICES ASSUME NEW i \in 1 .. taken
               PROVE  View[i] = log[i] /\ i < Len(log) /\ log[i].seq = i
    OBVIOUS
  <2>1. Entry(i) /\ View[i] = sent[i] /\ sent[i] # Final /\ i < Len(sent) /\ i <= taken
    BY <1>a, <1>2
  <2>2. sent[i].type # "response.failed"
    <3>1. i + 1 = Len(sent) => taken = i
      BY <1>a, <2>1
    <3>. QED
      BY <1>1, <2>1, <3>1 DEF Entry
  <2>3. sent[i] = log[i] /\ i \in DOMAIN log /\ log[i].seq = i
    <3>1. sent[i] = log[i] /\ i <= Len(log)
      BY <2>1, <2>2 DEF Entry
    <3>2. i \in DOMAIN log
      BY <1>a, <1>3, <3>1
    <3>. QED
      BY <2>2, <3>1, <3>2 DEF StreamInv, SeqInv
  <2>4. taken + 1 <= Len(log)
    BY <1>1 DEF Entry
  <2>. QED
    BY <1>a, <2>1, <2>3, <2>4
<1>6. PICK k \in 1 .. Len(log) : /\ sent[taken + 1] = log[k]
                                 /\ taken + 1 <= k /\ k <= log[k].seq
                                 /\ \/ k = taken + 1
                                    \/ sent[taken + 1].type = "response.failed"
  <2>1. taken + 1 <= Len(log)
    BY <1>1 DEF Entry
  <2>2. CASE sent[taken + 1].type # "response.failed"
    <3>1. sent[taken + 1] = log[taken + 1]
      BY <1>1, <2>2 DEF Entry
    <3>2. taken + 1 \in DOMAIN log
      BY <1>a, <1>3, <2>1
    <3>3. log[taken + 1].seq = taken + 1
      BY <2>2, <3>1, <3>2 DEF StreamInv, SeqInv
    <3>. QED
      BY <1>a, <1>3, <3>1, <3>2, <3>3
  <2>3. CASE sent[taken + 1].type = "response.failed"
    <3>1. sent[taken + 1] = log[Len(log)]
      BY <1>1, <2>3 DEF Entry
    <3>2. Len(log) \in DOMAIN log /\ Len(log) <= log[Len(log)].seq
      <4>1. Len(log) \in DOMAIN log
        BY <1>a, <1>3, <2>1
      <4>. QED
        BY <2>3, <3>1, <4>1 DEF StreamInv, SeqInv
    <3>3. Len(log) \in 1 .. Len(log)
      BY <1>3, <3>2
    <3>. QED
      BY <2>1, <2>3, <3>1, <3>2, <3>3
  <2>. QED
    BY <2>2, <2>3
<1>7. \A i \in 1 .. Len(View) : View[i].seq < log[k].seq
  <2>1. log \in Seq(Event)
    BY SentTypes DEF StreamInv
  <2>2. log[k] \in Event
    BY <2>1
  <2>3. log[k].seq \in Nat
    BY <2>2 DEF Event
  <2>4. k \in Nat /\ taken + 1 <= k /\ k <= log[k].seq
    BY <1>a, <1>6
  <2> SUFFICES ASSUME NEW i \in 1 .. taken PROVE View[i].seq < log[k].seq
    BY <1>3
  <2>5. View[i].seq = i /\ i \in Nat /\ i <= taken
    BY <1>a, <1>5
  <2>. QED
    BY <1>a, <2>3, <2>4, <2>5
<1>8. log[k].seq \notin unheard
  BY <1>a, <1>1, <1>3, <1>6 DEF StreamInv, SentInv, HeardInv
<1>9. ctx # "done" => \A i \in 1 .. k - 1 :
        log[i].seq \in unheard \/ \E j \in 1 .. Len(View) : View[j] = log[i]
  <2> SUFFICES ASSUME ctx # "done", NEW i \in 1 .. k - 1, log[i].seq \notin unheard
               PROVE  \E j \in 1 .. taken : View[j] = log[i]
    BY <1>3
  <2>1. i \in 1 .. Len(log) /\ i < Len(log) /\ k \in Nat /\ i < k
    BY <1>a, <1>6
  <2>2. PICK j \in DOMAIN sent : sent[j] = log[i]
    <3>1. ctx = "live"
      BY DEF StreamInv, TypeInv, TypeOK
    <3>2. SentOn(i)
      BY <1>3, <2>1, <3>1 DEF StreamInv, SentInv, HeardInv
    <3>. QED
      BY <2>1, <3>2 DEF SentOn
  <2>3. log[i].type # "response.failed" /\ log[i].seq = i
    BY <1>3, <2>1 DEF StreamInv, SeqInv
  <2>4. sent[j] # Final
    BY <2>1, <2>2, FinalIsNoEvent, SentTypes DEF StreamInv
  <2>5. j <= Len(log) /\ sent[j] = log[j]
    BY <2>2, <2>3, <2>4 DEF StreamInv, SentInv, Entry
  <2>6. i = j
    <3>1. j \in DOMAIN log /\ log[j] = log[i]
      BY <1>a, <1>3, <2>2, <2>5
    <3>. QED
      BY <2>3, <3>1 DEF StreamInv, SeqInv
  <2>7. j \in 1 .. taken
    <3>1. CASE k = taken + 1
      BY <1>a, <2>1, <2>6, <3>1
    <3>2. CASE sent[taken + 1].type = "response.failed"
      <4>1. \/ taken + 1 = Len(sent)
            \/ taken + 1 + 1 = Len(sent) /\ sent[taken + 1 + 1] = Final
        BY <1>1, <3>2 DEF Entry
      <4>2. j # taken + 1
        BY <2>2, <2>3, <3>2
      <4>3. j \in Nat /\ j >= 1 /\ j <= Len(sent)
        BY <1>a, <1>3
      <4>4. CASE taken + 1 = Len(sent)
        BY <1>a, <4>2, <4>3, <4>4
      <4>5. CASE taken + 1 + 1 = Len(sent) /\ sent[taken + 1 + 1] = Final
        <5>1. j # Len(sent)
          BY <2>4, <4>5
        <5>. QED
          BY <1>a, <4>2, <4>3, <4>5, <5>1
      <4>. QED
        BY <4>1, <4>4, <4>5
    <3>. QED
      BY <1>6, <3>1, <3>2
  <2>. QED
    BY <1>2, <2>2, <2>7
<1>10. View' = Append(View, log[k]) /\ UNCHANGED <<log, unheard, ctx>>
  BY <1>1, <1>6
<1>. QED
  BY <1>4, <1>7, <1>8, <1>9, <1>10
     DEF Stream!Show, Stream!Closed, Stream!Complete, Stream!Shown, View

(* The last envelope: nothing of the log is missing but by a cut.          *)
LEMMA RefineFinish ==
  ASSUME StreamInv, HandlerFinish
  PROVE  Stream!Close
<1>0. HandlerTakes(TRUE) /\ handler' # "broken"
  BY DEF HandlerFinish
<1>1. /\ Delivered = taken /\ taken < Len(sent) /\ taken \in Nat
      /\ View' = Append(View, Final)
      /\ Entry(taken + 1) /\ sent[taken + 1] = Final
      /\ \A i \in 1 .. taken : View[i] = sent[i] /\ sent[i] # Final
      /\ pc # "crashed"
      /\ UNCHANGED <<log, unheard, ctx>>
  BY <1>0, HandlerReads
<1>2. Len(View) = taken /\ Len(sent) \in Nat /\ Len(log) \in Nat
  BY <1>1, DeliveredType, SentTypes DEF StreamInv
<1>3. ~(View # <<>> /\ View[Len(View)] = Final)
  BY <1>1, <1>2
<1>4. taken + 1 = Len(sent) /\ pc = "ended"
  <2> SUFFICES ASSUME taken + 1 \in 1 .. Len(log), Final = log[taken + 1] PROVE FALSE
    BY <1>1, <1>2 DEF Entry, Final
  <2>. QED
    BY FinalIsNoEvent, SentTypes DEF StreamInv
<1>5. ctx # "done" => \A i \in 1 .. Len(log) :
        log[i].seq \in unheard \/ \E j \in 1 .. Len(View) : View[j] = log[i]
  <2> SUFFICES ASSUME ctx # "done", NEW i \in 1 .. Len(log), log[i].seq \notin unheard
               PROVE  \E j \in 1 .. taken : View[j] = log[i]
    BY <1>2
  <2>1. ctx = "live" /\ DOMAIN log = 1 .. Len(log) /\ DOMAIN sent = 1 .. Len(sent)
    BY SentTypes DEF StreamInv, TypeInv, TypeOK
  <2>2. SentOn(i)
    BY <2>1 DEF StreamInv, SentInv, HeardInv
  <2>3. PICK j \in DOMAIN sent : sent[j] = log[i]
    BY <1>4, <2>2 DEF SentOn
  <2>4. j # taken + 1
    BY <1>1, <2>1, <2>3, FinalIsNoEvent, SentTypes DEF StreamInv
  <2>5. j \in 1 .. taken
    BY <1>1, <1>2, <1>4, <2>1, <2>4
  <2>. QED
    BY <1>1, <2>3, <2>5
<1>6. ~(ctx = "done") => Stream!Complete(Len(log) + 1)
  <2>1. Len(log) + 1 - 1 = Len(log)
    BY <1>2
  <2> SUFFICES ASSUME ctx # "done", NEW i \in 1 .. Len(log)
               PROVE  log[i].seq \in unheard \/ Stream!Shown(log[i])
    BY <2>1 DEF Stream!Complete
  <2>. QED
    BY <1>5 DEF Stream!Shown, View
<1>. QED
  BY <1>1, <1>3, <1>6 DEF Stream!Close, Stream!Closed, View

(* The end of a request cuts the stream, once.                             *)
LEMMA RefineCut ==
  ASSUME StreamInv, Disconnect \/ HandlerReturned
  PROVE  Stream!Cut
<1>1. ctx = "live" /\ ctx' = "done" /\ UNCHANGED <<log, unheard, sent, Delivered>>
  BY DEF Disconnect, HandlerReturned, CancelContext, durable, emitter, Delivered
<1>. QED
  BY <1>1 DEF Stream!Cut

(* All other steps are internal: none of them is seen by the client.       *)
LEMMA RefineInternal ==
  ASSUME StreamInv, [Next]_vars, ~EmitStep, ~Push, ~SendFinal,
         ~HandlerWrite, ~HandlerFinish, ~Disconnect, ~HandlerReturned
  PROVE  UNCHANGED Stream!streamVars
<1>1. UNCHANGED <<log, unheard, sent>>
  BY StepClasses, Quieter DEF Quiet, emitter
<1>2. UNCHANGED <<ctx, Delivered>>
  <2> USE DEF Delivered, Goto, durable, transport
  <2>1. CASE Prepare
    <3>1. handler = "calling"
      BY <2>1 DEF StreamInv, SentInv, Preparing, Prepare, EnsureConversation,
                  CreateUserMessage, AppendUserItem, CreateAssistantMessage
    <3>. QED
      BY <2>1, <3>1 DEF Prepare, EnsureConversation, CreateUserMessage, AppendUserItem,
                        CreateAssistantMessage, Reject
  <2>2. CASE AuditCreated \/ ModelFailed \/ ModelSucceeded \/ RecordToolUsage
               \/ RecordModelUsage \/ AuditCompleted \/ AuditFailed
    BY <2>2 DEF AuditCreated, ModelFailed, ModelSucceeded, RecordToolUsage, RecordModelUsage,
                AuditCompleted, AuditFailed, Book
  <2>3. CASE AppendCallItem \/ AppendCitation \/ AppendResultItem \/ AppendText
    BY <2>3 DEF AppendCallItem, AppendCitation, AppendResultItem, AppendText, AddItem
  <2>4. CASE BuildModelMessages \/ BeginTurn \/ RecvError \/ RecvEOF \/ SkipText
               \/ CompleteMessage \/ FailMessage
    BY <2>4 DEF BuildModelMessages, BeginTurn, RecvError, RecvEOF, SkipText, CompleteMessage,
                FailMessage
  <2>5. CASE CreateToolCall \/ ExecuteTool \/ ToolNotFound \/ CallFailed \/ CallSucceeded
               \/ SaveResult
    BY <2>5 DEF CreateToolCall, ExecuteTool, ToolNotFound, CallFailed, CallSucceeded, SaveResult
  <2>6. CASE HandlerWriteError
    BY <2>6, SentTypes DEF HandlerWriteError, HandlerTakes, StreamInv
  <2>7. CASE Crash
    BY <2>7 DEF Crash
  <2>8. CASE UNCHANGED vars
    BY <2>8 DEF vars
  <2>. QED
    BY <2>1, <2>2, <2>3, <2>4, <2>5, <2>6, <2>7, <2>8
       DEF Next, Goroutine, Loop, Tool, Finish, Handler, EmitStep
<1>. QED
  BY <1>1, <1>2 DEF Stream!streamVars

LEMMA RefineStep == StreamInv /\ [Next]_vars => [Stream!StreamNext]_Stream!streamVars
  BY RefineEmit, RefinePush, RefineWrite, RefineFinish, RefineCut, RefineInternal
     DEF Stream!StreamNext

(* Whatever fails, is cut or crashes, a response is an EventStream.        *)
THEOREM ImplementsEventStream == Spec => RefinesEventStream
  BY RefineInit, RefineStep, StreamAlways, PTL
     DEF Spec, RefinesEventStream, Stream!StreamSpec
-----------------------------------------------------------------------------
(* Who waits for whom: the goroutine for room in the channel, the handler  *)
(* for an envelope.                                                        *)

LEMMA HandlerInit == Init => HandlerInv
  BY DEF Init, HandlerInv, Preparing

(* What has been taken stays what it was when something is sent.           *)
LEMMA TakenStays ==
  ASSUME TypeInv, NEW e \in Event \cup {Final}, sent' = Append(sent, e), UNCHANGED taken,
         \A i \in 1 .. taken : sent[i] # Final
  PROVE  \A i \in 1 .. taken' : sent'[i] # Final
<1>1. taken \in 0 .. Len(sent) /\ Len(sent) \in Nat /\ sent \in Seq(Event \cup {Final})
  BY SentTypes
<1>2. \A i \in 1 .. Len(sent) : Append(sent, e)[i] = sent[i]
  BY <1>1, AppendFacts
<1>. QED
  BY <1>1, <1>2

LEMMA HandlerEmits ==
  ASSUME TypeInv, HandlerInv, EmitStep
  PROVE  HandlerInv'
<1>1. /\ UNCHANGED <<sent, taken, handler>>
      /\ pc \notin Preparing \cup {"rejected", "ended", "crashed"} /\ pc' # "rejected"
  BY DEF EmitStep, EmitCreated, RecvDelta, EmitCallCreated, EmitCallFailed, EmitCitationAdded,
         EmitCallCompleted, EmitMessageCompleted, EmitUsageUpdated, EmitResponseCompleted,
         EmitResponseFailed, Emit, OnEmitError, transport, Preparing
<1>. QED
  BY <1>1 DEF HandlerInv

LEMMA HandlerSends ==
  ASSUME TypeInv, HandlerInv, Push \/ SendFinal
  PROVE  HandlerInv'
<1>1. /\ UNCHANGED <<taken, handler>>
      /\ pc \in {"push", "final"} /\ pc' # "rejected"
  BY DEF Push, SendFinal, Goto, OnEmitError, TypeInv, TypeOK, Resumes
<1>2. handler # "finished" => \A i \in 1 .. taken' : sent'[i] # Final
  <2>1. CASE UNCHANGED sent
    BY <1>1, <2>1 DEF HandlerInv
  <2>2. CASE \E e \in Event \cup {Final} : sent' = Append(sent, e)
    BY <1>1, <2>2, TakenStays DEF HandlerInv
  <2>3. pending \in Event \cup {Final}
    BY DEF TypeInv, TypeOK
  <2>. QED
    BY <2>1, <2>2, <2>3 DEF Push, SendFinal
<1>. QED
  BY <1>1, <1>2 DEF HandlerInv, Preparing

LEMMA HandlerPrepares ==
  ASSUME TypeInv, HandlerInv, SentInv, Prepare
  PROVE  HandlerInv'
<1>1. /\ UNCHANGED <<sent, taken>> /\ handler = "calling" /\ pc \in Preparing
      /\ \/ pc' = "rejected" /\ handler' = "rejected"
         \/ pc' = "created" /\ handler' = "streaming" /\ pc = "assistantMessage"
         \/ pc' \in Preparing /\ handler' = "calling"
  <2>1. pc \in Preparing
    BY DEF Prepare, EnsureConversation, CreateUserMessage, AppendUserItem,
           CreateAssistantMessage, Preparing
  <2>2. handler = "calling"
    BY <2>1 DEF SentInv
  <2>. QED
    BY <2>1, <2>2 DEF Prepare, EnsureConversation, CreateUserMessage, AppendUserItem,
           CreateAssistantMessage, Reject, Preparing
<1>. QED
  BY <1>1 DEF HandlerInv, Preparing

LEMMA HandlerMoves ==
  ASSUME TypeInv, HandlerInv, SentInv, Handler
  PROVE  HandlerInv'
<1>1. /\ UNCHANGED <<pc, sent>> /\ handler = "streaming"
      /\ taken < Len(sent) /\ taken' = taken + 1
      /\ \/ sent[taken + 1] # Final /\ handler' \in {"streaming", "broken"}
         \/ sent[taken + 1] = Final /\ handler' = "finished"
  BY DEF Handler, HandlerWrite, HandlerWriteError, HandlerFinish, HandlerTakes
<1>2. taken \in Nat /\ Len(sent) \in Nat /\ DOMAIN sent = 1 .. Len(sent)
  BY SentTypes
<1>3. CASE sent[taken + 1] # Final /\ handler' \in {"streaming", "broken"}
  <2>1. \A i \in 1 .. taken + 1 : i \in 1 .. taken \/ i = taken + 1
    BY <1>2
  <2>2. \A i \in 1 .. taken' : sent'[i] # Final
    BY <1>1, <1>3, <2>1 DEF HandlerInv
  <2>3. pc # "rejected"
    BY <1>1 DEF HandlerInv
  <2>. QED
    BY <1>1, <1>3, <2>2, <2>3 DEF HandlerInv
<1>4. CASE sent[taken + 1] = Final /\ handler' = "finished"
  <2>1. Entry(taken + 1)
    BY <1>1, <1>2 DEF SentInv
  <2>2. pc \in {"ended", "crashed"}
    <3>1. \A i \in 1 .. Len(log) : log[i] \in Event
      BY SentTypes
    <3>2. Len(log) \in Nat
      BY SentTypes
    <3>3. ~(taken + 1 <= Len(log) /\ sent[taken + 1] = log[taken + 1])
      BY <1>2, <1>4, <3>1, <3>2, FinalIsNoEvent
    <3>4. sent[taken + 1].type # "response.failed"
      BY <1>4 DEF Final
    <3>. QED
      BY <2>1, <3>3, <3>4, Zenon DEF Entry
  <2>. QED
    BY <1>1, <1>4, <2>2 DEF HandlerInv
<1>. QED
  BY <1>1, <1>3, <1>4

(* Everything else leaves the channel and its reader alone.                *)
LEMMA HandlerKept ==
  ASSUME HandlerInv, [Next]_vars, ~Prepare, ~EmitStep, ~Push, ~SendFinal, ~Handler
  PROVE  HandlerInv'
<1>1. /\ UNCHANGED <<sent, taken>>
      /\ \/ pc' = pc /\ handler' = handler
         \/ /\ pc' = "crashed"
            /\ handler' = IF handler \in {"calling", "streaming"} THEN "crashed" ELSE handler
         \/ pc \notin Preparing \cup {"rejected", "ended", "crashed"} /\ pc' # "rejected" /\ handler' = handler
  <2> USE DEF Preparing, Goto, durable, transport
  <2>1. CASE AuditCreated \/ ModelFailed \/ ModelSucceeded \/ RecordToolUsage \/ RecordModelUsage
               \/ AuditCompleted \/ AuditFailed
    BY <2>1 DEF AuditCreated, ModelFailed, ModelSucceeded, RecordToolUsage, RecordModelUsage,
                AuditCompleted, AuditFailed, Book
  <2>2. CASE AppendCallItem \/ AppendCitation \/ AppendResultItem \/ AppendText
    BY <2>2 DEF AppendCallItem, AppendCitation, AppendResultItem, AppendText, AddItem
  <2>3. CASE BuildModelMessages \/ BeginTurn \/ RecvError \/ RecvEOF \/ SkipText
               \/ CompleteMessage \/ FailMessage
    BY <2>3 DEF BuildModelMessages, BeginTurn, RecvError, RecvEOF, SkipText, CompleteMessage,
                FailMessage
  <2>4. CASE CreateToolCall \/ ExecuteTool \/ ToolNotFound \/ CallFailed \/ CallSucceeded
               \/ SaveResult
    BY <2>4 DEF CreateToolCall, ExecuteTool, ToolNotFound, CallFailed, CallSucceeded, SaveResult
  <2>5. CASE Disconnect \/ HandlerReturned \/ Crash
    BY <2>5 DEF Disconnect, HandlerReturned, CancelContext, Crash
  <2>6. CASE UNCHANGED vars
    BY <2>6 DEF vars
  <2>. QED
    BY <2>1, <2>2, <2>3, <2>4, <2>5, <2>6 DEF Next, Goroutine, Loop, Tool, Finish, EmitStep
<1>2. CASE pc' = pc /\ handler' = handler
  BY <1>1, <1>2 DEF HandlerInv
<1>3. CASE /\ pc' = "crashed"
           /\ handler' = IF handler \in {"calling", "streaming"} THEN "crashed" ELSE handler
  BY <1>1, <1>3 DEF HandlerInv
<1>4. CASE pc \notin Preparing \cup {"rejected", "ended", "crashed"} /\ pc' # "rejected" /\ handler' = handler
  BY <1>1, <1>4 DEF HandlerInv
<1>. QED
  BY <1>1, <1>2, <1>3, <1>4

LEMMA HandlerAlways == Spec => [](StreamInv /\ HandlerInv)
<1>1. StreamInv /\ HandlerInv /\ [Next]_vars => HandlerInv'
  BY HandlerEmits, HandlerSends, HandlerPrepares, HandlerMoves, HandlerKept DEF StreamInv
<1>. QED
  BY StreamAlways, HandlerInit, <1>1, PTL DEF Spec

(* Nobody waits in vain: for every capacity of the channel, every number   *)
(* of turns, calls and faults, whoever leaves, fails or dies, the only     *)
(* wait without an end is the last send of a goroutine whose handler gave  *)
(* up on a full channel (orchestrator.go:189, 295, 672-677,                *)
(* response_handler.go:72-82).                                             *)
THEOREM OnlyTheLastSendHangs == Spec => []NobodyWaitsInVain
<1>1. ASSUME StreamInv, HandlerInv PROVE NobodyWaitsInVain
  <2>0. /\ TypeInv /\ SentInv
        /\ taken \in 0 .. Len(sent) /\ Len(sent) \in Nat /\ ChanCap \in Nat \ {0}
        /\ handler \in {"calling", "rejected", "streaming", "finished", "broken", "crashed"}
    BY <1>1, SentTypes, ConstantsAssumption DEF StreamInv, TypeInv, TypeOK
  <2>1. ASSUME pc \in {"push", "final"}, ~Room
        PROVE  \/ handler = "streaming" /\ taken < Len(sent)
               \/ handler = "broken" /\ pc = "push"
               \/ Abandoned
    <3>1. taken < Len(sent)
      BY <2>0, <2>1 DEF Room
    <3>2. handler \in {"streaming", "broken"}
      BY <1>1, <2>0, <2>1 DEF HandlerInv, Preparing
    <3>. QED
      BY <2>1, <3>1, <3>2 DEF Abandoned
  <2>2. ASSUME handler = "streaming", taken = Len(sent)
        PROVE  pc \notin {"ended", "rejected", "crashed"}
    <3>1. pc \notin {"rejected", "crashed"}
      BY <1>1, <2>0, <2>2 DEF HandlerInv, SentInv
    <3>2. ASSUME pc = "ended" PROVE FALSE
      <4>1. sent # <<>> /\ sent[Len(sent)] = Final
        BY <2>0, <3>2 DEF SentInv, Lag
      <4>2. Len(sent) \in 1 .. taken
        BY <2>0, <2>2, <4>1, SentTypes, EmptySeq
      <4>. QED
        BY <1>1, <2>2, <4>1, <4>2 DEF HandlerInv
    <3>. QED
      BY <3>1, <3>2
  <2>. QED
    BY <2>1, <2>2 DEF NobodyWaitsInVain
<1>. QED
  BY HandlerAlways, <1>1, PTL
=============================================================================
