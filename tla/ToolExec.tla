-------------------------------- MODULE ToolExec --------------------------------
(***************************************************************************)
(* Registry.Execute: a tool runs in a goroutine of its own, which hands    *)
(* its answer over a channel of capacity one to a caller who waits for it, *)
(* for the tool's timeout and for the request's cancellation.              *)
(*                                                                         *)
(* What the tool does meanwhile is left to the module that composes this   *)
(* one with the tools (Tools).                                             *)
(***************************************************************************)
EXTENDS Naturals, Sequences

CONSTANTS
  Registered,   \* names of the registered tools
  Asked         \* names the model may ask for

VARIABLES
  tool,       \* the tool asked for
  caller,     \* "calling", "waiting" in the select or "returned"
  goroutine,  \* "none", "running", "sending" or "done"
  outcome,    \* what the tool returned
  ch,         \* the channel
  ctx,        \* execCtx: "live" or "ended"
  answer      \* "result", or the code of the error Execute returned

execVars == <<tool, caller, goroutine, outcome, ch, ctx, answer>>

Outcomes == {"result", "error", "panic"}

-----------------------------------------------------------------------------
(* The code a failed call is reported with: the text of an error without   *)
(* one decides.  The registry words a canceled request like a timeout.     *)
ErrCode(e) ==
  CASE e = "error" -> "the tool's own"
    [] e = "timed out" -> "TOOL_TIMEOUT"
    [] e = "not found" -> "TOOL_FORBIDDEN"
    [] e = "panic" -> "TOOL_PARAM_INVALID"

(* A tool nobody registered is refused before anything runs.               *)
NotFound ==
  /\ caller = "calling" /\ tool \notin Registered
  /\ caller' = "returned" /\ answer' = ErrCode("not found")
  /\ UNCHANGED <<tool, goroutine, outcome, ch, ctx>>

Start ==
  /\ caller = "calling" /\ tool \in Registered
  /\ caller' = "waiting" /\ goroutine' = "running"
  /\ UNCHANGED <<tool, outcome, ch, ctx, answer>>

(* The tool returns, or panics: the deferred recover makes an error of it. *)
ToolReturns(r) ==
  /\ goroutine = "running"
  /\ goroutine' = "sending" /\ outcome' = r
  /\ UNCHANGED <<tool, caller, ch, ctx, answer>>

(* Mutant of SendTo: the channel has no buffer.                             *)
SendToReader(r) == caller = "waiting" /\ ch = <<>> /\ ch' = <<r>>

(* A buffer of one: only a second value would have to wait for a reader.   *)
SendTo(r) == Len(ch) < 1 /\ ch' = Append(ch, r)

Send ==
  /\ goroutine = "sending"
  /\ SendTo(outcome)
  /\ goroutine' = "done"
  /\ UNCHANGED <<tool, caller, outcome, ctx, answer>>

(* The select takes either branch when both are ready; returning cancels   *)
(* what is left of the context.                                            *)
Return(a) ==
  /\ caller = "waiting"
  /\ caller' = "returned" /\ ctx' = "ended"
  /\ answer' = IF a = "result" THEN a ELSE ErrCode(a)

TakeAnswer ==
  /\ ch # <<>> /\ Return(Head(ch)) /\ ch' = Tail(ch)
  /\ UNCHANGED <<tool, goroutine, outcome>>

Leave ==
  /\ ctx # "live" /\ Return("timed out")
  /\ UNCHANGED <<tool, goroutine, outcome, ch>>

(* The timeout of the tool's Spec, or the request is canceled.             *)
ContextEnds ==
  /\ caller = "waiting" /\ ctx = "live" /\ ctx' = "ended"
  /\ UNCHANGED <<tool, caller, goroutine, outcome, ch, answer>>

-----------------------------------------------------------------------------
ExecInit ==
  /\ tool \in Asked
  /\ caller = "calling" /\ goroutine = "none"
  /\ outcome = "none" /\ ch = <<>> /\ ctx = "live" /\ answer = "none"

Call == NotFound \/ Start \/ TakeAnswer \/ Leave
=============================================================================
