------------------------------ MODULE ModelStream -------------------------------
(***************************************************************************)
(* One model call: the OpenAI-compatible provider streams chunks of server *)
(* sent events, and callModel puts the tool calls together again from the  *)
(* pieces in them.  ResponseRun takes the outcome of all this for one      *)
(* step; its text and token counts are left out.                           *)
(*                                                                         *)
(* The provider numbers the calls of a turn and sends each in pieces: all  *)
(* calls side by side in every chunk, or one piece per chunk and one call  *)
(* after the other.                                                        *)
(***************************************************************************)
EXTENDS Naturals, Sequences, FiniteSets

CONSTANTS
  CallNames,   \* names of tools; "" for a call without one
  Styles,      \* how providers send: "side by side", "one by one"
  MaxSent,     \* bound: calls of a turn
  MaxArgs      \* bound: pieces of a call's arguments

VARIABLES
  style,    \* of the provider
  sent,     \* history: the calls as the provider numbers them
  deltas,   \* deltaCalls of callModel
  calls,    \* the calls it returns
  stream,   \* "asked", "open", "done" or "failed"
  code,     \* of the error
  cause     \* history: what went wrong

streamVars == <<style, sent, deltas, calls, stream, code, cause>>

-----------------------------------------------------------------------------
(* What callModel reports: errors without a code of their own are told     *)
(* apart by DeadlineExceeded only.                                         *)
Normalized(why) ==
  CASE why = "timeout" -> "MODEL_TIMEOUT"
    [] OTHER -> "MODEL_PROVIDER_UNAVAILABLE"

HttpCode(why) == IF why = "timeout" THEN "MODEL_TIMEOUT" ELSE "UNAVAILABLE"

StatusCode ==
  [auth |-> "MODEL_AUTH_FAILED", limited |-> "MODEL_RATE_LIMITED",
   timeout |-> "MODEL_TIMEOUT", context |-> "MODEL_CONTEXT_EXCEEDED",
   rejected |-> "TOOL_PARAM_INVALID", other |-> "UNAVAILABLE"]

Fails(why, c) ==
  /\ stream' = "failed" /\ cause' = why /\ code' = c
  /\ UNCHANGED <<style, sent, deltas, calls>>

(* Chat: the request, its transport and its status.                        *)
ChatOpens ==
  /\ stream = "asked" /\ stream' = "open"
  /\ UNCHANGED <<style, sent, deltas, calls, code, cause>>

ChatFails(why) == stream = "asked" /\ Fails(why, HttpCode(why))

ChatRefused(status) == stream = "asked" /\ Fails(status, StatusCode[status])

-----------------------------------------------------------------------------
NoName == ""

NoCall == [name |-> NoName, args |-> <<>>]

At(s, n) == IF n <= Len(s) THEN s[n] ELSE NoCall

Longer(m, n) == IF m > n THEN m ELSE n

(* The calls s with the pieces of a chunk added, where piece i belongs to  *)
(* the call number[i].                                                     *)
WithPieces(s, chunk, number) ==
  LET last == CHOOSE n \in {number[i] : i \in DOMAIN chunk} :
                \A i \in DOMAIN chunk : number[i] <= n IN
  [n \in 1..Longer(Len(s), last) |->
     LET mine == {i \in DOMAIN chunk : number[i] = n} IN
     IF mine = {} THEN At(s, n)
     ELSE LET p == chunk[CHOOSE i \in mine : TRUE] IN
          [name |-> IF p.name # NoName THEN p.name ELSE At(s, n).name,
           args |-> At(s, n).args \o p.args]]

(* Mutant of Position: all pieces of a chunk are counted as the first.      *)
PositionFirst(chunk) == [i \in DOMAIN chunk |-> 1]

(* The number Recv gives a piece: where it stands in its chunk.            *)
Position(chunk) == [i \in DOMAIN chunk |-> i]

Number(chunk) == [i \in DOMAIN chunk |-> chunk[i].call]

(* The next piece of the provider's call n: its name first.                *)
PieceOf(n, name) ==
  [call |-> n, name |-> IF n > Len(sent) THEN name ELSE NoName,
   args |-> IF n > Len(sent) THEN <<>> ELSE << <<n, Len(sent[n].args) + 1>> >>]

OneByOne ==
  {<<PieceOf(n, name)>> : n \in {Len(sent), Len(sent) + 1} \ {0}, name \in CallNames}

SideBySide(m) == {[n \in 1..m |-> PieceOf(n, names[n])] : names \in [1..m -> CallNames]}

Widths == IF sent = <<>> THEN 1..MaxSent ELSE {Len(sent)}

Chunks == IF style = "one by one" THEN OneByOne ELSE UNION {SideBySide(m) : m \in Widths}

InBounds(s) == Len(s) <= MaxSent /\ \A n \in DOMAIN s : Len(s[n].args) <= MaxArgs

(* Recv decodes a chunk, and callModel adds its pieces.                    *)
RecvChunk(chunk) ==
  /\ stream = "open"
  /\ sent' = WithPieces(sent, chunk, Number(chunk)) /\ InBounds(sent')
  /\ deltas' = WithPieces(deltas, chunk, Position(chunk))
  /\ UNCHANGED <<style, calls, stream, code, cause>>

(* A line that cannot be decoded ends the call, as a read error does.      *)
RecvFails(why) == stream = "open" /\ Fails(why, Normalized(why))

(* The call without arguments gets an empty object.                        *)
Completed(call) == [call EXCEPT !.args = IF @ = <<>> THEN << <<0, 0>> >> ELSE @]

(* [DONE], or the end of the connection: nothing tells them apart.         *)
RecvEnd ==
  /\ stream = "open"
  /\ IF \E n \in DOMAIN deltas : deltas[n].name = NoName
       THEN Fails("unnamed", "MODEL_TOOL_CALL_INVALID")
       ELSE /\ calls' = [n \in DOMAIN deltas |-> Completed(deltas[n])]
            /\ stream' = "done"
            /\ UNCHANGED <<style, sent, deltas, code, cause>>

-----------------------------------------------------------------------------
StreamStart(s) ==
  /\ style = s /\ sent = <<>> /\ deltas = <<>> /\ calls = <<>>
  /\ stream = "asked" /\ code = "none" /\ cause = "none"

StreamInit == \E s \in Styles : StreamStart(s)

StreamNext ==
  \/ ChatOpens
  \/ \E why \in {"timeout", "canceled", "transport"} : ChatFails(why)
  \/ \E status \in DOMAIN StatusCode : ChatRefused(status)
  \/ \E chunk \in Chunks : RecvChunk(chunk)
  \/ \E why \in {"timeout", "canceled", "transport", "malformed"} : RecvFails(why)
  \/ RecvEnd

StreamSpec == StreamInit /\ [][StreamNext]_streamVars

-----------------------------------------------------------------------------
AsSent == calls = [n \in DOMAIN sent |-> Completed(sent[n])]

(* The calls of a turn are executed as the provider sent them, name by     *)
(* name and piece by piece, when every chunk lists all of them or there is *)
(* only one; a call without a name is never executed; and a timeout is     *)
(* reported as one wherever it strikes: before the status, as a status or  *)
(* in the middle of the stream (openai_compat.go:198-307,                  *)
(* orchestrator.go:358-398, 806-817).                                      *)
CallsAsSent ==
  /\ stream = "done" /\ (style = "side by side" \/ Len(sent) <= 1) => AsSent
  /\ \A n \in DOMAIN calls : calls[n].name # NoName
  /\ code = "MODEL_TIMEOUT" <=> cause = "timeout"

(* Claim of provider.go:88-89 (providers number the calls by Index and     *)
(* send each in pieces): whatever chunks the pieces come in, the calls are *)
(* put together by their number.                                           *)
PiecesByNumber == stream = "done" => AsSent

Call == [name : CallNames \cup {NoName}, args : Seq(Nat \X Nat)]

StreamTypeOK == sent \in Seq(Call) /\ deltas \in Seq(Call) /\ calls \in Seq(Call)

(* As long as position and number of a piece agree, what is put together   *)
(* is what was sent.                                                       *)
InStep ==
  /\ stream \in {"asked", "open"}
  /\ style # "one by one" \/ Len(sent) <= 1
  => deltas = sent

(* The inductive invariant.                                                *)
StreamInv == StreamTypeOK /\ InStep /\ CallsAsSent
=============================================================================
