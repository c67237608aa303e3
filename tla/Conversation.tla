------------------------------ MODULE Conversation ------------------------------
(***************************************************************************)
(* What the model is shown of a conversation: responses that overlap write *)
(* their question and their answer into one conversation, and each reads   *)
(* the messages and then, one message after the other, their text.         *)
(***************************************************************************)
EXTENDS Naturals, Sequences

CONSTANTS
  Turns,   \* responses of one conversation
  Limit    \* messages buildModelMessages loads (50 in the code)

ASSUME ConversationAssumption == Limit \in Nat \ {0}

VARIABLES
  msgs,    \* rows of messages, in the order of created_at: [role, of, text]
  turn,    \* where each response is
  listed,  \* messages it has loaded and not read yet
  shown,   \* messages it shows to the model
  earlier  \* history: the responses that had ended well when it began

convVars == <<msgs, turn, listed, shown, earlier>>

-----------------------------------------------------------------------------
Move(t, from, to) == turn[t] = from /\ turn' = [turn EXCEPT ![t] = to]

Own(t, role) == CHOOSE i \in DOMAIN msgs : msgs[i].of = t /\ msgs[i].role = role

AddMessage(t, role) == msgs' = Append(msgs, [role |-> role, of |-> t, text |-> FALSE])

GetText(t, role) == msgs' = [msgs EXCEPT ![Own(t, role)].text = TRUE]

(* CreateMessage for the question, and its text.                           *)
Ask(t) ==
  /\ Move(t, "new", "asked") /\ AddMessage(t, "user")
  /\ earlier' = [earlier EXCEPT ![t] = {u \in Turns : turn[u] = "completed"}]
  /\ UNCHANGED <<listed, shown>>

AddQuestion(t) ==
  /\ Move(t, "asked", "worded") /\ GetText(t, "user")
  /\ UNCHANGED <<listed, shown, earlier>>

CreateAnswer(t) ==
  /\ Move(t, "worded", "listing") /\ AddMessage(t, "assistant")
  /\ UNCHANGED <<listed, shown, earlier>>

(* Mutant of Oldest: one message less is loaded.                            *)
OldestLess == IF Len(msgs) < Limit THEN Len(msgs) ELSE Limit - 1

(* ListByConversation: the first of the messages by created_at.            *)
Oldest == IF Len(msgs) < Limit THEN Len(msgs) ELSE Limit

ListMessages(t) ==
  /\ Move(t, "listing", "reading")
  /\ listed' = [listed EXCEPT ![t] = [i \in 1..Oldest |-> i]]
  /\ UNCHANGED <<msgs, shown, earlier>>

(* ListItemsByMessage: a message without text is left out.                 *)
ReadItems(t) ==
  /\ turn[t] = "reading" /\ listed[t] # <<>>
  /\ listed' = [listed EXCEPT ![t] = Tail(@)]
  /\ shown' = [shown EXCEPT ![t] = IF msgs[Head(listed[t])].text THEN Append(@, Head(listed[t])) ELSE @]
  /\ UNCHANGED <<msgs, turn, earlier>>

CallModel(t) ==
  /\ listed[t] = <<>> /\ Move(t, "reading", "answering")
  /\ UNCHANGED <<msgs, listed, shown, earlier>>

(* What the model was shown is not kept.                                   *)
Forget(t) ==
  /\ listed' = [listed EXCEPT ![t] = <<>>]
  /\ shown' = [shown EXCEPT ![t] = <<>>]

(* The answer's text, if there is any, is written before its status.       *)
AddAnswer(t) ==
  /\ Move(t, "answering", "answered") /\ GetText(t, "assistant")
  /\ Forget(t)
  /\ UNCHANGED earlier

NoAnswer(t) ==
  /\ Move(t, "answering", "answered")
  /\ Forget(t)
  /\ UNCHANGED <<msgs, earlier>>

Complete(t) ==
  /\ Move(t, "answered", "completed")
  /\ UNCHANGED <<msgs, listed, shown, earlier>>

(* An error or a crash leaves what was written.                            *)
FailTurn(t) ==
  /\ turn[t] \notin {"new", "completed", "failed"}
  /\ turn' = [turn EXCEPT ![t] = "failed"]
  /\ Forget(t)
  /\ UNCHANGED <<msgs, earlier>>

-----------------------------------------------------------------------------
ConvInit ==
  /\ msgs = <<>>
  /\ turn = [t \in Turns |-> "new"]
  /\ listed = [t \in Turns |-> <<>>] /\ shown = [t \in Turns |-> <<>>]
  /\ earlier = [t \in Turns |-> {}]

Question(t) == Ask(t) \/ AddQuestion(t) \/ CreateAnswer(t)
Answer(t)   == ListMessages(t) \/ ReadItems(t) \/ CallModel(t) \/ AddAnswer(t) \/ NoAnswer(t) \/ Complete(t)

ConvNext == \E t \in Turns : Question(t) \/ Answer(t) \/ FailTurn(t)

ConvSpec == ConvInit /\ [][ConvNext]_convVars

-----------------------------------------------------------------------------
(* When a response calls the model, what it shows is in the order of the   *)
(* conversation and no message comes twice; its own question is shown, and *)
(* both sides of every response that had ended well before it began, each  *)
(* unless it is behind the first Limit messages.  Whatever other responses *)
(* write in between the reads takes none of that away                      *)
(* (orchestrator.go:101-142, 602-628, message_repo.go:95-146).             *)
HistoryIsFaithful ==
  \A t \in Turns : turn[t] = "answering" =>
    /\ \A i, j \in DOMAIN shown[t] : i < j => shown[t][i] < shown[t][j]
    /\ \A i \in DOMAIN msgs :
         /\ i <= Limit /\ msgs[i].text
         /\ msgs[i].of \in earlier[t] \/ (msgs[i].of = t /\ msgs[i].role = "user")
         => \E k \in DOMAIN shown[t] : shown[t][k] = i

Message == [role : {"user", "assistant"}, of : Turns, text : BOOLEAN]

ConvTypeOK ==
  /\ msgs \in Seq(Message)
  /\ turn \in [Turns -> {"new", "asked", "worded", "listing", "reading", "answering",
                        "answered", "completed", "failed"}]
  /\ listed \in [Turns -> Seq(Nat)] /\ shown \in [Turns -> Seq(Nat)]
  /\ earlier \in [Turns -> SUBSET Turns]

Rising(s) == \A i, j \in DOMAIN s : i < j => s[i] < s[j]
Has(s, x) == \E k \in DOMAIN s : s[k] = x

Wrote(t, role) == \E i \in DOMAIN msgs : msgs[i].of = t /\ msgs[i].role = role

(* Messages the model has to be shown in response t.                       *)
Due(t, i) == msgs[i].of \in earlier[t] \/ (msgs[i].of = t /\ msgs[i].role = "user")

(* While a response reads, what it has to show is shown or still listed,   *)
(* in the order of the conversation.                                       *)
ReadsAll(t) ==
  /\ Rising(shown[t]) /\ Rising(listed[t])
  /\ \A i \in DOMAIN shown[t], j \in DOMAIN listed[t] : shown[t][i] < listed[t][j]
  /\ \A j \in DOMAIN listed[t] : listed[t][j] \in DOMAIN msgs
  /\ turn[t] \in {"reading", "answering"} =>
       \A i \in DOMAIN msgs : i <= Limit /\ msgs[i].text /\ Due(t, i) =>
         Has(shown[t], i) \/ Has(listed[t], i)

TurnSound(t) ==
  /\ \A u \in earlier[t] : turn[u] = "completed"
  /\ turn[t] \notin {"reading", "answering"} => listed[t] = <<>> /\ shown[t] = <<>>
  /\ turn[t] = "answering" => listed[t] = <<>>
  /\ turn[t] = "asked" => Wrote(t, "user")
  /\ turn[t] \in {"listing", "reading", "answering"} => Wrote(t, "assistant")
  /\ ReadsAll(t)

(* The inductive invariant.                                                *)
ConvInv == ConvTypeOK /\ \A t \in Turns : TurnSound(t)
=============================================================================
