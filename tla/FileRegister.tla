----------------------------- MODULE FileRegister -----------------------------
(***************************************************************************)
(* What the file service promises of the files one can download: each file *)
(* becomes available at most once, is withdrawn at most once, and a file   *)
(* whose upload was reported is withdrawn by a deletion only.              *)
(***************************************************************************)
CONSTANT Files

VARIABLES
  avail,     \* files one can download
  gone,      \* files that were available and no longer are
  asked,     \* files somebody asked to delete
  reported   \* files whose upload was reported as done

regVars == <<avail, gone, asked, reported>>

RegInit == avail = {} /\ gone = {} /\ asked = {} /\ reported = {}

Ask(f) ==
  /\ asked' = asked \cup {f}
  /\ UNCHANGED <<avail, gone, reported>>

Publish(f) ==
  /\ f \notin avail \cup gone
  /\ avail' = avail \cup {f}
  /\ reported' \in {reported, reported \cup {f}}
  /\ UNCHANGED <<gone, asked>>

(* An upload that was overtaken by its deletion is still reported.         *)
Overtaken(f) ==
  /\ f \in asked
  /\ reported' = reported \cup {f}
  /\ UNCHANGED <<avail, gone, asked>>

Withdraw(f) ==
  /\ f \in avail
  /\ f \in asked \/ f \notin reported
  /\ avail' = avail \ {f}
  /\ gone' = gone \cup {f}
  /\ UNCHANGED <<asked, reported>>

RegNext == \E f \in Files : Ask(f) \/ Publish(f) \/ Overtaken(f) \/ Withdraw(f)

RegSpec == RegInit /\ [][RegNext]_regVars
=============================================================================
