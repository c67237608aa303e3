--------------------------------- MODULE Tools ----------------------------------
(***************************************************************************)
(* Registry.Execute with the tools it runs: the goroutine of ToolExec      *)
(* takes the steps of the tool that was asked for, and goes on with them   *)
(* after its caller has left.                                              *)
(***************************************************************************)
EXTENDS ToolExec, Calculator, WebFetch, KnowledgeSearch

vars == <<execVars, calcVars, fetchVars, searchVars>>

-----------------------------------------------------------------------------
(* The goroutine takes a step of its tool, or has come to its end.         *)
Runs(name) == tool = name /\ goroutine = "running"

Working(name) == Runs(name) /\ UNCHANGED execVars

Ends(name, where, ok, failed) ==
  /\ Runs(name) /\ where \in ok \cup failed
  /\ ToolReturns(IF where \in ok THEN "result" ELSE "error")
  /\ UNCHANGED <<calcVars, fetchVars, searchVars>>

Calculate ==
  \/ Working("calculator") /\ CalcNext /\ UNCHANGED <<fetchVars, searchVars>>
  \/ Ends("calculator", calc, {"done"}, {"error", "undefined"})

Fetch ==
  \/ Working("web_fetch") /\ FetchNext /\ UNCHANGED <<calcVars, searchVars>>
  \/ Ends("web_fetch", fetch, {"done"}, {"failed"})

Search ==
  \/ Working("knowledge_search") /\ SearchNext /\ UNCHANGED <<calcVars, fetchVars>>
  \/ Ends("knowledge_search", find, {"done"}, {"failed"})

(* web_search and current_time: an answer, an error or a panic.            *)
OtherTool ==
  /\ Runs("other") /\ \E r \in Outcomes : ToolReturns(r)
  /\ UNCHANGED <<calcVars, fetchVars, searchVars>>

Work == Calculate \/ Fetch \/ Search \/ OtherTool

Hand == (Call \/ Send) /\ UNCHANGED <<calcVars, fetchVars, searchVars>>

EndContext == ContextEnds /\ UNCHANGED <<calcVars, fetchVars, searchVars>>

-----------------------------------------------------------------------------
(* What the tools that are not asked for are left at.                      *)
NoExpr == [text |-> <<>>, tree |-> <<>>]
NoUrl  == CHOOSE u \in Urls : TRUE

Init ==
  /\ ExecInit
  /\ IF tool = "calculator" THEN CalcInit ELSE CalcStart(NoExpr)
  /\ IF tool = "web_fetch" THEN FetchInit ELSE FetchStart(NoUrl, 0)
  /\ IF tool = "knowledge_search" THEN SearchInit ELSE SearchStart(<<>>, 1, {}, {})

Next == Work \/ Hand \/ EndContext

(* The scheduler runs caller and goroutine; no timeout is needed, as every *)
(* tool ends by itself or by the timeout of its own client.                *)
Spec == Init /\ [][Next]_vars /\ WF_vars(Work) /\ WF_vars(Hand)

-----------------------------------------------------------------------------
(* However the tool's result, its timeout and the request's cancellation   *)
(* race, the call returns and its goroutine ends: a result nobody waits    *)
(* for any more does not hold it (registry.go:110-129).                    *)
NothingStaysBehind == <>(caller = "returned" /\ goroutine \in {"none", "done"})
-----------------------------------------------------------------------------
(* How much an execution has left to do.                                   *)

(* A character of the text is two tokens at most, a token goes over the    *)
(* stack into the postfix form, and from there into a value.               *)
CalcLeft ==
  7 * Len(rest) + 3 * Len(tokens) + 2 * Len(opStack) + Len(rpn)
  + CASE calc = "tokenize" -> 3 [] calc = "parse" -> 2 [] calc = "eval" -> 1 [] OTHER -> 0

FetchLeft ==
  CASE fetch = "validate" -> MaxRedirects + ReadLimit + 3
    [] fetch = "request" -> (MaxRedirects - Len(via)) + ReadLimit + 2
    [] fetch = "read" -> 1 + IF got < ReadLimit THEN ReadLimit - got ELSE 0
    [] OTHER -> 0

FindLeft ==
  CASE find = "scope" -> 3 [] find = "vector" -> 2 [] find = "keyword" -> 1 [] OTHER -> 0

WorkLeft ==
  CASE tool = "calculator" -> CalcLeft
    [] tool = "web_fetch" -> FetchLeft
    [] tool = "knowledge_search" -> FindLeft
    [] OTHER -> 0

CallerLeft == CASE caller = "calling" -> 2 [] caller = "waiting" -> 1 [] OTHER -> 0

StepsLeft ==
  CallerLeft + CASE goroutine \in {"none", "running"} -> 2 + WorkLeft
                 [] goroutine = "sending" -> 1
                 [] OTHER -> 0

(* Every tool ends by itself: each step of the caller or of the goroutine  *)
(* leaves less to do, however long the expression, however many redirects, *)
(* pieces of a page or deletions of other requests there are               *)
(* (registry.go:72-129, fetcher.go:73-155, calculator.go:64-256).          *)
ExecutionAdvances ==
  [][(Work \/ Hand) /\ UNCHANGED deleted => StepsLeft' < StepsLeft]_vars
=============================================================================
