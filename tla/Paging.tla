--------------------------------- MODULE Paging ---------------------------------
(***************************************************************************)
(* Walking through a list of knowledge bases or documents page by page,    *)
(* the newest first, while rows are added and deleted.  The cursor of the  *)
(* next page is the created_at of the last row of this one.                *)
(***************************************************************************)
EXTENDS Naturals, Sequences, FiniteSets

CONSTANTS
  Ids,        \* rows there may be
  Instants,   \* values of created_at, numbers
  PageLimits  \* limits a client may ask for: <<asked, default, maximum>>

(* created_at is never 0, and a page never empty.                          *)
ASSUME PagingAssumption ==
  /\ IsFiniteSet(Ids) /\ Instants \subseteq Nat \ {0}
  /\ \A ask \in PageLimits : ask[1] \in Nat /\ {ask[2], ask[3]} \subseteq Nat \ {0}

VARIABLES
  table,    \* created_at of each row that is there
  pageSize, \* rows of a page
  cursor,   \* created_at, or 0 for the first page
  walked,   \* rows listed so far
  walk,     \* "listing" or "done"
  ever,     \* history: created_at of each row there was during the walk
  lasting   \* history: rows there since it began

pagingVars == <<table, pageSize, cursor, walked, walk, ever, lasting>>

-----------------------------------------------------------------------------
NormalizeLimit(ask) ==
  IF ask[1] = 0 THEN ask[2] ELSE IF ask[1] > ask[3] THEN ask[3] ELSE ask[1]

Behind(t) == cursor = 0 \/ t < cursor

(* Mutant of CursorOf: the cursor is the first row that was left out.       *)
CursorOfNext(rows) == table[rows[pageSize + 1]]

(* trimPage: the last row of the page.                                     *)
CursorOf(rows) == table[rows[pageSize]]

(* What the database may answer: one row more than a page behind the       *)
(* cursor, those of one instant in any order.                              *)
Answered(rows) ==
  LET wanted == {i \in DOMAIN table : Behind(table[i])}
      taken  == {rows[k] : k \in DOMAIN rows} IN
  /\ Len(rows) = (IF Cardinality(wanted) > pageSize THEN pageSize + 1 ELSE Cardinality(wanted))
  /\ Cardinality(taken) = Len(rows) /\ taken \subseteq wanted
  /\ \A j, k \in DOMAIN rows : j < k => table[rows[j]] >= table[rows[k]]
  /\ \A i \in wanted \ taken, j \in taken : table[i] <= table[j]

NextPage ==
  /\ walk = "listing"
  /\ \E n \in 0..(pageSize + 1) : \E rows \in [1..n -> DOMAIN table] :
       /\ Answered(rows)
       /\ IF n <= pageSize
            THEN walked' = walked \o rows /\ walk' = "done" /\ UNCHANGED cursor
            ELSE /\ walked' = walked \o SubSeq(rows, 1, pageSize)
                 /\ cursor' = CursorOf(rows)
                 /\ UNCHANGED walk
  /\ UNCHANGED <<table, pageSize, ever, lasting>>

(* Another request adds a row, not older than those there are, or deletes  *)
(* one.                                                                    *)
AddRow(i, t) ==
  /\ walk = "listing" /\ i \notin DOMAIN ever
  /\ \A j \in DOMAIN table : table[j] <= t
  /\ table' = [j \in DOMAIN table \cup {i} |-> IF j = i THEN t ELSE table[j]]
  /\ ever' = [j \in DOMAIN ever \cup {i} |-> IF j = i THEN t ELSE ever[j]]
  /\ UNCHANGED <<pageSize, cursor, walked, walk, lasting>>

DropRow(i) ==
  /\ walk = "listing" /\ i \in DOMAIN table
  /\ table' = [j \in DOMAIN table \ {i} |-> table[j]]
  /\ lasting' = lasting \ {i}
  /\ UNCHANGED <<pageSize, cursor, walked, walk, ever>>

-----------------------------------------------------------------------------
PagingStart(rows, ask) ==
  /\ table = rows /\ ever = rows /\ lasting = DOMAIN rows
  /\ pageSize = NormalizeLimit(ask)
  /\ cursor = 0 /\ walked = <<>> /\ walk = "listing"

PagingInit ==
  \E S \in SUBSET Ids : \E rows \in [S -> Instants], ask \in PageLimits : PagingStart(rows, ask)

PagingNext ==
  \/ NextPage
  \/ \E i \in Ids, t \in Instants : AddRow(i, t)
  \/ \E i \in Ids : DropRow(i)

PagingSpec == PagingInit /\ [][PagingNext]_pagingVars

-----------------------------------------------------------------------------
Alone(i) == \A j \in DOMAIN ever : j # i => ever[j] # ever[i]

Listed(i) == Cardinality({k \in DOMAIN walked : walked[k] = i})

(* A walk through the pages lists every row that is there all the while    *)
(* exactly once, unless it was created in the same instant as another:     *)
(* one page ends with the one and the next begins behind both.  Rows that  *)
(* come and go meanwhile shift nothing (knowledge_repo.go:123-153,         *)
(* 201-227, knowledge/service.go:481-508).                                 *)
PagesAreWhole ==
  \A i \in lasting :
    /\ Listed(i) <= 1
    /\ walk = "done" /\ Alone(i) => Listed(i) = 1

PagingTypeOK ==
  /\ DOMAIN ever \subseteq Ids /\ DOMAIN table \subseteq Ids
  /\ ever \in [DOMAIN ever -> Instants] /\ table \in [DOMAIN table -> Instants]
  /\ pageSize \in Nat \ {0} /\ cursor \in Nat
  /\ walked \in Seq(DOMAIN ever) /\ walk \in {"listing", "done"}

(* The history remembers every row as it is, and those of the beginning.   *)
Remembered ==
  /\ DOMAIN table \subseteq DOMAIN ever /\ \A i \in DOMAIN table : ever[i] = table[i]
  /\ lasting \subseteq DOMAIN table

(* What was listed lies before the cursor, each row once.                  *)
InOrder ==
  /\ \A j, k \in DOMAIN walked : walked[j] = walked[k] => j = k
  /\ walk = "listing" => IF cursor = 0 THEN walked = <<>>
                         ELSE \A k \in DOMAIN walked : ever[walked[k]] >= cursor

IsListed(i) == \E k \in DOMAIN walked : walked[k] = i

(* What lies before the cursor, or anywhere once the walk is done, was     *)
(* listed.                                                                 *)
NothingPassed ==
  \A i \in lasting : Alone(i) /\ (walk = "done" \/ ~Behind(ever[i])) => IsListed(i)

(* The inductive invariant.                                                *)
PagingInv == PagingTypeOK /\ Remembered /\ InOrder /\ NothingPassed
=============================================================================
