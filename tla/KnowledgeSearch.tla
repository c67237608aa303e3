---------------------------- MODULE KnowledgeSearch -----------------------------
(***************************************************************************)
(* The knowledge_search tool and Service.Search: which bases are searched, *)
(* and how the answer is put together from a query by vector distance and, *)
(* where that leaves room, a query by keyword.  The two queries are two    *)
(* statements: bases may be deleted before, between and after them.        *)
(***************************************************************************)
EXTENDS Naturals, Sequences, FiniteSets

CONSTANTS
  Bases,      \* knowledge bases named in a request
  Project,    \* those of the project
  ListLimit,  \* bases searched when none is named
  Corpora,    \* sequences of chunks, nearest first: [kb, close, match]
  TopKs

Chunk == [kb : Bases, close : BOOLEAN, match : BOOLEAN]

ASSUME SearchAssumption ==
  /\ Project \subseteq Bases /\ IsFiniteSet(Project) /\ ListLimit \in Nat \ {0}
  /\ Corpora \subseteq Seq(Chunk) /\ TopKs \subseteq Nat \ {0}

VARIABLES
  corpus,     \* the stored chunks
  topK,
  requested,  \* bases the model asked for
  allowed,    \* bases the request allows
  deleted,    \* bases deleted so far
  scope,      \* bases searched
  goneBefore, \* history: bases deleted when the scope was chosen
  found,      \* chunks found, as positions in the corpus
  find        \* where Search is

searchVars == <<corpus, topK, requested, allowed, deleted, scope, goneBefore, found, find>>

-----------------------------------------------------------------------------
(* intersectKnowledgeIDs: without a list of allowed bases all are.         *)
Wanted ==
  IF allowed = {} THEN requested
  ELSE IF requested = {} THEN allowed ELSE requested \cap allowed

LeastOf(m, n) == IF m < n THEN m ELSE n

(* ListByProject: as many as the limit allows, the newest.                 *)
ListByProject ==
  LET there == Project \ deleted IN
  {S \in SUBSET there : Cardinality(S) = LeastOf(ListLimit, Cardinality(there))}

(* Nothing wanted means the bases of the project; otherwise all that are   *)
(* wanted must be there.                                                   *)
ChooseScope ==
  /\ find = "scope"
  /\ scope' \in IF Wanted = {} THEN ListByProject ELSE {Wanted}
  /\ goneBefore' = deleted
  /\ find' = IF scope' = {} THEN "done"
             ELSE IF scope' \subseteq Project \ deleted THEN "vector" ELSE "failed"
  /\ UNCHANGED <<corpus, topK, requested, allowed, deleted, found>>

(* The role check, the embedding or a statement fails.                     *)
SearchError ==
  /\ find \in {"scope", "vector", "keyword"} /\ find' = "failed"
  /\ UNCHANGED <<corpus, topK, requested, allowed, deleted, scope, goneBefore, found>>

-----------------------------------------------------------------------------
(* What both statements select from.                                       *)
Visible == {i \in DOMAIN corpus : corpus[i].kb \in scope \ deleted}

(* The rows of an answer: n of a set, each once, in any order.             *)
Listings(S, n) ==
  {s \in [1..LeastOf(n, Cardinality(S)) -> S] : \A j, k \in DOMAIN s : s[j] = s[k] => j = k}

(* The rows of the first query by distance, less those below the threshold. *)
(* Its index is approximate, and what it scans is filtered afterwards: any *)
(* of the chunks may be missing.                                           *)
VectorQuery ==
  /\ find = "vector"
  /\ \E rows \in SUBSET Visible :
       LET near == {i \in rows : corpus[i].close} IN
       /\ Cardinality(rows) <= topK
       /\ found' \in {s \in Listings(near, topK) : \A j, k \in DOMAIN s : j < k => s[j] < s[k]}
       /\ find' = IF Cardinality(near) < topK THEN "keyword" ELSE "done"
  /\ UNCHANGED <<corpus, topK, requested, allowed, deleted, scope, goneBefore>>

(* Mutant of KeywordLimit: only as many rows as are missing are asked for.  *)
KeywordLimitMissing == topK - Len(found)

KeywordLimit == topK

Seen == {found[i] : i \in DOMAIN found}

(* At most TopK rows; those of the first query are skipped.                *)
KeywordQuery ==
  LET matches == {i \in Visible : corpus[i].match} IN
  /\ find = "keyword" /\ find' = "done"
  /\ \E rows \in SUBSET matches :
       /\ Cardinality(rows) = LeastOf(KeywordLimit, Cardinality(matches))
       /\ \E more \in Listings(rows \ Seen, topK - Len(found)) : found' = found \o more
  /\ UNCHANGED <<corpus, topK, requested, allowed, deleted, scope, goneBefore>>

(* Another request deletes a base.                                         *)
BaseDeleted(b) ==
  /\ find \notin {"done", "failed"} /\ b \notin deleted
  /\ deleted' = deleted \cup {b}
  /\ UNCHANGED <<corpus, topK, requested, allowed, scope, goneBefore, found, find>>

-----------------------------------------------------------------------------
SearchStart(chunks, k, asked, may) ==
  /\ corpus = chunks /\ topK = k
  /\ requested = asked /\ allowed = may /\ deleted = {}
  /\ scope = {} /\ goneBefore = {} /\ found = <<>> /\ find = "scope"

SearchInit ==
  \E chunks \in Corpora, k \in TopKs, asked \in SUBSET Bases, may \in SUBSET Project :
    SearchStart(chunks, k, asked, may)

SearchNext ==
  \/ ChooseScope \/ SearchError \/ VectorQuery \/ KeywordQuery
  \/ \E b \in Project : BaseDeleted(b)

SearchSpec == SearchInit /\ [][SearchNext]_searchVars

-----------------------------------------------------------------------------
(* A search returns no chunk twice, none of a base deleted before it began *)
(* or outside of what was wanted, and no more than TopK.  When it returns  *)
(* fewer, it has every keyword match of the bases that are still there,    *)
(* although the limit of the second statement counts rows that the first   *)
(* has found already; of the near chunks the index may miss any.  With     *)
(* nothing wanted those are all bases of the project, unless there are     *)
(* more than one list has room for (service.go:242-259,                    *)
(* knowledge_repo.go:313-384).                                             *)
ShortAnswerHasAllMatches ==
  find = "done" /\ scope # {} =>
    /\ Cardinality(Seen) = Len(found) /\ Len(found) <= topK
    /\ \A i \in Seen :
         /\ corpus[i].kb \in Project \ goneBefore
         /\ Wanted # {} => corpus[i].kb \in Wanted
         /\ corpus[i].close \/ corpus[i].match
    /\ Len(found) < topK => \A i \in Visible : corpus[i].match => i \in Seen
    /\ Wanted = {} /\ Cardinality(Project \ goneBefore) <= ListLimit => scope = Project \ goneBefore

SearchTypeOK ==
  /\ corpus \in Seq(Chunk) /\ topK \in Nat \ {0}
  /\ found \in Seq(DOMAIN corpus)
  /\ find \in {"scope", "vector", "keyword", "done", "failed"}

(* Every answer, complete or not, is within the scope and has no chunk     *)
(* twice.                                                                  *)
FoundSound ==
  /\ \A j, k \in DOMAIN found : found[j] = found[k] => j = k
  /\ \A i \in Seen : corpus[i].kb \in scope /\ (corpus[i].close \/ corpus[i].match)
  /\ Len(found) <= topK
  /\ find \in {"scope", "vector"} => found = <<>>

Misses(i) == i \in Visible /\ i \notin Seen

(* The bases that were chosen.                                             *)
Scoped ==
  /\ scope \subseteq Project \ goneBefore
  /\ IF Wanted # {} THEN scope = Wanted
     ELSE Cardinality(Project \ goneBefore) <= ListLimit => scope = Project \ goneBefore

(* The inductive invariant: what each query has left out.                  *)
SearchInv ==
  /\ SearchTypeOK /\ FoundSound
  /\ find \in {"vector", "keyword", "done"} /\ scope # {} => Scoped
  /\ find = "done" /\ scope # {} /\ Len(found) < topK =>
       \A i \in DOMAIN corpus : Misses(i) => ~corpus[i].match
=============================================================================
