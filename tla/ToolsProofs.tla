------------------------------ MODULE ToolsProofs -------------------------------
(***************************************************************************)
(* The tools and the goroutine that runs them: each tool by itself, for    *)
(* all values of its constants, and all of them in Registry.Execute.       *)
(***************************************************************************)
EXTENDS Tools, SequenceTheorems, FiniteSetTheorems, WellFoundedInduction, TLAPS

-----------------------------------------------------------------------------
(* web_fetch: what is asked for was checked, what is missing is flagged.   *)

LEMMA FetchInitially == FetchInit => FetchInv
<1> SUFFICES ASSUME NEW u \in Urls, NEW n \in CharsAsked, FetchStart(u, n) PROVE FetchInv
  BY DEF FetchInit
<1>1. Chars(n) \in Nat
  BY FetchAssumption DEF Chars
<1>2. FetchTypeOK
  BY <1>1 DEF FetchStart, FetchTypeOK
<1>3. Checked
  BY DEF FetchStart, Checked
<1>4. NothingCutSilently
  BY FetchAssumption DEF FetchStart, NothingCutSilently, EachChecked
<1>. QED
  BY <1>2, <1>3, <1>4 DEF FetchInv

Check == [url : Urls, ips : SUBSET Ips]

(* One more address was asked for, the one that was checked last.          *)
LEMMA OneMoreAsked ==
  ASSUME FetchInv, fetch = "request", via' = Append(via, url)
  PROVE  /\ via' \in Seq(Urls) /\ Len(via') = Len(via) + 1 /\ Len(via') <= MaxRedirects
         /\ EachChecked(via', checks) /\ Len(checks) = Len(via')
<1>1. via \in Seq(Urls) /\ url \in Urls /\ Len(via) < MaxRedirects
  BY DEF FetchInv, FetchTypeOK, Checked
<1>2. EachChecked(via', checks) /\ Len(checks) = Len(via) + 1
  BY DEF FetchInv, Checked
<1>3. /\ via' \in Seq(Urls) /\ Len(via') = Len(via) + 1 /\ Len(via) \in Nat
  BY <1>1
<1>. QED
  BY <1>1, <1>2, <1>3, FetchAssumption

(* A check more says nothing else of those before it.                      *)
LEMMA OneMoreCheck ==
  ASSUME NEW vs \in Seq(Urls), NEW cs \in Seq(Check), EachChecked(vs, cs), Len(cs) = Len(vs),
         NEW u \in Urls, NEW ips \in SUBSET Ips, Valid(u, ips)
  PROVE  /\ Append(cs, [url |-> u, ips |-> ips]) \in Seq(Check)
         /\ Len(Append(cs, [url |-> u, ips |-> ips])) = Len(vs) + 1
         /\ EachChecked(vs, Append(cs, [url |-> u, ips |-> ips]))
         /\ EachChecked(Append(vs, u), Append(cs, [url |-> u, ips |-> ips]))
<1> DEFINE c == [url |-> u, ips |-> ips]
           ds == Append(cs, c)
           us == Append(vs, u)
<1>1. c \in Check /\ c.url = u /\ c.ips = ips
  BY DEF Check
<1> HIDE DEF c
<1>2. /\ ds \in Seq(Check) /\ Len(ds) = Len(vs) + 1 /\ Len(vs) \in Nat
      /\ DOMAIN vs = 1 .. Len(vs) /\ DOMAIN us = 1 .. (Len(vs) + 1) /\ DOMAIN ds = 1 .. (Len(vs) + 1)
      /\ \A i \in 1 .. Len(vs) : us[i] = vs[i] /\ ds[i] = cs[i]
      /\ us[Len(vs) + 1] = u /\ ds[Len(vs) + 1] = c
  BY <1>1
<1> HIDE DEF ds, us
<1>3. \A i \in 1 .. Len(vs) : ds[i].url = vs[i] /\ Valid(ds[i].url, ds[i].ips)
  BY <1>2 DEF EachChecked
<1>4. ASSUME NEW i \in 1 .. (Len(vs) + 1) PROVE ds[i].url = us[i] /\ Valid(ds[i].url, ds[i].ips)
  <2>1. CASE i = Len(vs) + 1
    BY <1>1, <1>2, <2>1
  <2>2. CASE i # Len(vs) + 1
    <3>1. i \in 1 .. Len(vs)
      BY <1>2, <2>2
    <3>. QED
      BY <1>2, <1>3, <3>1
  <2>. QED
    BY <2>1, <2>2
<1>5. EachChecked(vs, ds) /\ EachChecked(us, ds)
  BY <1>2, <1>3, <1>4 DEF EachChecked
<1>. QED
  BY <1>2, <1>5 DEF ds, us, c

LEMMA FetchStep == FetchInv /\ [FetchNext]_fetchVars => FetchInv'
<1> SUFFICES ASSUME FetchInv, [FetchNext]_fetchVars PROVE FetchInv'
  OBVIOUS
<1>0. FetchTypeOK /\ Checked /\ NothingCutSilently
  BY DEF FetchInv
<1>1. CASE UNCHANGED fetchVars
  BY <1>0, <1>1 DEF fetchVars, FetchInv, FetchTypeOK, Checked, NothingCutSilently
<1>2. CASE FetchFails
  BY <1>0, <1>2 DEF FetchFails, FetchInv, FetchTypeOK, Checked, NothingCutSilently
<1>3. ASSUME NEW ips \in SUBSET Ips, ValidateUrl(ips) PROVE FetchInv'
  <2>1. CASE ~Valid(url, ips)
    BY <1>2, <1>3, <2>1 DEF ValidateUrl
  <2>2. CASE Valid(url, ips)
    <3>1. /\ fetch = "validate" /\ fetch' = "request"
          /\ checks' = Append(checks, [url |-> url, ips |-> ips])
          /\ UNCHANGED <<url, via, maxChars, body, got, page, result>>
      BY <1>3, <2>2 DEF ValidateUrl, Passed
    <3>2. /\ via = <<>> /\ checks = <<>> /\ url \in Urls /\ via \in Seq(Urls) /\ checks \in Seq(Check)
          /\ Len(via) = 0 /\ Len(checks) = Len(via) /\ EachChecked(via, checks)
      BY <1>0, <3>1 DEF Checked, FetchTypeOK, Check, EachChecked
    <3>3. /\ checks' \in Seq(Check) /\ Len(checks') = Len(via) + 1
          /\ EachChecked(via, checks') /\ EachChecked(Append(via, url), checks')
      BY <2>2, <3>1, <3>2, OneMoreCheck
    <3>4. Checked'
      BY <3>1, <3>2, <3>3, FetchAssumption DEF Checked
    <3>5. FetchTypeOK'
      BY <1>0, <3>1, <3>3 DEF FetchTypeOK, Check
    <3>6. NothingCutSilently'
      BY <1>0, <3>1, <3>3 DEF NothingCutSilently
    <3>. QED
      BY <3>4, <3>5, <3>6 DEF FetchInv
  <2>. QED
    BY <2>1, <2>2
<1>4. ASSUME NEW u \in Urls, NEW ips \in SUBSET Ips, Redirect(u, ips) PROVE FetchInv'
  <2>1. /\ fetch = "request" /\ via' = Append(via, url)
        /\ UNCHANGED <<maxChars, body, got, page, result>>
        /\ \/ /\ MayFollow(u, ips) /\ url' = u /\ fetch' = fetch
              /\ checks' = Append(checks, [url |-> u, ips |-> ips])
           \/ fetch' = "failed" /\ url' = url /\ checks' = checks
    BY <1>4 DEF Redirect, Passed
  <2>2. /\ via' \in Seq(Urls) /\ Len(via') = Len(via) + 1 /\ Len(via') <= MaxRedirects
        /\ EachChecked(via', checks) /\ Len(checks) = Len(via')
    BY <2>1, OneMoreAsked
  <2>3. checks \in Seq(Check)
    BY <1>0 DEF FetchTypeOK, Check
  <2>4. CASE fetch' = "failed" /\ url' = url /\ checks' = checks
    BY <1>0, <2>1, <2>2, <2>4 DEF FetchInv, FetchTypeOK, Checked, NothingCutSilently
  <2>5. CASE /\ MayFollow(u, ips) /\ url' = u /\ fetch' = fetch
             /\ checks' = Append(checks, [url |-> u, ips |-> ips])
    <3>1. Len(via') < MaxRedirects /\ Valid(u, ips)
      BY <2>5 DEF MayFollow
    <3>2. /\ checks' \in Seq(Check) /\ Len(checks') = Len(via') + 1
          /\ EachChecked(via', checks') /\ EachChecked(Append(via', u), checks')
      BY <2>2, <2>3, <2>5, <3>1, OneMoreCheck
    <3>3. Checked'
      BY <2>1, <2>5, <3>1, <3>2 DEF Checked
    <3>4. FetchTypeOK'
      BY <1>0, <2>1, <2>2, <2>5, <3>2 DEF FetchTypeOK, Check
    <3>5. NothingCutSilently'
      BY <2>1, <2>2, <2>5, <3>2 DEF NothingCutSilently
    <3>. QED
      BY <3>3, <3>4, <3>5 DEF FetchInv
  <2>. QED
    BY <2>1, <2>4, <2>5
<1>5. ASSUME NEW n \in 0 .. LongestBody, NEW status, NEW type, Page(n, status, type)
      PROVE  FetchInv'
  <2>1. /\ fetch = "request" /\ via' = Append(via, url)
        /\ fetch' \in {"read", "failed"} /\ body' = n
        /\ UNCHANGED <<url, checks, maxChars, got, page, result>>
    BY <1>5 DEF Page
  <2>2. via' \in Seq(Urls) /\ Len(via') <= MaxRedirects /\ EachChecked(via', checks)
    BY <2>1, OneMoreAsked
  <2>3. Checked'
    BY <2>1 DEF Checked
  <2>4. FetchTypeOK'
    BY <1>0, <2>1, <2>2 DEF FetchTypeOK
  <2>5. NothingCutSilently'
    BY <2>1, <2>2 DEF NothingCutSilently
  <2>. QED
    BY <2>3, <2>4, <2>5 DEF FetchInv
<1>6. ASSUME NEW n \in 1 .. ReadLimit, ReadSome(n) PROVE FetchInv'
  <2>1. FetchTypeOK'
    BY <1>0, <1>6 DEF ReadSome, FetchTypeOK
  <2>. QED
    BY <1>0, <1>6, <2>1 DEF ReadSome, FetchInv, Checked, NothingCutSilently
<1>7. ASSUME NEW chars \in 0 .. MaxBodyBytes, Extract(chars) PROVE FetchInv'
  <2>1. /\ fetch = "read" /\ (body = 0 \/ got = MaxBodyBytes + 1) /\ fetch' = "done"
        /\ page' = chars
        /\ result' = [chars |-> IF chars > maxChars THEN maxChars ELSE chars,
                      truncated |-> got > MaxBodyBytes \/ chars > maxChars]
        /\ UNCHANGED <<url, via, checks, maxChars, body, got>>
    BY <1>7 DEF Extract, ReadLimit
  <2>2. chars \in Nat /\ {maxChars, body, got, MaxBodyBytes} \subseteq Nat
    BY <1>0, FetchAssumption DEF FetchTypeOK
  <2>3. FetchTypeOK'
    BY <1>0, <2>1, <2>2 DEF FetchTypeOK
  <2>4. result'.truncated <=> got' + body' > MaxBodyBytes \/ result'.chars < page'
    <3>1. result'.truncated = (got > MaxBodyBytes \/ chars > maxChars)
      BY <2>1
    <3>2. result'.chars = IF chars > maxChars THEN maxChars ELSE chars
      BY <2>1
    <3>3. got > MaxBodyBytes <=> got + body > MaxBodyBytes
      BY <2>1, <2>2
    <3>4. chars > maxChars <=> (IF chars > maxChars THEN maxChars ELSE chars) < chars
      BY <2>2
    <3>. QED
      BY <2>1, <3>1, <3>2, <3>3, <3>4
  <2>5. NothingCutSilently'
    BY <1>0, <2>1, <2>4 DEF NothingCutSilently
  <2>. QED
    BY <2>1, <2>3, <2>5 DEF FetchInv, Checked
<1>8. CASE FetchError
  BY <1>2, <1>8 DEF FetchError
<1>. QED
  BY <1>1, <1>3, <1>4, <1>5, <1>6, <1>7, <1>8 DEF FetchNext

(* Whatever a server answers, in whatever pieces, and however the lookups  *)
(* of a host differ, each request had a check of its own address before    *)
(* it, there are at most MaxRedirects of them, and the flag tells the      *)
(* truth (fetcher.go:73-85, 92-155, 174-202).                              *)
THEOREM WhatIsCutIsFlagged == FetchSpec => []NothingCutSilently
<1>1. FetchInv => NothingCutSilently
  BY DEF FetchInv
<1>. QED
  BY FetchInitially, FetchStep, <1>1, PTL DEF FetchSpec

-----------------------------------------------------------------------------
(* The search: what an answer leaves out when it is short.                 *)

LEMMA PartsOfCorpus ==
  ASSUME SearchTypeOK, NEW S, S \subseteq DOMAIN corpus
  PROVE  IsFiniteSet(S) /\ Cardinality(S) \in Nat
<1>1. IsFiniteSet(1..Len(corpus)) /\ DOMAIN corpus = 1..Len(corpus)
  <2>1. Len(corpus) \in Nat /\ DOMAIN corpus = 1..Len(corpus)
    BY DEF SearchTypeOK
  <2>. QED
    BY <2>1, FS_Interval
<1>. QED
  BY <1>1, FS_Subset, FS_CardinalityType

LEMMA EachOnce ==
  ASSUME NEW S, NEW n, NEW f \in [1..n -> S], \A j, k \in 1..n : f[j] = f[k] => j = k
  PROVE  f \in Injection(1..n, S)
BY DEF Injection, IsInjective

(* RowsOf listed: as many as were asked for, or all.                         *)
LEMMA ListingIs ==
  ASSUME NEW S, IsFiniteSet(S), Cardinality(S) \in Nat, NEW n \in Nat, NEW s \in Listings(S, n)
  PROVE  /\ s \in Seq(S) /\ Len(s) <= n /\ Len(s) <= Cardinality(S) /\ DOMAIN s = 1..Len(s)
         /\ \A j, k \in 1..Len(s) : s[j] = s[k] => j = k
         /\ Len(s) < n => \A i \in S : \E k \in 1..Len(s) : s[k] = i
<1> DEFINE c == Cardinality(S)
           l == LeastOf(n, c)
<1>1. l \in Nat /\ l <= n /\ l <= c /\ (l < n => l = c)
  BY DEF LeastOf
<1> HIDE DEF c, l
<1>2. s \in [1..l -> S] /\ \A j, k \in 1..l : s[j] = s[k] => j = k
  BY DEF Listings, l, c
<1>3. s \in Seq(S) /\ Len(s) = l /\ DOMAIN s = 1..l
  BY <1>1, <1>2
<1>4. ASSUME l < n, NEW i \in S PROVE \E k \in 1..l : s[k] = i
  <2>1. s \in Injection(1..l, S)
    BY <1>2, EachOnce
  <2>2. Cardinality(1..l) = l
    BY <1>1, FS_Interval
  <2>3. Cardinality(1..l) = Cardinality(S)
    BY <1>1, <1>4, <2>2 DEF c
  <2>4. s \in Surjection(1..l, S)
    BY <2>1, <2>3, FS_Injection
  <2>. QED
    BY <2>4 DEF Surjection
<1>. QED
  BY <1>1, <1>2, <1>3, <1>4 DEF c

(* RowsOf appended to others, each still once.                               *)
RowsOf(s) == {s[k] : k \in DOMAIN s}

Fresh(D, s, more) ==
  /\ s \in Seq(D) /\ more \in Seq(D)
  /\ \A j, k \in 1..Len(s) : s[j] = s[k] => j = k
  /\ \A j, k \in 1..Len(more) : more[j] = more[k] => j = k
  /\ \A j \in 1..Len(s), k \in 1..Len(more) : s[j] # more[k]

ListJoined(D, s, more, next) ==
  /\ next \in Seq(D) /\ Len(next) = Len(s) + Len(more)
  /\ DOMAIN next = 1..(Len(s) + Len(more))
  /\ \A j, k \in DOMAIN next : next[j] = next[k] => j = k
  /\ RowsOf(next) = RowsOf(s) \cup RowsOf(more)

LEMMA AppendedOnce ==
  ASSUME NEW D, NEW s, NEW more, Fresh(D, s, more)
  PROVE  ListJoined(D, s, more, s \o more)
<1> DEFINE l == Len(s)
           m == Len(more)
           next == s \o more
<1>a. s \in Seq(D) /\ more \in Seq(D)
  BY DEF Fresh
<1>0. l \in Nat /\ m \in Nat
  BY <1>a
<1>1. /\ next \in Seq(D) /\ Len(next) = l + m
      /\ \A i \in 1..(l + m) : next[i] = IF i <= l THEN s[i] ELSE more[i - l]
  BY <1>a, ConcatProperties
<1>2. /\ \A j \in 1..l, k \in 1..m : s[j] # more[k]
      /\ \A j, k \in 1..l : s[j] = s[k] => j = k
      /\ \A j, k \in 1..m : more[j] = more[k] => j = k
  BY DEF Fresh
<1>3. next \in Seq(D) /\ DOMAIN next = 1..(l + m)
  BY <1>0, <1>1
<1> HIDE DEF l, m, next
<1>4. ASSUME NEW j \in 1..(l + m), NEW k \in 1..(l + m), next[j] = next[k] PROVE j = k
  <2>1. CASE j <= l /\ k <= l
    BY <1>0, <1>1, <1>2, <1>4, <2>1
  <2>2. CASE j <= l /\ k > l
    <3>1. next[j] = s[j] /\ next[k] = more[k - l] /\ j \in 1..l /\ k - l \in 1..m
      BY <1>0, <1>1, <2>2
    <3>. QED
      BY <1>2, <1>4, <3>1
  <2>3. CASE j > l /\ k <= l
    <3>1. next[k] = s[k] /\ next[j] = more[j - l] /\ k \in 1..l /\ j - l \in 1..m
      BY <1>0, <1>1, <2>3
    <3>. QED
      BY <1>2, <1>4, <3>1
  <2>4. CASE j > l /\ k > l
    <3>1. next[k] = more[k - l] /\ next[j] = more[j - l] /\ k - l \in 1..m /\ j - l \in 1..m
      BY <1>0, <1>1, <2>4
    <3>2. k - l = j - l
      BY <1>2, <1>4, <3>1
    <3>. QED
      BY <1>0, <3>2
  <2>. QED
    BY <1>0, <2>1, <2>2, <2>3, <2>4
<1>5. ASSUME NEW i PROVE (\E k \in 1..(l + m) : next[k] = i) <=>
                         (\E k \in 1..l : s[k] = i) \/ (\E k \in 1..m : more[k] = i)
  <2>1. ASSUME NEW k \in 1..l, s[k] = i PROVE \E j \in 1..(l + m) : next[j] = i
    BY <1>0, <1>1, <2>1
  <2>2. ASSUME NEW k \in 1..m, more[k] = i PROVE \E j \in 1..(l + m) : next[j] = i
    <3>1. k + l \in 1..(l + m) /\ (k + l) - l = k /\ ~(k + l <= l)
      BY <1>0, <2>2
    <3>2. next[k + l] = i
      BY <1>1, <2>2, <3>1
    <3>. QED
      BY <3>1, <3>2
  <2>3. ASSUME NEW k \in 1..(l + m), next[k] = i
        PROVE  (\E j \in 1..l : s[j] = i) \/ (\E j \in 1..m : more[j] = i)
    <3>1. CASE k <= l
      BY <1>0, <1>1, <2>3, <3>1
    <3>2. CASE k > l
      <4>1. k - l \in 1..m /\ next[k] = more[k - l]
        BY <1>0, <1>1, <2>3, <3>2
      <4>. QED
        BY <2>3, <4>1
    <3>3. k <= l \/ k > l
      BY <1>0
    <3>. QED
      BY <3>1, <3>2, <3>3, Zenon
  <2>. QED
    BY <2>1, <2>2, <2>3
<1>. QED
  <2>1. DOMAIN s = 1..l /\ DOMAIN more = 1..m
    BY <1>a DEF l, m
  <2>2. RowsOf(next) = RowsOf(s) \cup RowsOf(more)
    BY <1>3, <1>5, <2>1 DEF RowsOf
  <2>. QED
    BY <1>1, <1>3, <1>4, <2>2 DEF ListJoined, l, m, next

LEMMA SearchInitially == SearchInit => SearchInv
<1> SUFFICES ASSUME NEW chunks \in Corpora, NEW k \in TopKs,
                    NEW names \in SUBSET Bases, NEW may \in SUBSET Project,
                    SearchStart(chunks, k, names, may)
             PROVE  SearchInv
  BY DEF SearchInit
<1>1. chunks \in Seq(Chunk) /\ k \in Nat \ {0}
  BY SearchAssumption
<1>2. SearchTypeOK
  BY <1>1 DEF SearchStart, SearchTypeOK
<1>3. FoundSound
  BY <1>1 DEF SearchStart, FoundSound, Seen
<1>. QED
  BY <1>2, <1>3 DEF SearchStart, SearchInv
(* The chunks a query finds.                                               *)
LEMMA FoundMore ==
  ASSUME SearchInv, NEW S, S \subseteq Visible, S \cap Seen = {}, NEW n \in Nat, n = topK - Len(found),
         NEW more \in Listings(S, n), found' = found \o more,
         UNCHANGED <<corpus, topK, scope>>,
         \A i \in S : corpus[i].close \/ corpus[i].match,
         find' \in {"keyword", "done"}
  PROVE  /\ SearchTypeOK' /\ FoundSound'
         /\ \A i : i \in Seen' => i \in Seen \/ i \in S
         /\ \A i : i \in Seen => i \in Seen'
         /\ Len(found') < topK => \A i \in S : i \in Seen'
<1>0. /\ SearchTypeOK /\ FoundSound /\ found \in Seq(DOMAIN corpus)
      /\ Len(found) \in Nat /\ DOMAIN found = 1..Len(found) /\ topK \in Nat
  BY DEF SearchInv, SearchTypeOK
<1>1. S \subseteq DOMAIN corpus
  BY DEF Visible
<1>2. IsFiniteSet(S) /\ Cardinality(S) \in Nat
  BY <1>0, <1>1, PartsOfCorpus
<1>3. /\ more \in Seq(S) /\ Len(more) <= n /\ DOMAIN more = 1..Len(more)
      /\ \A j, k \in 1..Len(more) : more[j] = more[k] => j = k
      /\ Len(more) < n => \A i \in S : \E k \in 1..Len(more) : more[k] = i
  BY <1>2, ListingIs
<1>4. more \in Seq(DOMAIN corpus) /\ \A k \in 1..Len(more) : more[k] \in S
  BY <1>1, <1>3
<1>5. \A j \in 1..Len(found), k \in 1..Len(more) : found[j] # more[k]
  BY <1>0, <1>4 DEF Seen
<1>6. \A j, k \in 1..Len(found) : found[j] = found[k] => j = k
  BY <1>0 DEF FoundSound
<1>7. /\ found' \in Seq(DOMAIN corpus) /\ Len(found') = Len(found) + Len(more)
      /\ DOMAIN found' = 1..(Len(found) + Len(more))
      /\ \A j, k \in DOMAIN found' : found'[j] = found'[k] => j = k
      /\ RowsOf(found') = RowsOf(found) \cup RowsOf(more)
  <2>1. Fresh(DOMAIN corpus, found, more)
    BY <1>0, <1>3, <1>4, <1>5, <1>6 DEF Fresh
  <2>2. ListJoined(DOMAIN corpus, found, more, found \o more)
    BY <2>1, AppendedOnce, Zenon
  <2>. QED
    BY <2>2 DEF ListJoined
<1>8. \A i : i \in Seen' <=> i \in Seen \/ i \in RowsOf(more)
  BY <1>7 DEF Seen, RowsOf
<1>8a. \A i \in RowsOf(more) : i \in S
  BY <1>3, <1>4 DEF RowsOf
<1>8b. Len(more) < n => \A i \in S : i \in RowsOf(more)
  BY <1>3 DEF RowsOf
<1>9. Len(more) \in Nat
  BY <1>3
<1>10. Len(found') <= topK /\ (Len(found') < topK => Len(more) < n)
  BY <1>0, <1>3, <1>7, <1>9
<1>11. SearchTypeOK'
  BY <1>0, <1>7 DEF SearchTypeOK
<1>12. \A i \in S : corpus[i].kb \in scope
  BY DEF Visible
<1>13. FoundSound'
  <2>1. ASSUME NEW i \in Seen' PROVE corpus[i].kb \in scope /\ (corpus[i].close \/ corpus[i].match)
    <3>1. i \in Seen \/ i \in S
      BY <1>8, <1>8a, <2>1
    <3>. QED
      BY <1>0, <1>12, <3>1 DEF FoundSound
  <2>. QED
    BY <1>7, <1>10, <2>1 DEF FoundSound
<1>. QED
  BY <1>8, <1>8a, <1>8b, <1>10, <1>11, <1>13

LEMMA VectorSound ==
  ASSUME SearchInv, VectorQuery
  PROVE  SearchInv'
<1>0. /\ SearchTypeOK /\ find = "vector" /\ found = <<>> /\ topK \in Nat \ {0}
      /\ UNCHANGED <<corpus, topK, requested, allowed, deleted, scope, goneBefore>>
  BY DEF SearchInv, SearchTypeOK, FoundSound, VectorQuery
<1>1. PICK rows \in SUBSET Visible :
        /\ Cardinality(rows) <= topK
        /\ found' \in Listings({i \in rows : corpus[i].close}, topK)
        /\ find' = IF Cardinality({i \in rows : corpus[i].close}) < topK THEN "keyword" ELSE "done"
  BY DEF VectorQuery
<1> DEFINE near == {i \in rows : corpus[i].close}
<1>2. near \subseteq Visible /\ near \subseteq DOMAIN corpus /\ \A i \in near : corpus[i].close
  BY DEF Visible
<1>3. found' \in Listings(near, topK) /\ find' = (IF Cardinality(near) < topK THEN "keyword" ELSE "done")
  BY <1>1
<1> HIDE DEF near
<1>4. IsFiniteSet(near) /\ Cardinality(near) \in Nat
  BY <1>0, <1>2, PartsOfCorpus
<1>5. /\ found' \in Seq(near) /\ DOMAIN found' = 1..Len(found')
      /\ Len(found') < topK => \A i \in near : \E k \in 1..Len(found') : found'[k] = i
  BY <1>0, <1>3, <1>4, ListingIs
<1>6. found' = found \o found'
  BY <1>0, <1>5, ConcatEmptySeq
<1>7. topK = topK - Len(found) /\ Seen = {}
  BY <1>0 DEF Seen
<1>8. SearchTypeOK' /\ FoundSound'
  <2>1. topK \in Nat /\ near \cap Seen = {} /\ UNCHANGED <<corpus, topK, scope>>
    BY <1>0, <1>7
  <2>2. \A i \in near : corpus[i].close \/ corpus[i].match
    BY <1>2
  <2>3. PICK more : more = found'
    OBVIOUS
  <2>4. more \in Listings(near, topK) /\ found' = found \o more
    BY <1>3, <1>6, <2>3
  <2>5. find' \in {"keyword", "done"}
    BY <1>3
  <2>. QED
    BY <1>2, <1>7, <2>1, <2>2, <2>4, <2>5, FoundMore
<1>9. find' = "done" => ~(Len(found') < topK)
  <2> SUFFICES ASSUME Len(found') < topK PROVE Cardinality(near) < topK
    BY <1>3
  <2>1. found' \in Surjection(1..Len(found'), near)
    <3>1. found' \in [1..Len(found') -> near]
      BY <1>5
    <3>. QED
      BY <1>5, <3>1 DEF Surjection
  <2>2. Len(found') \in Nat
    BY <1>5
  <2>3. Cardinality(near) <= Len(found')
    BY <2>1, <2>2, FS_SurjCardinalityBound DEF ExistsSurjection
  <2>. QED
    BY <1>0, <1>4, <2>2, <2>3
<1>10. scope # {} => Scoped'
  <2>1. scope # {} => Scoped
    BY <1>0 DEF SearchInv
  <2>2. Scoped' = Scoped
    BY <1>0 DEF Scoped, Wanted
  <2>. QED
    BY <2>1, <2>2
<1>. QED
  BY <1>0, <1>8, <1>9, <1>10 DEF SearchInv

LEMMA KeywordSound ==
  ASSUME SearchInv, KeywordQuery
  PROVE  SearchInv'
<1> DEFINE matches == {i \in Visible : corpus[i].match}
           n == topK - Len(found)
<1>0. /\ SearchTypeOK /\ FoundSound /\ find = "keyword" /\ find' = "done"
      /\ UNCHANGED <<corpus, topK, requested, allowed, deleted, scope, goneBefore>>
      /\ topK \in Nat \ {0} /\ found \in Seq(DOMAIN corpus) /\ Len(found) \in Nat
  BY DEF SearchInv, SearchTypeOK, KeywordQuery
<1>1. PICK rows \in SUBSET matches :
        /\ Cardinality(rows) = LeastOf(KeywordLimit, Cardinality(matches))
        /\ \E more \in Listings(rows \ Seen, topK - Len(found)) : found' = found \o more
  BY DEF KeywordQuery
<1>2. PICK more \in Listings(rows \ Seen, n) : found' = found \o more
  BY <1>1
<1>3. n \in Nat /\ n = topK - Len(found)
  BY <1>0 DEF FoundSound
<1>4. /\ matches \subseteq DOMAIN corpus /\ rows \subseteq DOMAIN corpus /\ Visible \subseteq DOMAIN corpus
      /\ rows \subseteq Visible /\ Seen \subseteq DOMAIN corpus
  BY <1>0 DEF Visible, Seen
<1>5. \A i \in rows : corpus[i].match
  OBVIOUS
<1>6. IsFiniteSet(matches) /\ IsFiniteSet(rows) /\ Cardinality(matches) \in Nat /\ Cardinality(rows) \in Nat
  <2> HIDE DEF matches
  <2>. QED
    BY <1>0, <1>4, PartsOfCorpus
<1>7. /\ SearchTypeOK' /\ FoundSound'
      /\ \A i : i \in Seen' => i \in Seen \/ i \in rows \ Seen
      /\ \A i : i \in Seen => i \in Seen'
      /\ Len(found') < topK => \A i \in rows \ Seen : i \in Seen'
  <2> DEFINE S == rows \ Seen
  <2>1. S \subseteq Visible /\ S \cap Seen = {} /\ UNCHANGED <<corpus, topK, scope>>
    BY <1>0, <1>4
  <2>2. \A i \in S : corpus[i].close \/ corpus[i].match
    BY <1>5
  <2>3. find' \in {"keyword", "done"} /\ more \in Listings(S, n)
    BY <1>0, <1>2
  <2> HIDE DEF S, n
  <2>4. /\ SearchTypeOK' /\ FoundSound'
        /\ \A i : i \in Seen' => i \in Seen \/ i \in S
        /\ \A i : i \in Seen => i \in Seen'
        /\ Len(found') < topK => \A i \in S : i \in Seen'
    BY <1>2, <1>3, <2>1, <2>2, <2>3, FoundMore
  <2>. QED
    BY <2>4 DEF S
<1>8. Len(found') < topK => rows = matches
  <2> SUFFICES ASSUME Len(found') < topK PROVE rows = matches
    OBVIOUS
  <2>1. rows \subseteq Seen'
    BY <1>7
  <2>2. Cardinality(rows) <= Len(found')
    <3>1. /\ found' \in Seq(DOMAIN corpus) /\ Len(found') \in Nat /\ DOMAIN found' = 1..Len(found')
      BY <1>0, <1>7 DEF SearchTypeOK
    <3>2. found' \in Surjection(1..Len(found'), Seen')
      BY <3>1 DEF Surjection, Seen
    <3>3. Cardinality(Seen') <= Len(found')
      BY <3>1, <3>2, FS_SurjCardinalityBound DEF ExistsSurjection
    <3>4. Seen' \subseteq DOMAIN corpus
      BY <3>1 DEF Seen
    <3>5. IsFiniteSet(Seen') /\ Cardinality(Seen') \in Nat
      <4>1. PICK T : T = Seen'
        OBVIOUS
      <4>2. T \subseteq DOMAIN corpus
        BY <3>4, <4>1
      <4>. QED
        BY <1>0, <4>1, <4>2, PartsOfCorpus
    <3>6. Cardinality(rows) <= Cardinality(Seen')
      BY <2>1, <3>5, FS_Subset
    <3>. QED
      BY <1>6, <3>1, <3>3, <3>5, <3>6
  <2>3. Len(found') \in Nat
    BY <1>7 DEF SearchTypeOK
  <2>4. Cardinality(rows) = Cardinality(matches)
    <3> HIDE DEF matches
    <3>. QED
      BY <1>0, <1>1, <1>6, <2>2, <2>3 DEF LeastOf, KeywordLimit
  <2>5. rows \in SUBSET matches
    OBVIOUS
  <2> HIDE DEF matches
  <2>. QED
    BY <1>6, <2>4, <2>5, FS_Subset
<1>9. Visible' = Visible
  BY <1>0 DEF Visible
<1>10. ASSUME NEW i, Misses(i)', Len(found') < topK PROVE ~corpus[i].match
  BY <1>0, <1>7, <1>8, <1>9, <1>10 DEF Misses
<1>11. scope # {} => Scoped'
  <2>1. scope # {} => Scoped
    BY <1>0 DEF SearchInv
  <2>2. Scoped' = Scoped
    BY <1>0 DEF Scoped, Wanted
  <2>. QED
    BY <2>1, <2>2
<1>. QED
  BY <1>0, <1>7, <1>10, <1>11 DEF SearchInv

(* All bases, when a list has room for them.                               *)
LEMMA ScopeIsChosen ==
  ASSUME SearchInv, ChooseScope, find' = "vector"
  PROVE  Scoped'
<1>1. /\ find = "scope" /\ UNCHANGED <<corpus, topK, requested, allowed, deleted, found>>
      /\ scope' \in (IF Wanted = {} THEN ListByProject ELSE {Wanted}) /\ goneBefore' = deleted
      /\ scope' \subseteq Project \ deleted
  BY DEF ChooseScope
<1>2. Wanted' = Wanted
  BY <1>1 DEF Wanted
<1>3. CASE Wanted # {}
  BY <1>1, <1>2, <1>3 DEF Scoped
<1>4. CASE Wanted = {}
  <2> DEFINE there == Project \ deleted
  <2>1. IsFiniteSet(there) /\ Cardinality(there) \in Nat
    BY SearchAssumption, FS_Difference, FS_CardinalityType
  <2>2. scope' \subseteq there /\ Cardinality(scope') = LeastOf(ListLimit, Cardinality(there))
    BY <1>1, <1>4 DEF ListByProject
  <2>3. goneBefore' = deleted
    BY <1>1
  <2>4. Cardinality(there) <= ListLimit => scope' = there
    <3> HIDE DEF there
    <3>1. Cardinality(there) <= ListLimit => Cardinality(scope') = Cardinality(there)
      BY <2>1, <2>2, SearchAssumption DEF LeastOf
    <3>. QED
      BY <2>1, <2>2, <3>1, FS_Subset
  <2>. QED
    BY <1>2, <1>4, <2>2, <2>3, <2>4 DEF Scoped
<1>. QED
  BY <1>3, <1>4

LEMMA SearchStep == SearchInv /\ [SearchNext]_searchVars => SearchInv'
<1> SUFFICES ASSUME SearchInv, [SearchNext]_searchVars PROVE SearchInv'
  OBVIOUS
<1>1. CASE UNCHANGED searchVars
  BY <1>1 DEF searchVars, SearchInv, SearchTypeOK, FoundSound, Seen, Misses, Visible, Scoped, Wanted
<1>2. CASE ChooseScope
  <2>1. /\ find = "scope" /\ UNCHANGED <<corpus, topK, requested, allowed, deleted, found>>
        /\ find' = (IF scope' = {} THEN "done"
                    ELSE IF scope' \subseteq Project \ deleted THEN "vector" ELSE "failed")
    BY <1>2 DEF ChooseScope
  <2>2. found = <<>> /\ SearchTypeOK /\ FoundSound
    BY <2>1 DEF SearchInv, FoundSound
  <2>3. SearchTypeOK' /\ FoundSound'
    BY <2>1, <2>2 DEF SearchTypeOK, FoundSound, Seen
  <2>4. find' = "vector" => Scoped'
    BY <1>2, ScopeIsChosen
  <2>. QED
    BY <2>1, <2>3, <2>4 DEF SearchInv
<1>3. CASE SearchError
  <2>1. /\ find' = "failed" /\ find \in {"scope", "vector", "keyword"}
        /\ UNCHANGED <<corpus, topK, requested, allowed, deleted, scope, goneBefore, found>>
    BY <1>3 DEF SearchError
  <2>. QED
    BY <2>1 DEF SearchInv, SearchTypeOK, FoundSound, Seen
<1>4. ASSUME NEW b \in Project, BaseDeleted(b) PROVE SearchInv'
  <2>1. /\ deleted' = deleted \cup {b} /\ find \notin {"done", "failed"}
        /\ UNCHANGED <<corpus, topK, requested, allowed, scope, goneBefore, found, find>>
    BY <1>4 DEF BaseDeleted
  <2>2. Scoped' = Scoped /\ SearchTypeOK' /\ FoundSound'
    BY <2>1 DEF SearchInv, Scoped, Wanted, SearchTypeOK, FoundSound, Seen
  <2>. QED
    BY <2>1, <2>2 DEF SearchInv
<1>. QED
  BY <1>1, <1>2, <1>3, <1>4, VectorSound, KeywordSound DEF SearchNext

(* The inductive invariant has what a finished search is to show.          *)
LEMMA ShortHasAll == SearchInv => ShortAnswerHasAllMatches
<1> SUFFICES ASSUME SearchInv, find = "done", scope # {}
             PROVE  /\ Cardinality(Seen) = Len(found) /\ Len(found) <= topK
                    /\ \A i \in Seen :
                         /\ corpus[i].kb \in Project \ goneBefore
                         /\ Wanted # {} => corpus[i].kb \in Wanted
                         /\ corpus[i].close \/ corpus[i].match
                    /\ Len(found) < topK => \A i \in Visible : corpus[i].match => i \in Seen
                    /\ Wanted = {} /\ Cardinality(Project \ goneBefore) <= ListLimit =>
                         scope = Project \ goneBefore
  BY DEF ShortAnswerHasAllMatches
<1>1. /\ SearchTypeOK /\ FoundSound /\ found \in Seq(DOMAIN corpus)
      /\ Len(found) \in Nat /\ DOMAIN found = 1..Len(found)
  BY DEF SearchInv, SearchTypeOK
<1>2. Cardinality(Seen) = Len(found)
  <2>1. found \in Surjection(1..Len(found), Seen)
    BY <1>1 DEF Surjection, Seen
  <2>2. found \in Injection(1..Len(found), Seen)
    <3>1. \A j, k \in 1..Len(found) : found[j] = found[k] => j = k
      BY <1>1 DEF FoundSound
    <3>2. found \in [1..Len(found) -> Seen]
      BY <2>1 DEF Surjection
    <3>. QED
      BY <3>1, <3>2, EachOnce
  <2>3. IsFiniteSet(1..Len(found)) /\ Cardinality(1..Len(found)) = Len(found)
    <3>1. 1 \in Int /\ Len(found) \in Int
      BY <1>1
    <3>2. /\ IsFiniteSet(1..Len(found))
          /\ Cardinality(1..Len(found)) = IF 1 > Len(found) THEN 0 ELSE Len(found) - 1 + 1
      BY <3>1, FS_Interval
    <3>. QED
      BY <1>1, <3>2
  <2>. QED
    BY <2>1, <2>2, <2>3, FS_Surjection
<1>3. ASSUME Len(found) < topK, NEW i \in Visible, corpus[i].match PROVE i \in Seen
  <2>1. i \in DOMAIN corpus /\ (Misses(i) <=> i \notin Seen)
    BY DEF Visible, Misses
  <2>. QED
    BY <1>3, <2>1 DEF SearchInv
<1>4. Scoped
  BY DEF SearchInv
<1>5. ASSUME NEW i \in Seen
      PROVE  /\ corpus[i].kb \in Project \ goneBefore
             /\ Wanted # {} => corpus[i].kb \in Wanted
             /\ corpus[i].close \/ corpus[i].match
  BY <1>1, <1>4 DEF FoundSound, Scoped
<1>6. Wanted = {} /\ Cardinality(Project \ goneBefore) <= ListLimit => scope = Project \ goneBefore
  BY <1>4 DEF Scoped
<1>7. Len(found) <= topK
  BY <1>1 DEF FoundSound
<1>. QED
  BY <1>2, <1>3, <1>5, <1>6, <1>7

(* Whatever is deleted meanwhile, and whatever the index misses, a search  *)
(* answers from what it was to search, and a short answer leaves no match  *)
(* of the keywords out (service.go:242-259, knowledge_repo.go:313-384).    *)
THEOREM ShortAnswersHaveAllMatches == SearchSpec => []ShortAnswerHasAllMatches
BY SearchInitially, SearchStep, ShortHasAll, PTL DEF SearchSpec

-----------------------------------------------------------------------------
(* The calculator: what is written with the usual precedences is computed  *)
(* that way.  First what it does to sequences.                             *)

LEMMA SplitConcat ==
  ASSUME NEW S, NEW s \in Seq(S), NEW t \in Seq(S)
  PROVE  /\ s \o t \in Seq(S) /\ Len(s \o t) = Len(s) + Len(t)
         /\ SubSeq(s \o t, 1, Len(s)) = s
         /\ Upper(s \o t, Len(s)) = t
<1>1. /\ s \o t \in Seq(S) /\ Len(s \o t) = Len(s) + Len(t)
      /\ \A i \in 1..Len(s) : (s \o t)[i] = s[i]
      /\ \A i \in 1..Len(t) : (s \o t)[Len(s) + i] = t[i]
      /\ \A i \in 1..(Len(s) + Len(t)) : (s \o t)[i] \in S
      /\ Len(s) \in Nat /\ Len(t) \in Nat
  BY ConcatProperties, LenProperties, ElementOfSeq
<1>2. /\ SubSeq(s \o t, 1, Len(s)) \in Seq(S) /\ Len(SubSeq(s \o t, 1, Len(s))) = Len(s)
      /\ \A i \in 1..Len(s) : SubSeq(s \o t, 1, Len(s))[i] = s[i]
  BY <1>1, SubSeqProperties, Z3
<1>3. SubSeq(s \o t, 1, Len(s)) = s
  BY <1>2, SeqEqual
<1>4. /\ Upper(s \o t, Len(s)) \in Seq(S) /\ Len(Upper(s \o t, Len(s))) = Len(t)
      /\ \A i \in 1..Len(t) : Upper(s \o t, Len(s))[i] = (s \o t)[Len(s) + i]
  BY <1>1, SubSeqProperties DEF Upper
<1>5. Upper(s \o t, Len(s)) = t
  BY <1>1, <1>4, SeqEqual
<1>. QED
  BY <1>1, <1>3, <1>5

LEMMA UpperStep ==
  ASSUME NEW S, NEW s \in Seq(S), NEW n \in 0..Len(s)
  PROVE  /\ Upper(s, n) \in Seq(S) /\ Len(Upper(s, n)) = Len(s) - n
         /\ Upper(s, 0) = s
         /\ n = Len(s) <=> Upper(s, n) = <<>>
         /\ n < Len(s) => /\ Head(Upper(s, n)) = s[n + 1]
                          /\ Tail(Upper(s, n)) = Upper(s, n + 1)
<1>1. Len(s) \in Nat /\ \A i \in 1..Len(s) : s[i] \in S
  BY LenProperties, ElementOfSeq
<1>2. Upper(s, n) \in Seq(S) /\ Len(Upper(s, n)) = Len(s) - n
  BY <1>1, SubSeqProperties DEF Upper
<1>3. Upper(s, 0) = s
  BY SubSeqFull DEF Upper
<1>4. n = Len(s) <=> Upper(s, n) = <<>>
  BY <1>1, <1>2, EmptySeq
<1>5. ASSUME n < Len(s)
      PROVE  Head(Upper(s, n)) = s[n + 1] /\ Tail(Upper(s, n)) = Upper(s, n + 1)
  <2>1. n + 1 \in 1..Len(s) /\ Len(s) \in (n + 1)..Len(s)
    BY <1>1, <1>5
  <2>2. /\ Head(SubSeq(s, n + 1, Len(s))) = s[n + 1]
        /\ Tail(SubSeq(s, n + 1, Len(s))) = SubSeq(s, (n + 1) + 1, Len(s))
    BY <2>1, HeadTailOfSubSeq
  <2>. QED
    BY <2>2 DEF Upper
<1>. QED
  BY <1>2, <1>3, <1>4, <1>5

LEMMA ReverseOf ==
  ASSUME NEW S, NEW s \in Seq(S)
  PROVE  /\ Reverse(s) \in Seq(S) /\ Len(Reverse(s)) = Len(s)
         /\ \A i \in 1..Len(s) : Reverse(s)[i] = s[Len(s) - i + 1]
<1>1. Len(s) \in Nat /\ \A i \in 1..Len(s) : s[Len(s) - i + 1] \in S
  BY LenProperties, ElementOfSeq
<1>2. Reverse(s) \in [1..Len(s) -> S]
  BY <1>1 DEF Reverse
<1>. QED
  BY <1>1, <1>2 DEF Reverse

LEMMA ReverseFirst ==
  ASSUME NEW S, NEW s \in Seq(S), NEW x \in S
  PROVE  Reverse(<<x>> \o s) = Reverse(s) \o <<x>>
<1> DEFINE n == Len(s)
           r == <<x>> \o s
           u == Reverse(s)
           v == Reverse(r)
           w == u \o <<x>>
<1>1. /\ <<x>> \in Seq(S) /\ Len(<<x>>) = 1 /\ <<x>>[1] = x /\ n \in Nat
  BY LenProperties
<1>2. /\ r \in Seq(S) /\ Len(r) = n + 1 /\ r[1] = x
      /\ \A i \in 1..n : r[i + 1] = s[i]
  BY <1>1, ConcatProperties
<1>3. /\ u \in Seq(S) /\ Len(u) = n
      /\ \A i \in 1..n : u[i] = s[n - i + 1]
  BY ReverseOf
<1> HIDE DEF r
<1>4. /\ v \in Seq(S) /\ Len(v) = Len(r)
      /\ \A i \in 1..Len(r) : v[i] = r[Len(r) - i + 1]
  BY <1>2, ReverseOf
<1> HIDE DEF u, v, n, w
<1>5. /\ w \in Seq(S) /\ Len(w) = n + 1
      /\ \A i \in 1..n : w[i] = u[i]
      /\ w[n + 1] = x
  <2>1. /\ w \in Seq(S) /\ Len(w) = Len(u) + Len(<<x>>)
        /\ \A i \in 1..(Len(u) + Len(<<x>>)) :
             w[i] = IF i <= Len(u) THEN u[i] ELSE <<x>>[i - Len(u)]
    BY <1>1, <1>3, ConcatProperties, ZenonT(60) DEF w
  <2>2. w \in Seq(S) /\ Len(w) = n + 1
    BY <1>1, <1>3, <2>1
  <2>3. \A i \in 1..(n + 1) : w[i] = IF i <= n THEN u[i] ELSE <<x>>[i - n]
    BY <1>1, <1>3, <2>1
  <2>4. \A i \in 1..n : w[i] = u[i]
    BY <1>1, <2>3
  <2>5. w[n + 1] = <<x>>[1]
    BY <1>1, <2>3
  <2>. QED
    BY <1>1, <2>2, <2>4, <2>5
<1>6. ASSUME NEW i \in 1..(n + 1) PROVE v[i] = w[i]
  <2>1. v[i] = r[n + 1 - i + 1]
    <3>1. i \in 1..Len(r)
      BY <1>2
    <3>2. v[i] = r[Len(r) - i + 1]
      BY <1>4, <3>1
    <3>3. Len(r) - i + 1 = n + 1 - i + 1
      BY <1>1, <1>2
    <3>. QED
      BY <3>2, <3>3
  <2>2. CASE i = n + 1
    BY <1>1, <1>2, <1>5, <2>1, <2>2
  <2>3. CASE i \in 1..n
    <3>1. PICK j \in 1..n : j = n - i + 1
      BY <1>1, <2>3
    <3>2. v[i] = r[j + 1]
      BY <1>1, <2>1, <2>3, <3>1
    <3>3. w[i] = s[j]
      BY <1>3, <1>5, <2>3, <3>1
    <3>. QED
      BY <1>2, <3>2, <3>3
  <2>. QED
    BY <1>1, <2>2, <2>3
<1>7. v = w
  BY <1>2, <1>4, <1>5, <1>6, SeqEqual
<1>. QED
  BY <1>7 DEF u, v, r, w
(* < is well-founded on Nat: a set of naturals has a least number, and a   *)
(* greatest one when it is bounded.                                        *)
LessThan == {ss \in Nat \X Nat : ss[1] < ss[2]}

LEMMA LeastExists ==
  ASSUME NEW S, S \subseteq Nat, S # {}
  PROVE  \E x \in S : \A y \in S : x <= y
<1>1. IsWellFoundedOn(LessThan, Nat)
  BY NatLessThanWellFounded, Zenon DEF OpToRel, LessThan
<1>2. PICK x \in S : \A y \in S : ~ (<<y, x>> \in LessThan)
  BY <1>1, WFMin, Zenon
<1>3. ASSUME NEW y \in S PROVE x <= y
  <2>1. x \in Nat /\ y \in Nat /\ <<y, x>> \notin LessThan
    BY <1>2
  <2>. QED
    BY <2>1 DEF LessThan
<1>. QED
  BY <1>3

LEMMA GreatestExists ==
  ASSUME NEW n \in Nat, NEW S, S \subseteq 0..n, S # {}
  PROVE  \E x \in S : \A y \in S : y <= x
<1> DEFINE T == {n - x : x \in S}
<1>1. T \subseteq Nat /\ T # {}
  <2>1. \A x \in S : n - x \in Nat
    OBVIOUS
  <2>2. PICK x : x \in S
    OBVIOUS
  <2>3. n - x \in T
    BY <2>2
  <2>. QED
    BY <2>1, <2>3
<1>2. PICK t \in T : \A u \in T : t <= u
  BY <1>1, LeastExists, Zenon
<1>3. PICK x \in S : t = n - x
  BY <1>2
<1>4. ASSUME NEW y \in S PROVE y <= x
  BY <1>2, <1>3
<1>. QED
  BY <1>4

-----------------------------------------------------------------------------
LEMMA PartsAreShorter ==
  ASSUME NEW i \in Nat, NEW j \in Nat, NEW n, n = i + 1 + j
  PROVE  i < n /\ j < n
OBVIOUS

(* Phrases are put together in finitely many steps, as the texts of their  *)
(* parts are shorter: what numbers have, and what is passed on to what is  *)
(* put together from phrases that have it, is had by all of them.          *)
LEMMA PhraseInduction ==
  ASSUME NEW G,
         \A c \in Numbers : Number(c) \in Phrases => Number(c) \in G,
         \A a \in Phrases \cap G :
           /\ Grouped(a) \in Phrases => Grouped(a) \in G
           /\ Called(a) \in Phrases => Called(a) \in G,
         \A a \in Phrases \cap G : a.binds > 1 =>
           /\ Signed(a) \in Phrases => Signed(a) \in G
           /\ Plussed(a) \in Phrases => Plussed(a) \in G,
         \A a, b \in Phrases \cap G, op \in Operators :
           Joins(a, op, b) /\ Joined(a, op, b) \in Phrases => Joined(a, op, b) \in G
  PROVE  Phrases \subseteq G
<1> DEFINE Bad == {Len(d.text) : d \in Phrases \ G}
<1>1. SUFFICES ASSUME Bad # {} PROVE FALSE
  OBVIOUS
<1>2. \A d \in Phrases : d.text \in Seq(Alphabet) /\ Len(d.text) \in Nat /\ IsPhrase(d)
  BY CalculatorAssumption, LenProperties
<1>3. PICK n \in Bad : \A m \in Bad : n <= m
  <2>1. Bad \subseteq Nat
    BY <1>2
  <2>. QED
    BY <1>1, <2>1, LeastExists, Zenon
<1>4. PICK d \in Phrases \ G : n = Len(d.text)
  BY <1>3
<1>5. \A a \in Phrases : Len(a.text) < n => a \in G
  BY <1>2, <1>3, <1>4
<1>6. ASSUME NEW c \in Numbers, d = Number(c) PROVE FALSE
  BY <1>4, <1>6
<1>7. ASSUME NEW a \in Phrases, d \in {Grouped(a), Called(a)} PROVE FALSE
  <2>1. <<"(">> \in Seq(Alphabet) /\ <<"f", "(">> \in Seq(Alphabet) /\ <<")">> \in Seq(Alphabet)
    BY DEF Alphabet
  <2>2. a.text \in Seq(Alphabet) /\ Len(a.text) \in Nat
    BY <1>2
  <2>3. CASE d.text = <<"(">> \o a.text \o <<")">>
    BY <1>4, <1>5, <1>7, <2>1, <2>2, <2>3, ConcatProperties
  <2>4. CASE d.text = <<"f", "(">> \o a.text \o <<")">>
    BY <1>4, <1>5, <1>7, <2>1, <2>2, <2>4, ConcatProperties
  <2>. QED
    BY <1>7, <2>3, <2>4 DEF Grouped, Called
<1>8. ASSUME NEW a \in Phrases, a.binds > 1, d \in {Signed(a), Plussed(a)} PROVE FALSE
  <2>1. <<"-">> \in Seq(Alphabet) /\ <<"+">> \in Seq(Alphabet)
    BY DEF Alphabet, Operators
  <2>2. a.text \in Seq(Alphabet) /\ Len(a.text) \in Nat
    BY <1>2
  <2>3. d.text = <<"-">> \o a.text \/ d.text = <<"+">> \o a.text
    BY <1>8 DEF Signed, Plussed
  <2>4. Len(d.text) = 1 + Len(a.text)
    BY <2>1, <2>2, <2>3, ConcatProperties
  <2>5. a \in Phrases \cap G
    BY <1>4, <1>5, <2>2, <2>4
  <2>. QED
    BY <1>4, <1>8, <2>5, Zenon
<1>9. ASSUME NEW op \in Operators, NEW a \in Phrases, NEW b \in Phrases,
             Joins(a, op, b), d = Joined(a, op, b)
      PROVE  FALSE
  <2>1. <<op>> \in Seq(Alphabet) /\ Len(<<op>>) = 1
    BY DEF Alphabet
  <2>2. /\ a.text \in Seq(Alphabet) /\ Len(a.text) \in Nat
        /\ b.text \in Seq(Alphabet) /\ Len(b.text) \in Nat
    BY <1>2
  <2>3. d.text = a.text \o <<op>> \o b.text
    BY <1>9 DEF Joined
  <2>4. Len(d.text) = Len(a.text) + 1 + Len(b.text)
    BY <2>1, <2>2, <2>3, ConcatProperties
  <2>5. a \in Phrases \cap G /\ b \in Phrases \cap G
    <3>0. n = Len(a.text) + 1 + Len(b.text)
      BY <1>4, <2>4, Zenon
    <3>1. Len(a.text) < n /\ Len(b.text) < n
      BY <2>2, <3>0, PartsAreShorter, Zenon
    <3>. QED
      BY <1>5, <3>1, Zenon
  <2>. QED
    BY <1>4, <1>9, <2>5, Zenon
<1>. QED
  BY <1>2, <1>4, <1>6, <1>7, <1>8, <1>9 DEF IsPhrase

TypedPhrase(d) ==
  /\ d.text \in Seq(Alphabet) /\ d.tokens \in Seq(Alphabet) /\ d.postfix \in Seq(Alphabet)
  /\ d.binds \in 1..4

LEMMA PhrasesTyped == \A d \in Phrases : TypedPhrase(d)
<1> DEFINE G == {d \in Phrases : TypedPhrase(d)}
<1>1. \A d \in Phrases : d.text \in Seq(Alphabet) /\ d.tokens \in Seq(Alphabet)
  BY CalculatorAssumption
<1>2. \A d \in Phrases : d.postfix \in Seq(Alphabet) /\ d.binds \in 1..4 => d \in G
  BY <1>1 DEF TypedPhrase
<1>3. \A d \in G : d.postfix \in Seq(Alphabet) /\ d.binds \in 1..4
  BY DEF TypedPhrase
<1> HIDE DEF G
<1>4. ASSUME NEW c \in Numbers, Number(c) \in Phrases PROVE Number(c) \in G
  <2>1. Number(c).postfix = <<c>> /\ Number(c).binds = 4 /\ <<c>> \in Seq(Alphabet)
    BY DEF Number, Alphabet
  <2>2. Number(c).postfix \in Seq(Alphabet) /\ Number(c).binds \in 1..4
    BY <2>1
  <2>. QED
    BY <1>2, <1>4, <2>2, Zenon
<1>5. ASSUME NEW a \in Phrases \cap G
      PROVE  /\ Grouped(a) \in Phrases => Grouped(a) \in G
             /\ Called(a) \in Phrases => Called(a) \in G
  <2>1. <<"f">> \in Seq(Alphabet)
    BY DEF Alphabet
  <2>2. a.postfix \in Seq(Alphabet) /\ a.postfix \o <<"f">> \in Seq(Alphabet)
    BY <1>3, <2>1, ConcatProperties, Zenon
  <2>3. Grouped(a).postfix = a.postfix /\ Grouped(a).binds = 4
    BY DEF Grouped
  <2>4. Called(a).postfix = a.postfix \o <<"f">> /\ Called(a).binds = 4
    BY DEF Called
  <2>5. /\ Grouped(a).postfix \in Seq(Alphabet) /\ Grouped(a).binds \in 1..4
        /\ Called(a).postfix \in Seq(Alphabet) /\ Called(a).binds \in 1..4
    BY <2>2, <2>3, <2>4
  <2>. QED
    BY <1>2, <2>5, Zenon
<1>6. ASSUME NEW a \in Phrases \cap G
      PROVE  /\ Signed(a) \in Phrases => Signed(a) \in G
             /\ Plussed(a) \in Phrases => Plussed(a) \in G
  <2>1. <<"0">> \in Seq(Alphabet) /\ <<"-">> \in Seq(Alphabet)
    BY DEF Alphabet, Numbers, Operators
  <2>2. a.postfix \in Seq(Alphabet) /\ a.binds \in 1..4
    BY <1>3
  <2>3. <<"0">> \o a.postfix \o <<"-">> \in Seq(Alphabet)
    BY <2>1, <2>2, ConcatProperties
  <2>4. Signed(a).postfix = <<"0">> \o a.postfix \o <<"-">> /\ Signed(a).binds = 1
    BY DEF Signed
  <2>5. Plussed(a).postfix = a.postfix /\ Plussed(a).binds = a.binds
    BY DEF Plussed
  <2>6. /\ Signed(a).postfix \in Seq(Alphabet) /\ Signed(a).binds \in 1..4
        /\ Plussed(a).postfix \in Seq(Alphabet) /\ Plussed(a).binds \in 1..4
    BY <2>2, <2>3, <2>4, <2>5
  <2>. QED
    BY <1>2, <2>6, Zenon
<1>7. ASSUME NEW a \in Phrases \cap G, NEW b \in Phrases \cap G, NEW op \in Operators,
             Joined(a, op, b) \in Phrases
      PROVE  Joined(a, op, b) \in G
  <2>1. <<op>> \in Seq(Alphabet)
    BY DEF Alphabet
  <2>2. a.postfix \in Seq(Alphabet) /\ b.postfix \in Seq(Alphabet)
    BY <1>3
  <2>3. a.postfix \o b.postfix \o <<op>> \in Seq(Alphabet)
    BY <2>1, <2>2, ConcatProperties
  <2>4. Precedence(op) \in 1..4
    BY DEF Precedence, Operators
  <2>5. Joined(a, op, b).postfix = a.postfix \o b.postfix \o <<op>> /\ Joined(a, op, b).binds = Precedence(op)
    BY DEF Joined
  <2>. QED
    BY <1>2, <1>7, <2>3, <2>4, <2>5
<1>8. Phrases \subseteq G
  BY <1>4, <1>5, <1>6, <1>7, PhraseInduction, Zenon
<1>. QED
  BY <1>8 DEF G
-----------------------------------------------------------------------------
(* The parser as a relation between its stack and output before a token    *)
(* and those behind it.                                                    *)

Config == [stack : Seq(Alphabet), out : Seq(Alphabet)]

Staying(s, t) == {n \in 0..Len(s) : n = 0 \/ ~GoesFirst(s[n], t)}
Height(s, t)  == CHOOSE n \in Staying(s, t) : \A m \in Staying(s, t) : m <= n
Opening(s)    == {n \in DOMAIN s : s[n] = "("}
LastOpen(s)   == CHOOSE n \in Opening(s) : \A m \in Opening(s) : m <= n
IsCall(s)     == LastOpen(s) > 1 /\ s[LastOpen(s) - 1] = "f"

ReadsOperator(c, t, d) ==
  d = [stack |-> Append(SubSeq(c.stack, 1, Height(c.stack, t)), t),
       out   |-> c.out \o Reverse(Upper(c.stack, Height(c.stack, t)))]

ReadsClosing(c, d) ==
  /\ Opening(c.stack) # {}
  /\ d = [stack |-> SubSeq(c.stack, 1, IF IsCall(c.stack) THEN LastOpen(c.stack) - 2
                                       ELSE LastOpen(c.stack) - 1),
          out   |-> c.out \o Reverse(Upper(c.stack, LastOpen(c.stack)))
                          \o (IF IsCall(c.stack) THEN <<"f">> ELSE <<>>)]

Reads(c, t, d) ==
  \/ t \in Numbers /\ d = [stack |-> c.stack, out |-> Append(c.out, t)]
  \/ t \in {"f", "("} /\ d = [stack |-> Append(c.stack, t), out |-> c.out]
  \/ t \in Operators /\ ReadsOperator(c, t, d)
  \/ t = ")" /\ ReadsClosing(c, d)

LEMMA HeightIn ==
  ASSUME NEW s \in Seq(Alphabet), NEW t
  PROVE  Height(s, t) \in Staying(s, t) /\ \A m \in Staying(s, t) : m <= Height(s, t)
<1>1. Len(s) \in Nat
  OBVIOUS
<1>2. Staying(s, t) \subseteq 0..Len(s) /\ 0 \in Staying(s, t)
  BY <1>1 DEF Staying
<1>3. \E n \in Staying(s, t) : \A m \in Staying(s, t) : m <= n
  BY <1>1, <1>2, GreatestExists
<1>. QED
  BY <1>3, Zenon DEF Height

LEMMA LastOpenIn ==
  ASSUME NEW s \in Seq(Alphabet), Opening(s) # {}
  PROVE  LastOpen(s) \in Opening(s) /\ \A m \in Opening(s) : m <= LastOpen(s)
<1>1. Len(s) \in Nat /\ DOMAIN s = 1..Len(s)
  OBVIOUS
<1>2. Opening(s) \subseteq 0..Len(s)
  BY <1>1 DEF Opening
<1>3. \E n \in Opening(s) : \A m \in Opening(s) : m <= n
  BY <1>1, <1>2, GreatestExists
<1>. QED
  BY <1>3, Zenon DEF LastOpen

(* What is on the stack above what stays.                                  *)
LEMMA HeightIs ==
  ASSUME NEW s \in Seq(Alphabet), NEW ops \in Seq(Operators), NEW t,
         \A i \in 1..Len(ops) : GoesFirst(ops[i], t),
         s = <<>> \/ ~GoesFirst(Top(s), t)
  PROVE  Height(s \o ops, t) = Len(s)
<1> DEFINE r == s \o ops
<1>1. ops \in Seq(Alphabet) /\ Len(s) \in Nat /\ Len(ops) \in Nat
  BY SeqMonotonic, LenProperties DEF Alphabet
<1>2. /\ r \in Seq(Alphabet) /\ Len(r) = Len(s) + Len(ops)
      /\ \A i \in 1..Len(s) : r[i] = s[i]
      /\ \A i \in (Len(s) + 1)..Len(r) : i - Len(s) \in 1..Len(ops) /\ r[i] = ops[i - Len(s)]
  BY <1>1, ConcatProperties
<1> HIDE DEF r
<1>3. Len(s) \in Staying(r, t)
  <2>1. CASE Len(s) = 0
    BY <1>1, <1>2, <2>1 DEF Staying
  <2>2. CASE Len(s) \in 1..Len(s)
    <3>1. s # <<>>
      BY <2>2
    <3>2. ~GoesFirst(r[Len(s)], t)
      BY <1>2, <2>2, <3>1 DEF Top
    <3>. QED
      BY <1>1, <1>2, <3>2 DEF Staying
  <2>. QED
    BY <1>1, <2>1, <2>2
<1>4. ASSUME NEW m \in Staying(r, t) PROVE m <= Len(s)
  <2>1. m \in 0..Len(r) /\ (m = 0 \/ ~GoesFirst(r[m], t))
    BY DEF Staying
  <2>2. CASE m \in (Len(s) + 1)..Len(r)
    <3>1. GoesFirst(r[m], t)
      BY <1>2, <2>2
    <3>. QED
      BY <1>1, <2>1, <2>2, <3>1
  <2>. QED
    BY <1>1, <1>2, <2>1, <2>2
<1>5. Height(r, t) \in Staying(r, t) /\ \A m \in Staying(r, t) : m <= Height(r, t)
  BY <1>2, HeightIn
<1>6. Height(r, t) <= Len(s) /\ Len(s) <= Height(r, t) /\ Height(r, t) \in Int
  BY <1>2, <1>3, <1>4, <1>5 DEF Staying
<1>7. Height(r, t) = Len(s)
  BY <1>1, <1>6
<1>. QED
  BY <1>7 DEF r

LEMMA ConcatIndices ==
  ASSUME NEW S, NEW s \in Seq(S), NEW t \in Seq(S)
  PROVE  /\ s \o t \in Seq(S) /\ Len(s \o t) = Len(s) + Len(t) /\ DOMAIN (s \o t) = 1..Len(s \o t)
         /\ \A i \in 1..Len(s) : (s \o t)[i] = s[i]
         /\ \A i \in (Len(s) + 1)..Len(s \o t) :
              i - Len(s) \in 1..Len(t) /\ (s \o t)[i] = t[i - Len(s)]
<1>1. /\ s \o t \in Seq(S) /\ Len(s \o t) = Len(s) + Len(t)
      /\ \A i \in 1..(Len(s) + Len(t)) :
           (s \o t)[i] = IF i <= Len(s) THEN s[i] ELSE t[i - Len(s)]
  BY ConcatProperties
<1>2. Len(s) \in Nat /\ Len(t) \in Nat /\ DOMAIN (s \o t) = 1..Len(s \o t)
  BY <1>1, LenProperties
<1>. QED
  BY <1>1, <1>2

LEMMA LastOpenIs ==
  ASSUME NEW s \in Seq(Alphabet), NEW ops \in Seq(Operators)
  PROVE  LET r == Append(s, "(") \o ops IN
         /\ Opening(r) # {} /\ LastOpen(r) = Len(s) + 1
         /\ IsCall(r) <=> s # <<>> /\ Top(s) = "f"
<1> DEFINE u == Append(s, "(")
           r == u \o ops
<1>1. /\ ops \in Seq(Alphabet) /\ Len(s) \in Nat /\ Len(ops) \in Nat
      /\ \A i \in 1..Len(ops) : ops[i] # "("
  <2>1. \A i \in 1..Len(ops) : ops[i] \in Operators
    BY ElementOfSeq
  <2>. QED
    BY <2>1, SeqMonotonic, LenProperties DEF Alphabet, Operators
<1>2. /\ u \in Seq(Alphabet) /\ Len(u) = Len(s) + 1 /\ u[Len(s) + 1] = "("
      /\ \A i \in 1..Len(s) : u[i] = s[i]
  BY AppendProperties DEF Alphabet
<1> HIDE DEF u
<1>3. /\ r \in Seq(Alphabet) /\ Len(r) = Len(u) + Len(ops) /\ DOMAIN r = 1..Len(r)
      /\ \A i \in 1..Len(u) : r[i] = u[i]
      /\ \A i \in (Len(u) + 1)..Len(r) : i - Len(u) \in 1..Len(ops) /\ r[i] = ops[i - Len(u)]
  BY <1>1, <1>2, ConcatIndices, ZenonT(60)
<1> HIDE DEF r
<1>4. Len(s) + 1 \in Opening(r)
  BY <1>1, <1>2, <1>3 DEF Opening
<1>5. ASSUME NEW m \in Opening(r) PROVE m <= Len(s) + 1
  <2>1. m \in 1..Len(r) /\ r[m] = "("
    BY <1>3 DEF Opening
  <2>2. CASE m \in (Len(u) + 1)..Len(r)
    BY <1>1, <1>3, <2>1, <2>2
  <2>. QED
    BY <1>1, <1>2, <1>3, <2>1, <2>2
<1>6. LastOpen(r) \in Opening(r) /\ \A m \in Opening(r) : m <= LastOpen(r)
  BY <1>3, <1>4, LastOpenIn
<1>7. LastOpen(r) = Len(s) + 1
  <2>1. LastOpen(r) <= Len(s) + 1 /\ Len(s) + 1 <= LastOpen(r) /\ LastOpen(r) \in Int
    BY <1>3, <1>4, <1>5, <1>6 DEF Opening
  <2>. QED
    BY <1>1, <2>1
<1>8. IsCall(r) <=> s # <<>> /\ Top(s) = "f"
  <2>1. CASE s = <<>>
    BY <1>7, <2>1 DEF IsCall
  <2>2. CASE s # <<>>
    <3>1. Len(s) \in 1..Len(s) /\ Len(s) \in 1..Len(u) /\ Len(s) + 1 > 1 /\ (Len(s) + 1) - 1 = Len(s)
      BY <1>1, <1>2, <2>2, EmptySeq
    <3>2. r[Len(s)] = Top(s)
      BY <1>2, <1>3, <3>1 DEF Top
    <3>. QED
      BY <1>7, <2>2, <3>1, <3>2 DEF IsCall
  <2>. QED
    BY <2>1, <2>2
<1>. QED
  BY <1>4, <1>7, <1>8 DEF r, u
LEMMA PartsOfStack ==
  ASSUME NEW s \in Seq(Alphabet), NEW n \in 0..Len(s)
  PROVE  /\ SubSeq(s, 1, n) \in Seq(Alphabet) /\ Len(SubSeq(s, 1, n)) = n
         /\ \A i \in 1..n : SubSeq(s, 1, n)[i] = s[i]
         /\ Reverse(Upper(s, n)) \in Seq(Alphabet)
<1>1. Len(s) \in Nat /\ \A i \in 1..n : s[i] \in Alphabet
  BY LenProperties, ElementOfSeq
<1>2. Upper(s, n) \in Seq(Alphabet)
  BY UpperStep
<1>. QED
  BY <1>1, <1>2, SubSeqProperties, ReverseOf

LEMMA ConfigOf ==
  ASSUME NEW s \in Seq(Alphabet), NEW o \in Seq(Alphabet)
  PROVE  [stack |-> s, out |-> o] \in Config
BY DEF Config

LEMMA ReadsType ==
  ASSUME NEW c \in Config, NEW t \in Alphabet, NEW d, Reads(c, t, d)
  PROVE  d \in Config
<1>1. c.stack \in Seq(Alphabet) /\ c.out \in Seq(Alphabet) /\ Len(c.stack) \in Nat
  BY DEF Config
<1>2. Append(c.stack, t) \in Seq(Alphabet) /\ Append(c.out, t) \in Seq(Alphabet)
  BY <1>1, AppendProperties, Zenon
<1>3. CASE d = [stack |-> c.stack, out |-> Append(c.out, t)] \/ d = [stack |-> Append(c.stack, t), out |-> c.out]
  BY <1>1, <1>2, <1>3, ConfigOf, Zenon
<1>4. CASE ReadsOperator(c, t, d)
  <2> DEFINE h == Height(c.stack, t)
  <2>1. h \in 0..Len(c.stack)
    BY <1>1, HeightIn DEF Staying
  <2> HIDE DEF h
  <2>2. SubSeq(c.stack, 1, h) \in Seq(Alphabet) /\ Reverse(Upper(c.stack, h)) \in Seq(Alphabet)
    BY <1>1, <2>1, PartsOfStack
  <2>3. Append(SubSeq(c.stack, 1, h), t) \in Seq(Alphabet) /\ c.out \o Reverse(Upper(c.stack, h)) \in Seq(Alphabet)
    BY <1>1, <2>2, AppendProperties, ConcatProperties
  <2>4. d = [stack |-> Append(SubSeq(c.stack, 1, h), t), out |-> c.out \o Reverse(Upper(c.stack, h))]
    BY <1>4 DEF ReadsOperator, h
  <2>. QED
    BY <2>3, <2>4 DEF Config
<1>5. CASE ReadsClosing(c, d)
  <2> DEFINE at == LastOpen(c.stack)
             n == IF IsCall(c.stack) THEN at - 2 ELSE at - 1
             f == IF IsCall(c.stack) THEN <<"f">> ELSE <<>>
  <2>1. at \in 1..Len(c.stack)
    BY <1>1, <1>5, LastOpenIn DEF ReadsClosing, Opening
  <2>2. n \in 0..Len(c.stack) /\ at \in 0..Len(c.stack)
    <3>1. (at > 1 /\ n = at - 2) \/ n = at - 1
      BY DEF IsCall
    <3> HIDE DEF at, n
    <3>. QED
      BY <1>1, <2>1, <3>1
  <2>3. f \in Seq(Alphabet)
    <3>1. <<"f">> \in Seq(Alphabet) /\ <<>> \in Seq(Alphabet)
      BY DEF Alphabet
    <3>. QED
      BY <3>1
  <2>4. d = [stack |-> SubSeq(c.stack, 1, n), out |-> c.out \o Reverse(Upper(c.stack, at)) \o f]
    BY <1>5 DEF ReadsClosing
  <2> HIDE DEF at, n, f
  <2>5. SubSeq(c.stack, 1, n) \in Seq(Alphabet) /\ Reverse(Upper(c.stack, at)) \in Seq(Alphabet)
    BY <1>1, <2>2, PartsOfStack
  <2>6. c.out \o Reverse(Upper(c.stack, at)) \o f \in Seq(Alphabet)
    BY <1>1, <2>3, <2>5, ConcatProperties
  <2>. QED
    BY <2>4, <2>5, <2>6 DEF Config
<1>. QED
  BY <1>3, <1>4, <1>5 DEF Reads

(* A run reads the first p tokens of s.                                    *)
IsRun(s, run, p) ==
  /\ s \in Seq(Alphabet) /\ p \in 0..Len(s)
  /\ \A k \in 0..p : run[k] \in Config
  /\ \A k \in 1..p : Reads(run[k - 1], s[k], run[k])

-----------------------------------------------------------------------------
(* What is left when a phrase has been read: operators that bind at least  *)
(* as strongly as it does, on top of what was on the stack; taken down     *)
(* they complete its postfix form.                                         *)

Binding(ops, level) == \A i \in 1..Len(ops) : Precedence(ops[i]) >= level

Leaves(c, d, e) ==
  \E ops \in Seq(Operators), out \in Seq(Alphabet) :
    /\ Binding(ops, d.binds)
    /\ e = [stack |-> c.stack \o ops, out |-> c.out \o out]
    /\ out \o Reverse(ops) = d.postfix

(* A phrase that binds so strongly leaves the stack below it alone.        *)
Spared(s, level) ==
  \/ s = <<>>
  \/ /\ Top(s) # "f"
     /\ \A op \in Operators : Precedence(op) >= level => ~GoesFirst(Top(s), op)

LEMMA Associates ==
  ASSUME NEW s \in Seq(Alphabet), NEW t \in Seq(Alphabet), NEW u \in Seq(Alphabet)
  PROVE  (s \o t) \o u = s \o (t \o u)
OBVIOUS

LEMMA OperatorsAreTokens ==
  /\ \A ops \in Seq(Operators) : ops \in Seq(Alphabet) /\ Reverse(ops) \in Seq(Alphabet) /\ Len(ops) \in Nat
  /\ <<>> \in Seq(Operators) /\ Reverse(<<>>) = <<>>
<1>1. Operators \subseteq Alphabet
  BY DEF Alphabet
<1>2. ASSUME NEW ops \in Seq(Operators)
      PROVE  ops \in Seq(Alphabet) /\ Reverse(ops) \in Seq(Alphabet) /\ Len(ops) \in Nat
  <2>1. ops \in Seq(Alphabet)
    BY <1>1, SeqMonotonic
  <2>. QED
    BY <2>1, ReverseOf
<1>3. <<>> \in Seq(Operators) /\ Len(<<>>) = 0
  BY EmptySeq
<1>4. Reverse(<<>>) \in Seq(Operators) /\ Len(Reverse(<<>>)) = 0
  BY <1>3, ReverseOf
<1>. QED
  BY <1>2, <1>3, <1>4, EmptySeq

LEMMA NumberLeaves ==
  ASSUME NEW c \in Config, NEW t \in Numbers, NEW e, Reads(c, t, e)
  PROVE  Leaves(c, Number(t), e)
<1>1. t \notin {"f", "("} /\ t \notin Operators /\ t # ")" /\ t \in Alphabet
  BY DEF Numbers, Operators, Alphabet
<1>2. e = [stack |-> c.stack, out |-> Append(c.out, t)]
  BY <1>1 DEF Reads
<1>3. c.stack \in Seq(Alphabet) /\ c.out \in Seq(Alphabet) /\ <<t>> \in Seq(Alphabet)
  BY <1>1 DEF Config
<1>4. c.stack \o <<>> = c.stack /\ Append(c.out, t) = c.out \o <<t>> /\ <<t>> \o <<>> = <<t>>
  BY <1>1, <1>3, ConcatEmptySeq, AppendIsConcat
<1>5. Binding(<<>>, 4)
  BY DEF Binding
<1>6. Number(t).postfix = <<t>> /\ Number(t).binds = 4
  BY DEF Number
<1>7. <<t>> \o Reverse(<<>>) = Number(t).postfix
  BY <1>4, <1>6, OperatorsAreTokens
<1>8. e = [stack |-> c.stack \o <<>>, out |-> c.out \o <<t>>]
  BY <1>2, <1>4
<1>. QED
  BY <1>3, <1>5, <1>6, <1>7, <1>8, OperatorsAreTokens DEF Leaves
(* The pieces of an operator's steps: what it takes down and where it goes.*)
LEMMA OperatorTakesDown ==
  ASSUME NEW s \in Seq(Alphabet), NEW o \in Seq(Alphabet), NEW ops \in Seq(Operators),
         NEW op \in Operators, NEW e,
         \A i \in 1..Len(ops) : GoesFirst(ops[i], op),
         s = <<>> \/ ~GoesFirst(Top(s), op),
         Reads([stack |-> s \o ops, out |-> o], op, e)
  PROVE  e = [stack |-> Append(s, op), out |-> o \o Reverse(ops)]
<1>1. op \notin Numbers /\ op \notin {"f", "("} /\ op # ")"
  BY DEF Operators, Numbers
<1>2. ReadsOperator([stack |-> s \o ops, out |-> o], op, e)
  BY <1>1 DEF Reads
<1>3. Height(s \o ops, op) = Len(s)
  BY HeightIs
<1>4. /\ SubSeq(s \o ops, 1, Len(s)) = s
      /\ Upper(s \o ops, Len(s)) = ops
  BY OperatorsAreTokens, SplitConcat
<1>. QED
  BY <1>2, <1>3, <1>4 DEF ReadsOperator

(* Both operands have been read around the operator.                       *)
LEMMA JoinedLeaves ==
  ASSUME NEW c \in Config, NEW a, NEW b, NEW op \in Operators, NEW c1, NEW c2, NEW e,
         TypedPhrase(a), TypedPhrase(b), Joins(a, op, b),
         Spared(c.stack, Precedence(op)),
         Leaves(c, a, c1), Reads(c1, op, c2)
  PROVE  /\ Spared(c2.stack, b.binds)
         /\ Leaves(c2, b, e) => Leaves(c, Joined(a, op, b), e)
<1> DEFINE s == c.stack
           o == c.out
<1>1. s \in Seq(Alphabet) /\ o \in Seq(Alphabet)
  BY DEF Config
<1>2. /\ a.binds \in 1..4 /\ b.binds \in 1..4 /\ a.postfix \in Seq(Alphabet) /\ b.postfix \in Seq(Alphabet)
      /\ Precedence(op) \in 1..3 /\ <<op>> \in Seq(Alphabet) /\ op \in Alphabet /\ op # "f"
      /\ <<op>> \in Seq(Operators)
  BY DEF TypedPhrase, Precedence, Operators, Alphabet
<1>3. PICK ops1 \in Seq(Operators), out1 \in Seq(Alphabet) :
        /\ Binding(ops1, a.binds)
        /\ c1 = [stack |-> s \o ops1, out |-> o \o out1]
        /\ out1 \o Reverse(ops1) = a.postfix
  BY DEF Leaves
<1> HIDE DEF s, o
<1>4. \A i \in 1..Len(ops1) : GoesFirst(ops1[i], op)
  <2>1. ASSUME NEW i \in 1..Len(ops1) PROVE GoesFirst(ops1[i], op)
    <3>1. ops1[i] \in Operators /\ Precedence(ops1[i]) >= a.binds
      BY <1>3, ElementOfSeq DEF Binding
    <3>2. Precedence(ops1[i]) \in 1..3
      BY <3>1 DEF Precedence, Operators
    <3>. QED
      BY <1>2, <3>1, <3>2 DEF Joins, GoesFirst
  <2>. QED
    BY <2>1
<1>5. s = <<>> \/ ~GoesFirst(Top(s), op)
  <2>1. Precedence(op) >= Precedence(op)
    BY <1>2
  <2>. QED
    BY <2>1 DEF Spared, s
<1>6. o \o out1 \in Seq(Alphabet)
  BY <1>1, <1>3, ConcatProperties
<1>7. c2 = [stack |-> Append(s, op), out |-> (o \o out1) \o Reverse(ops1)]
  BY <1>1, <1>3, <1>4, <1>5, <1>6, OperatorTakesDown
<1>8. (o \o out1) \o Reverse(ops1) = o \o a.postfix
  <2>1. Reverse(ops1) \in Seq(Alphabet)
    BY OperatorsAreTokens
  <2>2. (o \o out1) \o Reverse(ops1) = o \o (out1 \o Reverse(ops1))
    BY <1>1, <2>1, Associates, ZenonT(60)
  <2>. QED
    BY <1>3, <2>2
<1>9. c2.stack = Append(s, op) /\ c2.out = o \o a.postfix
  BY <1>7, <1>8
<1>10. Spared(c2.stack, b.binds)
  <2>1. c2.stack # <<>> /\ Top(c2.stack) = op
    BY <1>1, <1>2, <1>9, AppendProperties DEF Top
  <2>2. ASSUME NEW q \in Operators, Precedence(q) >= b.binds PROVE ~GoesFirst(op, q)
    <3>1. Precedence(q) \in 1..3 /\ (Precedence(q) = 3 <=> RightAssoc(q)) /\ (Precedence(op) = 3 <=> RightAssoc(op))
      BY DEF Precedence, Operators, RightAssoc
    <3>. QED
      BY <1>2, <2>2, <3>1 DEF Joins, GoesFirst
  <2>. QED
    BY <1>2, <2>1, <2>2 DEF Spared
<1>11. ASSUME Leaves(c2, b, e) PROVE Leaves(c, Joined(a, op, b), e)
  <2>1. PICK ops2 \in Seq(Operators), out2 \in Seq(Alphabet) :
          /\ Binding(ops2, b.binds)
          /\ e = [stack |-> Append(s, op) \o ops2, out |-> (o \o a.postfix) \o out2]
          /\ out2 \o Reverse(ops2) = b.postfix
    BY <1>9, <1>11 DEF Leaves
  <2> DEFINE ops == <<op>> \o ops2
             out == a.postfix \o out2
             d == Joined(a, op, b)
  <2>2. ops \in Seq(Operators) /\ out \in Seq(Alphabet)
    BY <1>2, <2>1, ConcatProperties
  <2>3. d.binds = Precedence(op) /\ d.postfix = a.postfix \o b.postfix \o <<op>>
    BY DEF Joined
  <2>4. Binding(ops, d.binds)
    <3>1. Len(ops) = Len(<<op>>) + Len(ops2) /\ Len(<<op>>) = 1 /\ <<op>>[1] = op /\ Len(ops2) \in Nat
      BY <1>2, <2>1, ConcatIndices
    <3>2. /\ \A i \in 1..Len(<<op>>) : ops[i] = <<op>>[i]
          /\ \A i \in (Len(<<op>>) + 1)..Len(ops) :
               i - Len(<<op>>) \in 1..Len(ops2) /\ ops[i] = ops2[i - Len(<<op>>)]
      BY <1>2, <2>1, ConcatIndices, ZenonT(60)
    <3> HIDE DEF ops
    <3>3. ASSUME NEW i \in 1..Len(ops) PROVE Precedence(ops[i]) >= Precedence(op)
      <4>1. CASE i = 1
        BY <1>2, <3>1, <3>2, <4>1
      <4>2. CASE i \in (Len(<<op>>) + 1)..Len(ops)
        <5>1. PICK j \in 1..Len(ops2) : ops[i] = ops2[j]
          BY <3>2, <4>2
        <5>2. ops2[j] \in Operators /\ Precedence(ops2[j]) >= b.binds
          BY <2>1, ElementOfSeq DEF Binding
        <5>3. Precedence(ops2[j]) \in 1..3
          BY <5>2 DEF Precedence, Operators
        <5>. QED
          BY <1>2, <5>1, <5>2, <5>3 DEF Joins
      <4>. QED
        BY <3>1, <4>1, <4>2
    <3>. QED
      BY <2>3, <3>3 DEF Binding
  <2>5. Append(s, op) \o ops2 = s \o ops
    <3>1. Append(s, op) = s \o <<op>>
      BY <1>1, <1>2, AppendIsConcat, Zenon
    <3>2. (s \o <<op>>) \o ops2 = s \o (<<op>> \o ops2)
      <4>1. ops2 \in Seq(Alphabet) /\ <<op>> \in Seq(Alphabet)
        BY <1>2, OperatorsAreTokens
      <4>. QED
        BY <1>1, <4>1, Associates
    <3>. QED
      BY <3>1, <3>2
  <2>6. (o \o a.postfix) \o out2 = o \o out
    BY <1>1, <1>2, <2>1, Associates, ZenonT(60)
  <2>7. out \o Reverse(ops) = d.postfix
    <3>1. Reverse(ops) = Reverse(ops2) \o <<op>> /\ Reverse(ops2) \in Seq(Alphabet)
      BY <1>2, <2>1, OperatorsAreTokens, ReverseFirst
    <3>2. (a.postfix \o out2) \o (Reverse(ops2) \o <<op>>) = ((a.postfix \o out2) \o Reverse(ops2)) \o <<op>>
      <4>1. out \in Seq(Alphabet) /\ <<op>> \in Seq(Alphabet) /\ Reverse(ops2) \in Seq(Alphabet)
        BY <1>2, <2>2, <3>1
      <4> HIDE DEF out
      <4>2. out \o (Reverse(ops2) \o <<op>>) = (out \o Reverse(ops2)) \o <<op>>
        BY <4>1, Associates
      <4>. QED
        BY <4>2 DEF out
    <3>3. (a.postfix \o out2) \o Reverse(ops2) = a.postfix \o (out2 \o Reverse(ops2))
      <4>1. a.postfix \in Seq(Alphabet)
        BY <1>2
      <4>. QED
        BY <3>1, <4>1, Associates
    <3>. QED
      BY <2>1, <2>3, <3>1, <3>2, <3>3
  <2>8. e = [stack |-> s \o ops, out |-> o \o out]
    BY <2>1, <2>5, <2>6
  <2> HIDE DEF ops, out, d
  <2>9. Leaves(c, d, e)
    BY <2>2, <2>4, <2>7, <2>8 DEF Leaves, s, o
  <2>. QED
    BY <2>9 DEF d
<1>. QED
  BY <1>10, <1>11
(* Nothing is left on the stack of what is complete.                       *)
LEMMA CompleteLeaves ==
  ASSUME NEW c \in Config, NEW d, d.postfix \in Seq(Alphabet), NEW e,
         e = [stack |-> c.stack, out |-> c.out \o d.postfix]
  PROVE  Leaves(c, d, e)
<1>1. c.stack \in Seq(Alphabet)
  BY DEF Config
<1>2. c.stack \o <<>> = c.stack /\ d.postfix \o <<>> = d.postfix
  BY <1>1, ConcatEmptySeq
<1>3. Binding(<<>>, d.binds)
  BY DEF Binding
<1>4. /\ e = [stack |-> c.stack \o <<>>, out |-> c.out \o d.postfix]
      /\ d.postfix \o Reverse(<<>>) = d.postfix
  BY <1>2, OperatorsAreTokens
<1>. QED
  BY <1>3, <1>4, OperatorsAreTokens DEF Leaves

Enclosed(s, o, a)    == [stack |-> s, out |-> o \o a.postfix]
EnclosedCall(s, o, a) == [stack |-> SubSeq(s, 1, Len(s) - 1), out |-> (o \o a.postfix) \o <<"f">>]

(* A closing parenthesis takes down what its content has left, the opening *)
(* one and the function in front of it.                                    *)
LEMMA ClosingTakesDown ==
  ASSUME NEW s \in Seq(Alphabet), NEW o \in Seq(Alphabet), NEW a, a.postfix \in Seq(Alphabet), NEW c, NEW e,
         Leaves([stack |-> Append(s, "("), out |-> o], a, c)
  PROVE  /\ Opening(c.stack) # {}
         /\ ReadsClosing(c, e) =>
              /\ s = <<>> \/ Top(s) # "f" => e = Enclosed(s, o, a)
              /\ s # <<>> /\ Top(s) = "f" => e = EnclosedCall(s, o, a)
<1> DEFINE u == Append(s, "(")
<1>1. PICK ops \in Seq(Operators), out \in Seq(Alphabet) :
        /\ c = [stack |-> u \o ops, out |-> o \o out]
        /\ out \o Reverse(ops) = a.postfix
  BY DEF Leaves
<1> DEFINE r == u \o ops
           call == s # <<>> /\ Top(s) = "f"
<1>2. Opening(r) # {} /\ LastOpen(r) = Len(s) + 1 /\ (IsCall(r) <=> call)
  BY LastOpenIs
<1>3. /\ u \in Seq(Alphabet) /\ Len(u) = Len(s) + 1 /\ Len(s) \in Nat /\ u = s \o <<"(">>
      /\ <<"(">> \in Seq(Alphabet) /\ <<"f">> \in Seq(Alphabet)
  <2>1. "(" \in Alphabet /\ "f" \in Alphabet
    BY DEF Alphabet
  <2>2. /\ u \in Seq(Alphabet) /\ Len(u) = Len(s) + 1 /\ Len(s) \in Nat
    BY <2>1, AppendProperties
  <2>3. u = s \o <<"(">>
    BY <2>1, AppendIsConcat
  <2>. QED
    BY <2>1, <2>2, <2>3
<1>4. ops \in Seq(Alphabet) /\ Reverse(ops) \in Seq(Alphabet)
  BY OperatorsAreTokens
<1> HIDE DEF u
<1>5. Upper(r, LastOpen(r)) = ops /\ r \in Seq(Alphabet) /\ Len(r) = Len(u) + Len(ops)
  <2>1. /\ u \o ops \in Seq(Alphabet) /\ Len(u \o ops) = Len(u) + Len(ops)
        /\ Upper(u \o ops, Len(u)) = ops
    BY <1>3, <1>4, SplitConcat, ZenonT(60)
  <2>2. LastOpen(r) = Len(u)
    BY <1>2, <1>3
  <2>. QED
    BY <2>1, <2>2
<1>6. (o \o out) \o Reverse(ops) = o \o a.postfix
  <2>1. (o \o out) \o Reverse(ops) = o \o (out \o Reverse(ops))
    BY <1>4, Associates, ZenonT(60)
  <2>. QED
    BY <1>1, <2>1
<1>7. \A n \in 0..Len(s) : SubSeq(r, 1, n) = SubSeq(s, 1, n)
  <2>1. r = s \o (<<"(">> \o ops)
    BY <1>3, <1>4, Associates, SMTT(40)
  <2>2. <<"(">> \o ops \in Seq(Alphabet)
    BY <1>3, <1>4, ConcatProperties
  <2>3. \A i \in 1..Len(s) : r[i] = s[i]
    <3> DEFINE w == <<"(">> \o ops
    <3> HIDE DEF w
    <3>1. w \in Seq(Alphabet) /\ r = s \o w
      BY <2>1, <2>2 DEF w
    <3>2. \A i \in 1..Len(s) : (s \o w)[i] = s[i]
      BY <3>1, ConcatIndices
    <3> HIDE DEF r
    <3>. QED
      BY <3>1, <3>2
  <2>4. ASSUME NEW n \in 0..Len(s) PROVE SubSeq(r, 1, n) = SubSeq(s, 1, n)
    <3>1. n \in 0..Len(r)
      BY <1>3, <1>4, <1>5, LenProperties
    <3>2. /\ SubSeq(s, 1, n) \in Seq(Alphabet) /\ Len(SubSeq(s, 1, n)) = n
          /\ \A i \in 1..n : SubSeq(s, 1, n)[i] = s[i]
      BY PartsOfStack
    <3>3. /\ SubSeq(r, 1, n) \in Seq(Alphabet) /\ Len(SubSeq(r, 1, n)) = n
          /\ \A i \in 1..n : SubSeq(r, 1, n)[i] = r[i]
      BY <1>5, <3>1, PartsOfStack
    <3>4. \A i \in 1..n : r[i] = s[i]
      BY <1>3, <2>3
    <3> HIDE DEF r
    <3>. QED
      BY <3>2, <3>3, <3>4, SeqEqual
  <2>. QED
    BY <2>4
<1> HIDE DEF r
<1>8. ASSUME ReadsClosing(c, e)
      PROVE  e = [stack |-> SubSeq(r, 1, IF call THEN Len(s) - 1 ELSE Len(s)),
                  out   |-> (o \o a.postfix) \o (IF call THEN <<"f">> ELSE <<>>)]
  <2>1. c.stack = r /\ c.out = o \o out
    BY <1>1 DEF r
  <2>2. e = [stack |-> SubSeq(r, 1, IF IsCall(r) THEN LastOpen(r) - 2 ELSE LastOpen(r) - 1),
             out   |-> (o \o out) \o Reverse(Upper(r, LastOpen(r))) \o (IF IsCall(r) THEN <<"f">> ELSE <<>>)]
    BY <1>8, <2>1 DEF ReadsClosing
  <2>3. LastOpen(r) - 2 = Len(s) - 1 /\ LastOpen(r) - 1 = Len(s)
    BY <1>2, <1>3
  <2> HIDE DEF call
  <2>. QED
    BY <1>2, <1>5, <1>6, <2>2, <2>3
<1>9. ASSUME ReadsClosing(c, e), ~call PROVE e = [stack |-> s, out |-> o \o a.postfix]
  <2>1. SubSeq(r, 1, Len(s)) = s
    BY <1>3, <1>7, SubSeqFull
  <2>2. (o \o a.postfix) \o <<>> = o \o a.postfix
    <3>1. o \o a.postfix \in Seq(Alphabet)
      BY ConcatProperties
    <3>. QED
      BY <3>1, ConcatEmptySeq, Zenon
  <2>. QED
    BY <1>8, <1>9, <2>1, <2>2
<1>10. ASSUME ReadsClosing(c, e), call
       PROVE  e = [stack |-> SubSeq(s, 1, Len(s) - 1), out |-> (o \o a.postfix) \o <<"f">>]
  <2>1. Len(s) - 1 \in 0..Len(s)
    BY <1>3, <1>10, EmptySeq
  <2>. QED
    BY <1>7, <1>8, <1>10, <2>1
<1>11. Opening(c.stack) # {}
  BY <1>1, <1>2 DEF r
<1>. QED
  BY <1>9, <1>10, <1>11 DEF Enclosed, EnclosedCall

LEMMA GroupedLeaves ==
  ASSUME NEW c \in Config, NEW a, TypedPhrase(a), NEW c1, NEW c2, NEW e,
         Reads(c, "(", c1), Leaves(c1, a, c2)
  PROVE  /\ Spared(c1.stack, a.binds) /\ Opening(c2.stack) # {}
         /\ Spared(c.stack, 4) /\ Reads(c2, ")", e) => Leaves(c, Grouped(a), e)
         /\ (c.stack = <<>> \/ Top(c.stack) # "f") /\ Reads(c2, ")", e) => Leaves(c, Grouped(a), e)
<1>1. c.stack \in Seq(Alphabet) /\ c.out \in Seq(Alphabet) /\ a.postfix \in Seq(Alphabet) /\ "(" \in Alphabet
  BY DEF Config, TypedPhrase, Alphabet
<1>2. c1 = [stack |-> Append(c.stack, "("), out |-> c.out]
  BY DEF Reads, Numbers, Operators
<1>3. Spared(c1.stack, a.binds)
  <2>1. Top(c1.stack) = "("
    BY <1>1, <1>2, AppendProperties DEF Top
  <2>. QED
    BY <2>1 DEF Spared, GoesFirst, Operators
<1>4. Reads(c2, ")", e) => ReadsClosing(c2, e)
  BY DEF Reads, Numbers, Operators
<1>5. /\ Opening(c2.stack) # {}
      /\ ReadsClosing(c2, e) /\ (c.stack = <<>> \/ Top(c.stack) # "f") =>
           e = [stack |-> c.stack, out |-> c.out \o a.postfix]
  BY <1>1, <1>2, ClosingTakesDown DEF Enclosed
<1>6. Grouped(a).postfix = a.postfix
  BY DEF Grouped
<1>7. ASSUME Reads(c2, ")", e), c.stack = <<>> \/ Top(c.stack) # "f" PROVE Leaves(c, Grouped(a), e)
  BY <1>1, <1>4, <1>5, <1>6, <1>7, CompleteLeaves
<1>. QED
  BY <1>3, <1>5, <1>7 DEF Spared

LEMMA CalledLeaves ==
  ASSUME NEW c \in Config, NEW a, TypedPhrase(a), NEW c0, NEW c1, NEW c2, NEW e,
         Reads(c, "f", c0), Reads(c0, "(", c1), Leaves(c1, a, c2)
  PROVE  /\ Spared(c1.stack, a.binds) /\ Opening(c2.stack) # {}
         /\ Reads(c2, ")", e) => Leaves(c, Called(a), e)
<1>1. /\ c.stack \in Seq(Alphabet) /\ c.out \in Seq(Alphabet) /\ a.postfix \in Seq(Alphabet)
      /\ "(" \in Alphabet /\ "f" \in Alphabet /\ <<"f">> \in Seq(Alphabet)
  BY DEF Config, TypedPhrase, Alphabet
<1> DEFINE s == Append(c.stack, "f")
<1>2. c0 = [stack |-> s, out |-> c.out] /\ c0 \in Config
  <2>1. c0 = [stack |-> s, out |-> c.out]
    BY DEF Reads, Numbers, Operators
  <2>. QED
    BY <1>1, <2>1, AppendProperties DEF Config
<1>3. c1 = [stack |-> Append(s, "("), out |-> c.out]
  BY <1>2 DEF Reads, Numbers, Operators
<1>4. /\ s \in Seq(Alphabet) /\ s # <<>> /\ Top(s) = "f" /\ Len(s) = Len(c.stack) + 1
      /\ SubSeq(s, 1, Len(s) - 1) = c.stack
  <2>1. s = c.stack \o <<"f">>
    BY <1>1, AppendIsConcat
  <2>2. /\ s \in Seq(Alphabet) /\ Len(s) = Len(c.stack) + 1 /\ s[Len(c.stack) + 1] = "f"
        /\ Len(c.stack) \in Nat
    BY <1>1, AppendProperties
  <2>3. SubSeq(s, 1, Len(c.stack)) = c.stack
    BY <1>1, <2>1, SplitConcat
  <2>. QED
    <3> HIDE DEF s
    <3>1. s # <<>> /\ Len(s) - 1 = Len(c.stack)
      BY <2>2
    <3>. QED
      BY <2>2, <2>3, <3>1 DEF Top
<1> HIDE DEF s
<1>5. Spared(c1.stack, a.binds)
  <2>1. Top(c1.stack) = "("
    BY <1>1, <1>3, <1>4, AppendProperties DEF Top
  <2>. QED
    BY <2>1 DEF Spared, GoesFirst, Operators
<1>6. /\ Opening(c2.stack) # {}
      /\ ReadsClosing(c2, e) => e = [stack |-> c.stack, out |-> (c.out \o a.postfix) \o <<"f">>]
  <2>1. Leaves([stack |-> Append(s, "("), out |-> c.out], a, c2)
    BY <1>3
  <2>2. /\ Opening(c2.stack) # {}
        /\ ReadsClosing(c2, e) => (s # <<>> /\ Top(s) = "f" =>
             e = [stack |-> SubSeq(s, 1, Len(s) - 1), out |-> (c.out \o a.postfix) \o <<"f">>])
    <3>1. /\ Opening(c2.stack) # {}
          /\ ReadsClosing(c2, e) => (s # <<>> /\ Top(s) = "f" => e = EnclosedCall(s, c.out, a))
      BY <1>1, <1>4, <2>1, ClosingTakesDown, Zenon
    <3>. QED
      BY <3>1 DEF EnclosedCall
  <2>. QED
    BY <1>4, <2>2
<1>7. /\ Called(a).postfix = a.postfix \o <<"f">> /\ a.postfix \o <<"f">> \in Seq(Alphabet)
      /\ (c.out \o a.postfix) \o <<"f">> = c.out \o (a.postfix \o <<"f">>)
  BY <1>1, Associates, ConcatProperties, ZenonT(60) DEF Called
<1>8. ASSUME Reads(c2, ")", e) PROVE Leaves(c, Called(a), e)
  <2>1. ReadsClosing(c2, e)
    BY <1>8 DEF Reads, Numbers, Operators
  <2>2. e = [stack |-> c.stack, out |-> c.out \o Called(a).postfix] /\ Called(a).postfix \in Seq(Alphabet)
    BY <1>6, <1>7, <2>1
  <2>. QED
    BY <2>2, CompleteLeaves
<1>. QED
  BY <1>5, <1>6, <1>8
LEMMA OpeningSpares ==
  ASSUME NEW c \in Config, NEW d, Reads(c, "(", d), NEW level
  PROVE  Spared(d.stack, level)
<1>1. c.stack \in Seq(Alphabet) /\ "(" \in Alphabet
  BY DEF Config, Alphabet
<1>2. d = [stack |-> Append(c.stack, "("), out |-> c.out]
  BY DEF Reads, Numbers, Operators
<1>3. Top(d.stack) = "("
  BY <1>1, <1>2, AppendProperties DEF Top
<1>. QED
  BY <1>3 DEF Spared, GoesFirst, Operators

-----------------------------------------------------------------------------
(* s stands in w behind the first i tokens.                                *)
Segment(w, i, s) == i + Len(s) <= Len(w) /\ \A k \in 1..Len(s) : w[i + k] = s[k]

LEMMA SegmentParts ==
  ASSUME NEW w \in Seq(Alphabet), NEW i \in Nat, NEW s \in Seq(Alphabet), NEW t \in Seq(Alphabet),
         Segment(w, i, s \o t)
  PROVE  /\ Segment(w, i, s) /\ Segment(w, i + Len(s), t)
         /\ Len(s \o t) = Len(s) + Len(t) /\ Len(s) \in Nat /\ Len(t) \in Nat
<1>1. /\ Len(s \o t) = Len(s) + Len(t) /\ Len(s) \in Nat /\ Len(t) \in Nat /\ Len(w) \in Nat
      /\ \A k \in 1..Len(s) : (s \o t)[k] = s[k]
      /\ \A k \in 1..Len(t) : (s \o t)[Len(s) + k] = t[k]
  BY ConcatProperties
<1>2. /\ i + (Len(s) + Len(t)) <= Len(w)
      /\ \A k \in 1..(Len(s) + Len(t)) : w[i + k] = (s \o t)[k]
  BY <1>1 DEF Segment
<1> DEFINE r == s \o t
<1> HIDE DEF r
<1>3. /\ \A k \in 1..(Len(s) + Len(t)) : w[i + k] = r[k]
      /\ \A k \in 1..Len(s) : r[k] = s[k]
      /\ \A k \in 1..Len(t) : r[Len(s) + k] = t[k]
  BY <1>1, <1>2 DEF r
<1>4. \A k \in 1..Len(s) : w[i + k] = s[k]
  BY <1>1, <1>3
<1>5. ASSUME NEW k \in 1..Len(t) PROVE w[(i + Len(s)) + k] = t[k]
  <2>1. Len(s) + k \in 1..(Len(s) + Len(t)) /\ (i + Len(s)) + k = i + (Len(s) + k)
    BY <1>1
  <2>. QED
    BY <1>3, <2>1
<1>. QED
  BY <1>1, <1>2, <1>4, <1>5 DEF Segment

LEMMA SegmentThree ==
  ASSUME NEW w \in Seq(Alphabet), NEW i \in Nat, NEW s \in Seq(Alphabet), NEW t \in Seq(Alphabet),
         NEW u \in Seq(Alphabet)
  PROVE  Segment(w, i, (s \o t) \o u) =>
           /\ Segment(w, i, s) /\ Segment(w, i + Len(s), t) /\ Segment(w, i + (Len(s) + Len(t)), u)
           /\ Len((s \o t) \o u) = (Len(s) + Len(t)) + Len(u)
<1> DEFINE q == s \o t
<1>1. q \in Seq(Alphabet) /\ Len(q) = Len(s) + Len(t)
  BY ConcatProperties
<1>2. Segment(w, i, q) => Segment(w, i, s) /\ Segment(w, i + Len(s), t)
  BY SegmentParts
<1> HIDE DEF q
<1>3. ASSUME NEW r \in Seq(Alphabet), Segment(w, i, r \o u)
      PROVE  Segment(w, i, r) /\ Segment(w, i + Len(r), u) /\ Len(r \o u) = Len(r) + Len(u)
  BY <1>3, SegmentParts
<1>4. Segment(w, i, q \o u) =>
        Segment(w, i, q) /\ Segment(w, i + Len(q), u) /\ Len(q \o u) = Len(q) + Len(u)
  BY <1>1, <1>3
<1>. QED
  BY <1>1, <1>2, <1>4 DEF q

SplitsInto(w, i, s, t, u, r) ==
  /\ Segment(w, i, s) /\ Segment(w, i + Len(s), t) /\ Segment(w, i + (Len(s) + Len(t)), u)
  /\ Len(r) = (Len(s) + Len(t)) + Len(u)

LEMMA SegmentSplit ==
  ASSUME NEW w \in Seq(Alphabet), NEW i \in Nat, NEW s \in Seq(Alphabet), NEW t \in Seq(Alphabet),
         NEW u \in Seq(Alphabet), NEW r, r = (s \o t) \o u, Segment(w, i, r)
  PROVE  SplitsInto(w, i, s, t, u, r)
<1>1. Segment(w, i, (s \o t) \o u)
  OBVIOUS
<1>2. Segment(w, i, s) /\ Segment(w, i + Len(s), t) /\ Segment(w, i + (Len(s) + Len(t)), u)
  BY <1>1, SegmentThree, Zenon
<1>3. s \o t \in Seq(Alphabet) /\ Len(s \o t) = Len(s) + Len(t)
  BY ConcatProperties
<1>4. Len(r) = (Len(s) + Len(t)) + Len(u)
  BY <1>3, ConcatProperties
<1>. QED
  BY <1>2, <1>4 DEF SplitsInto

LEMMA OneToken ==
  ASSUME NEW w, NEW i \in Nat, NEW t, Segment(w, i, <<t>>)
  PROVE  w[i + 1] = t
BY DEF Segment

LEMMA RunStep ==
  ASSUME NEW w, NEW run, NEW p, IsRun(w, run, p), NEW k \in 0..p
  PROVE  run[k] \in Config /\ (k < p => Reads(run[k], w[k + 1], run[k + 1]) /\ run[k + 1] \in Config)
<1>1. p \in Nat /\ k \in Nat
  BY DEF IsRun
<1>2. ASSUME k < p PROVE k + 1 \in 1..p /\ k + 1 \in 0..p /\ (k + 1) - 1 = k
  BY <1>1, <1>2
<1>. QED
  BY <1>2, Zenon DEF IsRun

(* A phrase that is read leaves what it should, and no closing parenthesis *)
(* in it is refused.                                                       *)
Handles(w, run, p, d) ==
  \A i \in 0..p : Segment(w, i, d.tokens) /\ Spared(run[i].stack, d.binds) =>
    /\ i + Len(d.tokens) <= p => Leaves(run[i], d, run[i + Len(d.tokens)])
    /\ p < i + Len(d.tokens) /\ w[p + 1] = ")" => Opening(run[p].stack) # {}

LEMMA HandlesNumber ==
  ASSUME NEW w, NEW run, NEW p, IsRun(w, run, p), NEW t \in Numbers
  PROVE  Handles(w, run, p, Number(t))
<1> DEFINE d == Number(t)
<1>1. SUFFICES ASSUME NEW i \in 0..p, Segment(w, i, d.tokens)
               PROVE  /\ i + Len(d.tokens) <= p => Leaves(run[i], d, run[i + Len(d.tokens)])
                      /\ p < i + Len(d.tokens) /\ w[p + 1] = ")" => Opening(run[p].stack) # {}
  BY DEF Handles
<1>2. d.tokens = <<t>> /\ Len(d.tokens) = 1 /\ w[i + 1] = t /\ p \in Nat
  <2>1. d.tokens = <<t>> /\ i \in Nat /\ p \in Nat
    BY DEF Number, IsRun
  <2>2. w[i + 1] = t
    BY <1>1, <2>1, OneToken
  <2>. QED
    BY <2>1, <2>2
<1>3. t # ")"
  BY DEF Numbers
<1>4. ASSUME i + 1 <= p PROVE Leaves(run[i], d, run[i + 1])
  <2>1. run[i] \in Config /\ Reads(run[i], t, run[i + 1])
    BY <1>2, <1>4, RunStep
  <2>. QED
    BY <2>1, NumberLeaves
<1> HIDE DEF d
<1>5. p < i + 1 => w[p + 1] # ")"
  BY <1>2, <1>3
<1>. QED
  BY <1>2, <1>4, <1>5

LEMMA HandlesGrouped ==
  ASSUME NEW w, NEW run, NEW p, IsRun(w, run, p), NEW a, TypedPhrase(a), Handles(w, run, p, a)
  PROVE  Handles(w, run, p, Grouped(a))
<1> DEFINE d == Grouped(a)
           n == Len(a.tokens)
<1>1. SUFFICES ASSUME NEW i \in 0..p, Segment(w, i, d.tokens), Spared(run[i].stack, d.binds)
               PROVE  /\ i + Len(d.tokens) <= p => Leaves(run[i], d, run[i + Len(d.tokens)])
                      /\ p < i + Len(d.tokens) /\ w[p + 1] = ")" => Opening(run[p].stack) # {}
  BY DEF Handles
<1>2. /\ w \in Seq(Alphabet) /\ p \in Nat /\ i \in Nat /\ n \in Nat
      /\ a.tokens \in Seq(Alphabet) /\ <<"(">> \in Seq(Alphabet) /\ <<")">> \in Seq(Alphabet)
      /\ d.tokens = (<<"(">> \o a.tokens) \o <<")">> /\ d.binds = 4
  BY DEF IsRun, TypedPhrase, Alphabet, Grouped
<1>3. /\ w[i + 1] = "(" /\ Segment(w, i + 1, a.tokens) /\ w[i + n + 2] = ")" /\ Len(d.tokens) = n + 2
  <2>1. /\ Segment(w, i, <<"(">>) /\ Segment(w, i + Len(<<"(">>), a.tokens)
        /\ Segment(w, i + (Len(<<"(">>) + Len(a.tokens)), <<")">>)
        /\ Len(d.tokens) = (Len(<<"(">>) + Len(a.tokens)) + Len(<<")">>)
    <3>1. SplitsInto(w, i, <<"(">>, a.tokens, <<")">>, d.tokens)
      BY <1>1, <1>2, SegmentSplit, Zenon
    <3>. QED
      BY <3>1, Zenon DEF SplitsInto
  <2>2. Len(<<"(">>) = 1 /\ Len(<<")">>) = 1
    OBVIOUS
  <2>3. /\ Segment(w, i, <<"(">>) /\ Segment(w, i + 1, a.tokens) /\ Segment(w, i + (1 + n), <<")">>)
        /\ Len(d.tokens) = (1 + n) + 1
    BY <2>1, <2>2, Zenon
  <2>4. w[i + 1] = "(" /\ w[(i + (1 + n)) + 1] = ")"
    <3>1. i + (1 + n) \in Nat
      BY <1>2
    <3> HIDE DEF d, n
    <3>. QED
      BY <1>2, <2>3, <3>1, OneToken
  <2>5. (i + (1 + n)) + 1 = i + n + 2 /\ (1 + n) + 1 = n + 2
    BY <1>2
  <2> HIDE DEF d, n
  <2>. QED
    BY <2>3, <2>4, <2>5
<1> HIDE DEF d, n
<1>4. ASSUME i + 1 <= p
      PROVE  /\ run[i] \in Config /\ run[i + 1] \in Config /\ Reads(run[i], "(", run[i + 1])
             /\ Spared(run[i + 1].stack, a.binds)
  <2>1. run[i] \in Config /\ Reads(run[i], "(", run[i + 1]) /\ run[i + 1] \in Config
    <3>1. i < p
      BY <1>2, <1>4
    <3>. QED
      BY <1>3, <3>1, RunStep, Zenon
  <2>. QED
    BY <2>1, OpeningSpares
<1>5. ASSUME i + 1 <= p
      PROVE  /\ (i + 1) + n <= p => Leaves(run[i + 1], a, run[(i + 1) + n])
             /\ p < (i + 1) + n /\ w[p + 1] = ")" => Opening(run[p].stack) # {}
  <2>1. i + 1 \in 0..p
    BY <1>2, <1>5
  <2>. QED
    BY <1>3, <1>4, <1>5, <2>1 DEF Handles, n
<1>6. ASSUME i + (n + 2) <= p PROVE Leaves(run[i], d, run[i + (n + 2)])
  <2>1. /\ i + 1 <= p /\ (i + 1) + n <= p /\ (i + 1) + n \in 0..p /\ (i + 1) + n < p
        /\ ((i + 1) + n) + 1 = i + n + 2 /\ i + (n + 2) = i + n + 2
    BY <1>2, <1>6
  <2>2. Reads(run[(i + 1) + n], ")", run[i + (n + 2)])
    <3>1. Reads(run[(i + 1) + n], w[((i + 1) + n) + 1], run[((i + 1) + n) + 1])
      BY <2>1, RunStep, Zenon
    <3>. QED
      BY <1>3, <2>1, <3>1
  <2>. QED
    BY <1>1, <1>2, <1>4, <1>5, <2>1, <2>2, GroupedLeaves, Zenon DEF d
<1>7. ASSUME p < i + (n + 2), w[p + 1] = ")" PROVE Opening(run[p].stack) # {}
  <2>1. i # p
    BY <1>3, <1>7
  <2>2. i + 1 <= p /\ (p < (i + 1) + n \/ p = (i + 1) + n)
    BY <1>2, <1>7, <2>1
  <2>3. CASE p = (i + 1) + n
    <3>1. Leaves(run[i + 1], a, run[p])
      BY <1>2, <1>5, <2>2, <2>3
    <3>. QED
      BY <1>4, <2>2, <3>1, GroupedLeaves, Zenon
  <2>. QED
    BY <1>5, <1>7, <2>2, <2>3
<1>. QED
  BY <1>3, <1>6, <1>7
LEMMA HandlesCalled ==
  ASSUME NEW w, NEW run, NEW p, IsRun(w, run, p), NEW a, TypedPhrase(a), Handles(w, run, p, a)
  PROVE  Handles(w, run, p, Called(a))
<1> DEFINE d == Called(a)
           n == Len(a.tokens)
<1>1. SUFFICES ASSUME NEW i \in 0..p, Segment(w, i, d.tokens)
               PROVE  /\ i + Len(d.tokens) <= p => Leaves(run[i], d, run[i + Len(d.tokens)])
                      /\ p < i + Len(d.tokens) /\ w[p + 1] = ")" => Opening(run[p].stack) # {}
  BY DEF Handles
<1>2. /\ w \in Seq(Alphabet) /\ p \in Nat /\ i \in Nat /\ n \in Nat
      /\ a.tokens \in Seq(Alphabet) /\ <<"f", "(">> \in Seq(Alphabet) /\ <<")">> \in Seq(Alphabet)
      /\ d.tokens = (<<"f", "(">> \o a.tokens) \o <<")">>
  BY DEF IsRun, TypedPhrase, Alphabet, Called
<1>3. /\ w[i + 1] = "f" /\ w[i + 2] = "(" /\ Segment(w, i + 2, a.tokens) /\ w[i + n + 3] = ")"
      /\ Len(d.tokens) = n + 3
  <2>1. /\ Segment(w, i, <<"f", "(">>) /\ Segment(w, i + Len(<<"f", "(">>), a.tokens)
        /\ Segment(w, i + (Len(<<"f", "(">>) + Len(a.tokens)), <<")">>)
        /\ Len(d.tokens) = (Len(<<"f", "(">>) + Len(a.tokens)) + Len(<<")">>)
    <3>1. SplitsInto(w, i, <<"f", "(">>, a.tokens, <<")">>, d.tokens)
      BY <1>1, <1>2, SegmentSplit, Zenon
    <3>. QED
      BY <3>1, Zenon DEF SplitsInto
  <2>2. Len(<<"f", "(">>) = 2 /\ Len(<<")">>) = 1
    OBVIOUS
  <2>3. /\ Segment(w, i, <<"f", "(">>) /\ Segment(w, i + 2, a.tokens) /\ Segment(w, i + (2 + n), <<")">>)
        /\ Len(d.tokens) = (2 + n) + 1
    BY <2>1, <2>2, Zenon
  <2>4. w[(i + (2 + n)) + 1] = ")"
    <3>1. i + (2 + n) \in Nat
      BY <1>2
    <3> HIDE DEF d, n
    <3>. QED
      BY <1>2, <2>3, <3>1, OneToken
  <2>5. w[i + 1] = "f" /\ w[i + 2] = "("
    BY <2>3 DEF Segment
  <2>6. (i + (2 + n)) + 1 = i + n + 3 /\ (2 + n) + 1 = n + 3
    BY <1>2
  <2> HIDE DEF d, n
  <2>. QED
    BY <2>3, <2>4, <2>5, <2>6
<1> HIDE DEF d, n
<1>4. ASSUME i + 2 <= p
      PROVE  /\ run[i] \in Config /\ run[i + 2] \in Config
             /\ Reads(run[i], "f", run[i + 1]) /\ Reads(run[i + 1], "(", run[i + 2])
             /\ Spared(run[i + 2].stack, a.binds)
  <2>1. i < p /\ i + 1 \in 0..p /\ i + 1 < p /\ (i + 1) + 1 = i + 2
    BY <1>2, <1>4
  <2>2. run[i] \in Config /\ Reads(run[i], "f", run[i + 1])
    BY <1>3, <2>1, RunStep, Zenon
  <2>3. /\ run[i + 1] \in Config /\ Reads(run[i + 1], w[(i + 1) + 1], run[(i + 1) + 1])
        /\ run[(i + 1) + 1] \in Config
    BY <2>1, RunStep, Zenon
  <2>4. Reads(run[i + 1], "(", run[i + 2]) /\ run[i + 2] \in Config
    BY <1>3, <2>1, <2>3
  <2>. QED
    BY <2>2, <2>3, <2>4, OpeningSpares
<1>5. ASSUME i + 2 <= p
      PROVE  /\ (i + 2) + n <= p => Leaves(run[i + 2], a, run[(i + 2) + n])
             /\ p < (i + 2) + n /\ w[p + 1] = ")" => Opening(run[p].stack) # {}
  <2>1. i + 2 \in 0..p
    BY <1>2, <1>5
  <2>. QED
    BY <1>3, <1>4, <1>5, <2>1 DEF Handles, n
<1>6. ASSUME i + (n + 3) <= p PROVE Leaves(run[i], d, run[i + (n + 3)])
  <2>1. /\ i + 2 <= p /\ (i + 2) + n <= p /\ (i + 2) + n \in 0..p /\ (i + 2) + n < p
        /\ ((i + 2) + n) + 1 = i + n + 3 /\ i + (n + 3) = i + n + 3
    BY <1>2, <1>6
  <2>2. Reads(run[(i + 2) + n], ")", run[i + (n + 3)])
    <3>1. Reads(run[(i + 2) + n], w[((i + 2) + n) + 1], run[((i + 2) + n) + 1])
      BY <2>1, RunStep, Zenon
    <3>. QED
      BY <1>3, <2>1, <3>1
  <2>. QED
    BY <1>4, <1>5, <2>1, <2>2, CalledLeaves, Zenon DEF d
<1>7. ASSUME p < i + (n + 3), w[p + 1] = ")" PROVE Opening(run[p].stack) # {}
  <2>1. i # p /\ i + 1 # p
    <3>1. (i + 1) + 1 = i + 2
      BY <1>2
    <3>. QED
      BY <1>3, <1>7, <3>1
  <2>2. i + 2 <= p /\ (p < (i + 2) + n \/ p = (i + 2) + n)
    BY <1>2, <1>7, <2>1
  <2>3. CASE p = (i + 2) + n
    <3>1. Leaves(run[i + 2], a, run[p])
      BY <1>2, <1>5, <2>2, <2>3
    <3>. QED
      <4> DEFINE c == run[i]
                 c0 == run[i + 1]
                 c1 == run[i + 2]
                 c2 == run[p]
      <4>1. /\ c \in Config /\ Reads(c, "f", c0) /\ Reads(c0, "(", c1) /\ Leaves(c1, a, c2)
        BY <1>4, <2>2, <3>1
      <4> HIDE DEF c, c0, c1, c2
      <4>2. Opening(c2.stack) # {}
        BY <4>1, CalledLeaves
      <4>. QED
        BY <4>2 DEF c2
  <2>. QED
    BY <1>5, <1>7, <2>2, <2>3
<1>. QED
  BY <1>3, <1>6, <1>7

LEMMA HandlesJoined ==
  ASSUME NEW w, NEW run, NEW p, IsRun(w, run, p), NEW op \in Operators,
         NEW a, TypedPhrase(a), Handles(w, run, p, a),
         NEW b, TypedPhrase(b), Handles(w, run, p, b), Joins(a, op, b)
  PROVE  Handles(w, run, p, Joined(a, op, b))
<1> DEFINE d == Joined(a, op, b)
           n == Len(a.tokens)
           m == Len(b.tokens)
<1>1. SUFFICES ASSUME NEW i \in 0..p, Segment(w, i, d.tokens), Spared(run[i].stack, d.binds)
               PROVE  /\ i + Len(d.tokens) <= p => Leaves(run[i], d, run[i + Len(d.tokens)])
                      /\ p < i + Len(d.tokens) /\ w[p + 1] = ")" => Opening(run[p].stack) # {}
  BY DEF Handles
<1>2. /\ w \in Seq(Alphabet) /\ p \in Nat /\ i \in Nat /\ n \in Nat /\ m \in Nat
      /\ a.tokens \in Seq(Alphabet) /\ b.tokens \in Seq(Alphabet) /\ <<op>> \in Seq(Alphabet)
      /\ d.tokens = (a.tokens \o <<op>>) \o b.tokens /\ d.binds = Precedence(op) /\ op # ")"
  <2>1. w \in Seq(Alphabet) /\ p \in Nat /\ i \in Nat
    BY DEF IsRun
  <2>2. a.tokens \in Seq(Alphabet) /\ b.tokens \in Seq(Alphabet) /\ n \in Nat /\ m \in Nat
    BY LenProperties DEF TypedPhrase
  <2>3. <<op>> \in Seq(Alphabet) /\ op # ")"
    BY DEF Alphabet, Operators
  <2>4. d.tokens = (a.tokens \o <<op>>) \o b.tokens /\ d.binds = Precedence(op)
    BY DEF Joined
  <2>. QED
    BY <2>1, <2>2, <2>3, <2>4
<1>3. /\ Segment(w, i, a.tokens) /\ w[(i + n) + 1] = op /\ Segment(w, i + n + 1, b.tokens)
      /\ Len(d.tokens) = n + 1 + m
  <2>1. /\ Segment(w, i, a.tokens) /\ Segment(w, i + n, <<op>>)
        /\ Segment(w, i + (n + Len(<<op>>)), b.tokens)
        /\ Len(d.tokens) = (n + Len(<<op>>)) + m
    <3>1. SplitsInto(w, i, a.tokens, <<op>>, b.tokens, d.tokens)
      BY <1>1, <1>2, SegmentSplit, Zenon
    <3>. QED
      BY <3>1, Zenon DEF SplitsInto
  <2>2. Len(<<op>>) = 1
    OBVIOUS
  <2>3. i + n \in Nat /\ i + (n + 1) = i + n + 1 /\ (n + 1) + m = n + 1 + m
    BY <1>2
  <2> HIDE DEF d, n, m
  <2>4. w[(i + n) + 1] = op
    BY <2>1, <2>3, OneToken
  <2>. QED
    BY <2>1, <2>2, <2>3, <2>4
<1>4. Spared(run[i].stack, a.binds) /\ Spared(run[i].stack, Precedence(op)) /\ run[i] \in Config
  <2>1. run[i] \in Config
    BY RunStep
  <2>2. a.binds \in 1..4 /\ a.binds >= Precedence(op)
    BY DEF TypedPhrase, Joins, Precedence, Operators
  <2>3. \A q \in Operators : Precedence(q) \in 1..3 /\ Precedence(op) \in 1..3
    BY DEF Precedence, Operators
  <2>4. \A q \in Operators : Precedence(q) >= a.binds => Precedence(q) >= Precedence(op)
    BY <2>2, <2>3
  <2>. QED
    BY <1>1, <1>2, <2>1, <2>4 DEF Spared
<1> HIDE DEF d, n, m
<1>5. /\ i + n <= p => Leaves(run[i], a, run[i + n])
      /\ p < i + n /\ w[p + 1] = ")" => Opening(run[p].stack) # {}
  BY <1>3, <1>4 DEF Handles, n
<1>6. ASSUME i + n + 1 <= p
      PROVE  /\ Leaves(run[i], a, run[i + n]) /\ Reads(run[i + n], op, run[i + n + 1])
             /\ Spared(run[i + n + 1].stack, b.binds)
             /\ (i + n + 1) + m <= p => Leaves(run[i + n + 1], b, run[(i + n + 1) + m])
             /\ p < (i + n + 1) + m /\ w[p + 1] = ")" => Opening(run[p].stack) # {}
  <2>1. i + n <= p /\ i + n \in 0..p /\ i + n < p /\ i + n + 1 \in 0..p /\ (i + n) + 1 = i + n + 1
    BY <1>2, <1>6
  <2>2. Reads(run[i + n], op, run[i + n + 1])
    <3>1. Reads(run[i + n], w[(i + n) + 1], run[(i + n) + 1])
      BY <2>1, RunStep, Zenon
    <3>. QED
      BY <1>3, <2>1, <3>1
  <2>3. Leaves(run[i], a, run[i + n])
    BY <1>5, <2>1
  <2>4. Spared(run[i + n + 1].stack, b.binds)
    BY <1>4, <2>2, <2>3, JoinedLeaves, ZenonT(60)
  <2>. QED
    BY <1>3, <2>1, <2>2, <2>3, <2>4 DEF Handles, m
<1>7. ASSUME i + (n + 1 + m) <= p PROVE Leaves(run[i], d, run[i + (n + 1 + m)])
  <2>1. i + n + 1 <= p /\ (i + n + 1) + m <= p /\ (i + n + 1) + m = i + (n + 1 + m)
    BY <1>2, <1>7
  <2>2. Leaves(run[i + n + 1], b, run[i + (n + 1 + m)])
    BY <1>6, <2>1
  <2>. QED
    BY <1>4, <1>6, <2>1, <2>2, JoinedLeaves, Zenon DEF d
<1>8. ASSUME p < i + (n + 1 + m), w[p + 1] = ")" PROVE Opening(run[p].stack) # {}
  <2>1. p # i + n
    BY <1>2, <1>3, <1>8
  <2>2. p < i + n \/ (i + n + 1 <= p /\ p < (i + n + 1) + m)
    BY <1>2, <1>8, <2>1
  <2>. QED
    BY <1>5, <1>6, <1>8, <2>2
<1>. QED
  BY <1>3, <1>7, <1>8

LEMMA TwoTokens ==
  ASSUME NEW x \in Alphabet, NEW y \in Alphabet
  PROVE  <<x>> \o <<y>> = <<x, y>>
<1> DEFINE a == <<x>>
           b == <<y>>
           c == <<x, y>>
<1>1. /\ a \in Seq(Alphabet) /\ Len(a) = 1 /\ a[1] = x
      /\ b \in Seq(Alphabet) /\ Len(b) = 1 /\ b[1] = y
      /\ c \in Seq(Alphabet) /\ Len(c) = 2 /\ c[1] = x /\ c[2] = y
  OBVIOUS
<1> HIDE DEF a, b, c
<1>2. /\ a \o b \in Seq(Alphabet) /\ Len(a \o b) = Len(a) + Len(b)
      /\ \A i \in 1..Len(a) + Len(b) : (a \o b)[i] = IF i <= Len(a) THEN a[i] ELSE b[i - Len(a)]
  BY <1>1, ConcatProperties, Zenon
<1>3. Len(a \o b) = 2 /\ (a \o b)[1] = x /\ (a \o b)[2] = y
  BY <1>1, <1>2
<1>4. \A i \in 1..2 : i = 1 \/ i = 2
  OBVIOUS
<1>5. a \o b = c
  BY <1>1, <1>2, <1>3, <1>4, SeqEqual
<1>. QED
  BY <1>5 DEF a, b, c

(* To the parser a sign in front is 0 - x, or nothing.                     *)
Alike(d, e) == d.tokens = e.tokens /\ d.postfix = e.postfix /\ d.binds = e.binds /\ d.tree = e.tree

LEMMA SignsAreAlike ==
  ASSUME NEW a, TypedPhrase(a)
  PROVE  /\ Alike(Joined(Number("0"), "-", a), Signed(a)) /\ Alike(a, Plussed(a))
         /\ TypedPhrase(Number("0")) /\ (a.binds > 1 => Joins(Number("0"), "-", a))
<1> DEFINE z == Number("0")
<1>1. z.text = <<"0">> /\ z.tokens = <<"0">> /\ z.postfix = <<"0">> /\ z.tree = <<"0">> /\ z.binds = 4
  BY DEF Number
<1> HIDE DEF z
<1>2. <<"0">> \in Seq(Alphabet) /\ <<"-">> \in Seq(Alphabet) /\ <<"0">> \o <<"-">> = <<"0", "-">>
  <2>1. "0" \in Alphabet /\ "-" \in Alphabet
    BY DEF Alphabet, Numbers, Operators
  <2>. QED
    BY <2>1, TwoTokens
<1>3. Precedence("-") = 1
  BY DEF Precedence
<1>4. Alike(Joined(z, "-", a), Signed(a))
  BY <1>1, <1>2, <1>3 DEF Alike, Joined, Signed
<1>5. Alike(a, Plussed(a))
  BY DEF Alike, Plussed
<1>6. TypedPhrase(z)
  BY <1>1, <1>2 DEF TypedPhrase
<1>7. a.binds > 1 => Joins(z, "-", a)
  BY <1>1, <1>3 DEF Joins
<1>. QED
  BY <1>4, <1>5, <1>6, <1>7 DEF z

LEMMA HandlesAlike ==
  ASSUME NEW w, NEW run, NEW p, NEW d, NEW e, Alike(d, e), Handles(w, run, p, d)
  PROVE  Handles(w, run, p, e)
<1>1. d.tokens = e.tokens /\ d.binds = e.binds /\ d.postfix = e.postfix
  BY DEF Alike
<1>2. \A x, y : Leaves(x, d, y) <=> Leaves(x, e, y)
  BY <1>1 DEF Leaves
<1>. QED
  BY <1>1, <1>2 DEF Handles

(* Every phrase is handled, wherever in the text it stands.                *)
LEMMA RunHandles ==
  ASSUME NEW w, NEW run, NEW p, IsRun(w, run, p)
  PROVE  \A d \in Phrases : Handles(w, run, p, d)
<1> DEFINE G == {d \in Phrases : Handles(w, run, p, d)}
<1>1. \A c \in Numbers : Number(c) \in Phrases => Number(c) \in G
  BY HandlesNumber
<1>2. \A a \in Phrases \cap G : /\ Grouped(a) \in Phrases => Grouped(a) \in G
                                /\ Called(a) \in Phrases => Called(a) \in G
  BY PhrasesTyped, HandlesGrouped, HandlesCalled
<1>3. ASSUME NEW a \in Phrases \cap G, a.binds > 1
      PROVE  Handles(w, run, p, Signed(a)) /\ Handles(w, run, p, Plussed(a))
  <2>1. TypedPhrase(a) /\ Handles(w, run, p, a)
    BY PhrasesTyped
  <2>2. Handles(w, run, p, Number("0")) /\ "-" \in Operators
    BY HandlesNumber DEF Numbers, Operators
  <2>3. Handles(w, run, p, Joined(Number("0"), "-", a))
    BY <1>3, <2>1, <2>2, SignsAreAlike, HandlesJoined
  <2>. QED
    BY <2>1, <2>3, SignsAreAlike, HandlesAlike
<1>4. \A a, b \in Phrases \cap G, op \in Operators :
        Joins(a, op, b) /\ Joined(a, op, b) \in Phrases => Joined(a, op, b) \in G
  BY PhrasesTyped, HandlesJoined
<1>5. \A a \in Phrases \cap G : a.binds > 1 => /\ Signed(a) \in Phrases => Signed(a) \in G
                                               /\ Plussed(a) \in Phrases => Plussed(a) \in G
  BY <1>3
<1> HIDE DEF G
<1>6. Phrases \subseteq G
  BY <1>1, <1>2, <1>4, <1>5, PhraseInduction, Zenon
<1>. QED
  BY <1>6 DEF G
StartConfig == [stack |-> <<>>, out |-> <<>>]

LEMMA WholeSegment ==
  ASSUME NEW s \in Seq(Alphabet)
  PROVE  Segment(s, 0, s) /\ 0 + Len(s) = Len(s) /\ Len(s) \in Nat
BY LenProperties DEF Segment

(* The text is that of one phrase: read to its end, its postfix form is    *)
(* complete with the operators still on the stack.                         *)
LEMMA PhraseIsParsed ==
  ASSUME NEW d \in Phrases, NEW run, NEW p, IsRun(d.tokens, run, p), run[0] = StartConfig
  PROVE  /\ p < Len(d.tokens) /\ d.tokens[p + 1] = ")" => Opening(run[p].stack) # {}
         /\ p = Len(d.tokens) => /\ Opening(run[p].stack) = {}
                                 /\ run[p].out \o Reverse(run[p].stack) = d.postfix
<1> DEFINE w == d.tokens
<1>1. w \in Seq(Alphabet) /\ Handles(w, run, p, d) /\ 0 \in 0..p
  BY RunHandles, SMTT(40) DEF IsRun
<1>2. Spared(run[0].stack, d.binds)
  BY DEF Spared, StartConfig
<1>3. Segment(w, 0, w) /\ 0 + Len(w) = Len(w)
  BY <1>1, WholeSegment
<1>4. /\ Len(w) <= p => Leaves(run[0], d, run[Len(w)])
      /\ p < Len(w) /\ w[p + 1] = ")" => Opening(run[p].stack) # {}
  <2> HIDE DEF w
  <2>1. /\ 0 + Len(w) <= p => Leaves(run[0], d, run[0 + Len(w)])
        /\ p < 0 + Len(w) /\ w[p + 1] = ")" => Opening(run[p].stack) # {}
    BY <1>1, <1>2, <1>3, Zenon DEF Handles, w
  <2>. QED
    BY <1>3, <2>1
<1>5. ASSUME p = Len(w)
      PROVE  Opening(run[p].stack) = {} /\ run[p].out \o Reverse(run[p].stack) = d.postfix
  <2>1. Leaves(StartConfig, d, run[p])
    <3>1. Len(w) <= p
      BY <1>1, <1>5, LenProperties
    <3>. QED
      BY <1>4, <1>5, <3>1
  <2>2. PICK ops \in Seq(Operators), out \in Seq(Alphabet) :
          /\ run[p] = [stack |-> <<>> \o ops, out |-> <<>> \o out]
          /\ out \o Reverse(ops) = d.postfix
    BY <2>1 DEF Leaves, StartConfig
  <2>3. run[p].stack = ops /\ run[p].out = out
    BY <2>2, ConcatEmptySeq
  <2>4. \A n \in DOMAIN ops : ops[n] # "("
    <3>1. \A n \in 1..Len(ops) : ops[n] \in Operators
      BY ElementOfSeq
    <3>. QED
      BY <3>1 DEF Operators
  <2>. QED
    BY <2>2, <2>3, <2>4 DEF Opening
<1>. QED
  BY <1>4, <1>5

-----------------------------------------------------------------------------
(* The evaluator as a relation between its values before and behind a      *)
(* token of the postfix form.                                              *)

Trees == {d.tree : d \in Phrases} \cup {<<"0">>}

Evals(v, t, e) ==
  /\ ~(Len(v) < Arity(t))
  /\ e = Append(SubSeq(v, 1, Len(v) - Arity(t)), <<t>> \o Upper(v, Len(v) - Arity(t)))

IsEval(s, run, p) ==
  /\ s \in Seq(Alphabet) /\ p \in 0..Len(s)
  /\ \A k \in 1..p : Evals(run[k - 1], s[k], run[k])

LEMMA EvalStep ==
  ASSUME NEW s, NEW run, NEW p, IsEval(s, run, p), NEW k \in 0..p, k < p
  PROVE  Evals(run[k], s[k + 1], run[k + 1])
<1>1. k + 1 \in 1..p /\ (k + 1) - 1 = k
  BY DEF IsEval
<1>. QED
  BY <1>1, Zenon DEF IsEval

LEMMA NumberEvals ==
  ASSUME NEW S, NEW v \in Seq(S), NEW t \in Numbers, NEW e, Evals(v, t, e)
  PROVE  e = Append(v, <<t>>)
<1>1. Arity(t) = 0 /\ Len(v) - 0 = Len(v) /\ Len(v) \in Nat /\ Len(v) \in 0..Len(v)
  BY DEF Arity
<1>2. SubSeq(v, 1, Len(v)) = v /\ Upper(v, Len(v)) = <<>>
  BY <1>1, UpperStep, SubSeqFull
<1>3. <<t>> \o <<>> = <<t>>
  OBVIOUS
<1>. QED
  BY <1>1, <1>2, <1>3 DEF Evals

LEMMA TuplesJoined ==
  ASSUME NEW a, NEW x, NEW y
  PROVE  <<a>> \o <<x>> = <<a, x>> /\ <<a>> \o <<x, y>> = <<a, x, y>>
<1> DEFINE T == {a, x, y}
           f == <<a>>
<1>1. /\ f \in Seq(T) /\ Len(f) = 1 /\ f[1] = a
  OBVIOUS
<1>2. ASSUME NEW g \in Seq(T), NEW h \in Seq(T), Len(h) = 1 + Len(g), h[1] = a,
             \A i \in 1..Len(g) : h[i + 1] = g[i]
      PROVE  f \o g = h
  <2> HIDE DEF f, T
  <2>1. /\ f \o g \in Seq(T) /\ Len(f \o g) = 1 + Len(g) /\ (f \o g)[1] = a
        /\ \A i \in 1..Len(g) : (f \o g)[1 + i] = g[i]
    <3>1. /\ f \o g \in Seq(T) /\ Len(f \o g) = Len(f) + Len(g)
          /\ \A i \in 1..(Len(f) + Len(g)) :
               (f \o g)[i] = IF i <= Len(f) THEN f[i] ELSE g[i - Len(f)]
      BY <1>1, ConcatProperties
    <3>2. ASSUME NEW i \in 1..Len(g) PROVE (f \o g)[1 + i] = g[i]
      <4>1. 1 + i \in 1..(Len(f) + Len(g)) /\ ~(1 + i <= Len(f)) /\ (1 + i) - Len(f) = i
        BY <1>1, <1>2
      <4>. QED
        BY <3>1, <4>1
    <3>3. 1 \in 1..(Len(f) + Len(g)) /\ 1 <= Len(f)
      BY <1>1, <1>2
    <3>. QED
      BY <1>1, <3>1, <3>2, <3>3
  <2>2. ASSUME NEW j \in 1..Len(h) PROVE (f \o g)[j] = h[j]
    <3>1. j = 1 \/ \E i \in 1..Len(g) : j = i + 1 /\ j = 1 + i
      <4>1. j = 1 \/ j - 1 \in 1..Len(g)
        BY <1>2
      <4>. QED
        BY <4>1
    <3>. QED
      BY <1>2, <2>1, <3>1
  <2>. QED
    BY <1>2, <2>1, <2>2, SeqEqual
<1>3. /\ <<x>> \in Seq(T) /\ <<a, x>> \in Seq(T) /\ Len(<<a, x>>) = 1 + Len(<<x>>) /\ <<a, x>>[1] = a
      /\ \A i \in 1..Len(<<x>>) : <<a, x>>[i + 1] = <<x>>[i]
  OBVIOUS
<1>4. /\ <<x, y>> \in Seq(T) /\ <<a, x, y>> \in Seq(T) /\ Len(<<a, x, y>>) = 1 + Len(<<x, y>>)
      /\ <<a, x, y>>[1] = a
      /\ \A i \in 1..Len(<<x, y>>) : <<a, x, y>>[i + 1] = <<x, y>>[i]
  OBVIOUS
<1>. QED
  BY <1>2, <1>3, <1>4, Zenon

LEMMA CallEvals ==
  ASSUME NEW S, NEW v \in Seq(S), NEW x \in S, NEW e, Evals(Append(v, x), "f", e)
  PROVE  e = Append(v, <<"f", x>>)
<1> DEFINE u == Append(v, x)
<1>1. Arity("f") = 1
  BY DEF Arity, Numbers
<1>2. u = v \o <<x>> /\ <<x>> \in Seq(S) /\ Len(<<x>>) = 1
  <2>1. <<x>> \in Seq(S) /\ Len(<<x>>) = 1
    OBVIOUS
  <2>2. u = v \o <<x>>
    BY AppendIsConcat
  <2>. QED
    BY <2>1, <2>2
<1>3. Len(u) = Len(v) + 1 /\ SubSeq(u, 1, Len(v)) = v /\ Upper(u, Len(v)) = <<x>> /\ Len(v) \in Nat
  <2> DEFINE r == <<x>>
  <2>1. u = v \o r /\ r \in Seq(S) /\ Len(r) = 1
    BY <1>2
  <2>2. r \in Seq(S)
    BY <2>1
  <2> HIDE DEF u, r
  <2>3. /\ Len(v \o r) = Len(v) + Len(r) /\ Len(v) \in Nat
        /\ SubSeq(v \o r, 1, Len(v)) = v /\ Upper(v \o r, Len(v)) = r
    BY <2>2, SplitConcat
  <2>4. Len(u) = Len(v) + Len(r) /\ SubSeq(u, 1, Len(v)) = v /\ Upper(u, Len(v)) = r
    BY <2>1, <2>3
  <2>5. Len(u) = Len(v) + 1
    BY <2>1, <2>4
  <2>6. Upper(u, Len(v)) = <<x>>
    BY <2>4 DEF r
  <2>. QED
    BY <2>3, <2>4, <2>5, <2>6
<1>4. <<"f">> \o <<x>> = <<"f", x>>
  BY TuplesJoined
<1>5. Len(u) - 1 = Len(v)
  BY <1>3
<1>6. e = Append(SubSeq(u, 1, Len(u) - Arity("f")), <<"f">> \o Upper(u, Len(u) - Arity("f")))
  BY DEF Evals
<1> HIDE DEF u
<1>. QED
  BY <1>1, <1>3, <1>4, <1>5, <1>6

LEMMA OperatorEvals ==
  ASSUME NEW S, NEW v \in Seq(S), NEW x \in S, NEW y \in S, NEW op \in Operators, NEW e,
         Evals(Append(Append(v, x), y), op, e)
  PROVE  e = Append(v, <<op, x, y>>)
<1> DEFINE u == Append(Append(v, x), y)
<1>1. Arity(op) = 2
  BY DEF Arity, Numbers, Operators
<1>2. u = v \o <<x, y>> /\ <<x, y>> \in Seq(S) /\ Len(<<x, y>>) = 2
  OBVIOUS
<1>3. Len(u) = Len(v) + 2 /\ SubSeq(u, 1, Len(v)) = v /\ Upper(u, Len(v)) = <<x, y>> /\ Len(v) \in Nat
  <2> DEFINE r == <<x, y>>
  <2>1. u = v \o r /\ r \in Seq(S) /\ Len(r) = 2
    BY <1>2
  <2>2. r \in Seq(S)
    BY <2>1
  <2> HIDE DEF u, r
  <2>3. /\ Len(v \o r) = Len(v) + Len(r) /\ Len(v) \in Nat
        /\ SubSeq(v \o r, 1, Len(v)) = v /\ Upper(v \o r, Len(v)) = r
    BY <2>2, SplitConcat
  <2>4. Len(u) = Len(v) + Len(r) /\ SubSeq(u, 1, Len(v)) = v /\ Upper(u, Len(v)) = r
    BY <2>1, <2>3
  <2>5. Len(u) = Len(v) + 2
    BY <2>1, <2>4
  <2>6. Upper(u, Len(v)) = <<x, y>>
    BY <2>4 DEF r
  <2>. QED
    BY <2>3, <2>4, <2>5, <2>6
<1>4. <<op>> \o <<x, y>> = <<op, x, y>>
  BY TuplesJoined
<1>5. Len(u) - 2 = Len(v)
  BY <1>3
<1>6. e = Append(SubSeq(u, 1, Len(u) - Arity(op)), <<op>> \o Upper(u, Len(u) - Arity(op)))
  BY DEF Evals
<1> HIDE DEF u
<1>. QED
  BY <1>1, <1>3, <1>4, <1>5, <1>6
(* The postfix form of a phrase adds its tree to the values, and no token  *)
(* of it finds too few of them.                                            *)
Computes(s, run, p, d) ==
  \A i \in 0..p : Segment(s, i, d.postfix) /\ run[i] \in Seq(Trees) =>
    /\ i + Len(d.postfix) <= p => run[i + Len(d.postfix)] = Append(run[i], d.tree)
    /\ p < i + Len(d.postfix) => ~(Len(run[p]) < Arity(s[p + 1]))

LEMMA ComputesNumber ==
  ASSUME NEW s, NEW run, NEW p, IsEval(s, run, p), NEW t \in Numbers
  PROVE  Computes(s, run, p, Number(t))
<1> DEFINE d == Number(t)
<1>1. SUFFICES ASSUME NEW i \in 0..p, Segment(s, i, d.postfix), run[i] \in Seq(Trees)
               PROVE  /\ i + Len(d.postfix) <= p => run[i + Len(d.postfix)] = Append(run[i], d.tree)
                      /\ p < i + Len(d.postfix) => ~(Len(run[p]) < Arity(s[p + 1]))
  BY DEF Computes
<1>2. /\ d.postfix = <<t>> /\ d.tree = <<t>> /\ Len(d.postfix) = 1 /\ s[i + 1] = t /\ p \in Nat /\ i \in Nat
      /\ Arity(t) = 0
  <2>1. d.postfix = <<t>> /\ d.tree = <<t>> /\ i \in Nat /\ p \in Nat
    BY DEF Number, IsEval
  <2>2. s[i + 1] = t
    BY <1>1, <2>1, OneToken
  <2>. QED
    BY <2>1, <2>2 DEF Arity
<1> HIDE DEF d
<1>3. ASSUME i + 1 <= p PROVE run[i + 1] = Append(run[i], <<t>>)
  <2>1. i < p
    BY <1>2, <1>3
  <2>2. Evals(run[i], t, run[i + 1])
    BY <1>2, <2>1, EvalStep, Zenon
  <2>. QED
    BY <1>1, <2>2, NumberEvals
<1>4. p < i + 1 => p = i /\ Len(run[p]) \in Nat
  BY <1>1, <1>2, LenProperties
<1>5. p < i + 1 => ~(Len(run[p]) < Arity(s[p + 1]))
  BY <1>2, <1>4
<1>. QED
  BY <1>2, <1>3, <1>5

LEMMA ComputesCalled ==
  ASSUME NEW s, NEW run, NEW p, IsEval(s, run, p), NEW a \in Phrases, Computes(s, run, p, a)
  PROVE  Computes(s, run, p, Called(a))
<1> DEFINE d == Called(a)
           n == Len(a.postfix)
<1>1. SUFFICES ASSUME NEW i \in 0..p, Segment(s, i, d.postfix), run[i] \in Seq(Trees)
               PROVE  /\ i + Len(d.postfix) <= p => run[i + Len(d.postfix)] = Append(run[i], d.tree)
                      /\ p < i + Len(d.postfix) => ~(Len(run[p]) < Arity(s[p + 1]))
  BY DEF Computes
<1>2. /\ s \in Seq(Alphabet) /\ p \in Nat /\ i \in Nat /\ n \in Nat
      /\ a.postfix \in Seq(Alphabet) /\ <<"f">> \in Seq(Alphabet) /\ a.tree \in Trees
  BY PhrasesTyped, LenProperties DEF IsEval, TypedPhrase, Alphabet, Trees
<1>3. d.postfix = a.postfix \o <<"f">> /\ d.tree = <<"f", a.tree>>
  BY DEF Called
<1>4. /\ Segment(s, i, a.postfix) /\ s[(i + n) + 1] = "f" /\ Len(d.postfix) = n + 1
  <2>1. Segment(s, i, a.postfix \o <<"f">>)
    BY <1>1, <1>3
  <2>2. Segment(s, i, a.postfix) /\ Segment(s, i + n, <<"f">>)
    BY <1>2, <2>1, SegmentParts
  <2>3. i + n \in Nat
    BY <1>2
  <2>4. Len(a.postfix \o <<"f">>) = n + 1
    BY <1>2, ConcatProperties
  <2> HIDE DEF d, n
  <2>5. s[(i + n) + 1] = "f"
    BY <2>2, <2>3, OneToken
  <2>. QED
    BY <1>3, <2>2, <2>4, <2>5
<1>5. /\ i + n <= p => run[i + n] = Append(run[i], a.tree)
      /\ p < i + n => ~(Len(run[p]) < Arity(s[p + 1]))
  BY <1>1, <1>4 DEF Computes
<1> HIDE DEF d, n
<1>6. ASSUME i + (n + 1) <= p PROVE run[i + (n + 1)] = Append(run[i], d.tree)
  <2>1. i + n <= p /\ i + n < p /\ i + n \in 0..p /\ (i + n) + 1 = i + (n + 1)
    BY <1>2, <1>6
  <2>2. Evals(run[i + n], s[(i + n) + 1], run[(i + n) + 1])
    BY <2>1, EvalStep, Zenon
  <2>3. Evals(Append(run[i], a.tree), "f", run[i + (n + 1)])
    BY <1>4, <1>5, <2>1, <2>2
  <2>. QED
    BY <1>1, <1>2, <1>3, <2>3, CallEvals, SMTT(40)
<1>7. ASSUME p < i + (n + 1) PROVE ~(Len(run[p]) < Arity(s[p + 1]))
  <2>1. CASE p = i + n
    <3>1. Len(run[p]) = Len(run[i]) + 1 /\ Len(run[i]) \in Nat
      BY <1>1, <1>2, <1>5, <2>1, AppendProperties
    <3>2. Arity(s[p + 1]) = 1
      BY <1>4, <2>1 DEF Arity, Numbers
    <3>. QED
      BY <3>1, <3>2
  <2>2. CASE p < i + n
    BY <1>5, <2>2
  <2>. QED
    BY <1>2, <1>7, <2>1, <2>2
<1>. QED
  BY <1>4, <1>6, <1>7

LEMMA ComputesJoined ==
  ASSUME NEW s, NEW run, NEW p, IsEval(s, run, p), NEW op \in Operators,
         NEW a, TypedPhrase(a), a.tree \in Trees, Computes(s, run, p, a),
         NEW b, TypedPhrase(b), b.tree \in Trees, Computes(s, run, p, b)
  PROVE  Computes(s, run, p, Joined(a, op, b))
<1> DEFINE d == Joined(a, op, b)
           n == Len(a.postfix)
           m == Len(b.postfix)
<1>1. SUFFICES ASSUME NEW i \in 0..p, Segment(s, i, d.postfix), run[i] \in Seq(Trees)
               PROVE  /\ i + Len(d.postfix) <= p => run[i + Len(d.postfix)] = Append(run[i], d.tree)
                      /\ p < i + Len(d.postfix) => ~(Len(run[p]) < Arity(s[p + 1]))
  BY DEF Computes
<1>2. /\ s \in Seq(Alphabet) /\ p \in Nat /\ i \in Nat /\ n \in Nat /\ m \in Nat
      /\ a.postfix \in Seq(Alphabet) /\ b.postfix \in Seq(Alphabet) /\ <<op>> \in Seq(Alphabet)
      /\ a.tree \in Trees /\ b.tree \in Trees
  <2>1. s \in Seq(Alphabet) /\ p \in Nat /\ i \in Nat
    BY DEF IsEval
  <2>2. a.postfix \in Seq(Alphabet) /\ b.postfix \in Seq(Alphabet) /\ n \in Nat /\ m \in Nat
    BY LenProperties DEF TypedPhrase
  <2>3. <<op>> \in Seq(Alphabet)
    BY DEF Alphabet
  <2>. QED
    BY <2>1, <2>2, <2>3
<1>3. d.postfix = (a.postfix \o b.postfix) \o <<op>> /\ d.tree = <<op, a.tree, b.tree>>
  BY DEF Joined
<1>4. /\ Segment(s, i, a.postfix) /\ Segment(s, i + n, b.postfix) /\ s[(i + (n + m)) + 1] = op
      /\ Len(d.postfix) = (n + m) + 1
  <2>1. SplitsInto(s, i, a.postfix, b.postfix, <<op>>, d.postfix)
    BY <1>1, <1>2, <1>3, SegmentSplit, Zenon
  <2>2. /\ Segment(s, i, a.postfix) /\ Segment(s, i + n, b.postfix) /\ Segment(s, i + (n + m), <<op>>)
        /\ Len(d.postfix) = (n + m) + Len(<<op>>)
    BY <2>1, Zenon DEF SplitsInto
  <2> HIDE DEF d, n, m
  <2>3. Len(<<op>>) = 1 /\ i + (n + m) \in Nat
    BY <1>2
  <2>4. s[(i + (n + m)) + 1] = op
    BY <2>2, <2>3, OneToken
  <2>. QED
    BY <2>2, <2>3, <2>4
<1>5. /\ i + n <= p => run[i + n] = Append(run[i], a.tree)
      /\ p < i + n => ~(Len(run[p]) < Arity(s[p + 1]))
  BY <1>1, <1>4 DEF Computes
<1> HIDE DEF d, n
<1>6. ASSUME i + n <= p
      PROVE  /\ (i + n) + m <= p => run[(i + n) + m] = Append(Append(run[i], a.tree), b.tree)
             /\ p < (i + n) + m => ~(Len(run[p]) < Arity(s[p + 1]))
  <2>1. i + n \in 0..p
    BY <1>2, <1>6
  <2>2. run[i + n] = Append(run[i], a.tree) /\ run[i + n] \in Seq(Trees)
    BY <1>1, <1>2, <1>5, <1>6, AppendProperties, ZenonT(60)
  <2>. QED
    BY <1>4, <2>1, <2>2 DEF Computes
<1> HIDE DEF m
<1>7. ASSUME i + ((n + m) + 1) <= p PROVE run[i + ((n + m) + 1)] = Append(run[i], d.tree)
  <2>1. /\ i + n <= p /\ (i + n) + m <= p /\ i + (n + m) < p /\ i + (n + m) \in 0..p
        /\ (i + n) + m = i + (n + m) /\ (i + (n + m)) + 1 = i + ((n + m) + 1)
    BY <1>2, <1>7
  <2>2. Evals(run[i + (n + m)], s[(i + (n + m)) + 1], run[(i + (n + m)) + 1])
    BY <2>1, EvalStep, Zenon
  <2>3. Evals(Append(Append(run[i], a.tree), b.tree), op, run[i + ((n + m) + 1)])
    BY <1>4, <1>6, <2>1, <2>2
  <2>. QED
    <3>1. run[i + ((n + m) + 1)] = Append(run[i], <<op, a.tree, b.tree>>)
      <4> DEFINE v == run[i]
                 e == run[i + ((n + m) + 1)]
                 x == a.tree
                 y == b.tree
      <4>1. v \in Seq(Trees) /\ x \in Trees /\ y \in Trees /\ Evals(Append(Append(v, x), y), op, e)
        BY <1>1, <1>2, <2>3
      <4> HIDE DEF v, e, x, y
      <4>2. e = Append(v, <<op, x, y>>)
        BY <4>1, OperatorEvals
      <4>. QED
        BY <4>2 DEF e, v, x, y
    <3>. QED
      BY <1>3, <3>1
<1>8. ASSUME p < i + ((n + m) + 1) PROVE ~(Len(run[p]) < Arity(s[p + 1]))
  <2>1. CASE p = (i + n) + m
    <3>1. i + n <= p /\ (i + n) + m = i + (n + m) /\ (i + n) + m <= p
      BY <1>2, <2>1
    <3>2. run[p] = Append(Append(run[i], a.tree), b.tree)
      BY <1>6, <2>1, <3>1
    <3>3. Len(run[p]) = Len(run[i]) + 2 /\ Len(run[i]) \in Nat
      BY <1>1, <1>2, <3>2, AppendProperties
    <3>4. Arity(s[p + 1]) = 2
      BY <1>4, <2>1, <3>1 DEF Arity, Numbers, Operators
    <3>. QED
      BY <3>3, <3>4
  <2>2. CASE p < i + n
    BY <1>5, <2>2
  <2>3. CASE i + n <= p /\ p < (i + n) + m
    BY <1>6, <2>3
  <2>. QED
    BY <1>2, <1>8, <2>1, <2>2, <2>3
<1>. QED
  BY <1>4, <1>7, <1>8

LEMMA EvalComputes ==
  ASSUME NEW s, NEW run, NEW p, IsEval(s, run, p)
  PROVE  \A d \in Phrases : Computes(s, run, p, d)
<1> DEFINE G == {d \in Phrases : Computes(s, run, p, d)}
<1>1. \A c \in Numbers : Number(c) \in Phrases => Number(c) \in G
  BY ComputesNumber
<1>2. ASSUME NEW a \in Phrases \cap G
      PROVE  /\ Grouped(a) \in Phrases => Grouped(a) \in G
             /\ Called(a) \in Phrases => Called(a) \in G
  <2>1. Computes(s, run, p, Grouped(a))
    BY DEF Grouped, Computes
  <2>. QED
    BY <2>1, ComputesCalled
<1>3. \A a \in Phrases : TypedPhrase(a) /\ a.tree \in Trees
  BY PhrasesTyped DEF Trees
<1>4. ASSUME NEW a \in Phrases \cap G
      PROVE  Computes(s, run, p, Signed(a)) /\ Computes(s, run, p, Plussed(a))
  <2> DEFINE z == Number("0")
  <2>1. TypedPhrase(z) /\ z.tree \in Trees /\ Computes(s, run, p, z) /\ "-" \in Operators
    BY <1>3, SignsAreAlike, ComputesNumber DEF Number, Numbers, Operators, Trees
  <2>2. Computes(s, run, p, Joined(z, "-", a))
    BY <1>3, <2>1, ComputesJoined
  <2>3. Alike(Joined(z, "-", a), Signed(a)) /\ Alike(a, Plussed(a)) /\ Computes(s, run, p, a)
    BY <1>3, SignsAreAlike
  <2> HIDE DEF z
  <2>. QED
    BY <2>2, <2>3 DEF Alike, Computes
<1>5. ASSUME NEW a \in Phrases \cap G, NEW b \in Phrases \cap G, NEW op \in Operators
      PROVE  Computes(s, run, p, Joined(a, op, b))
  BY <1>3, ComputesJoined
<1>6. /\ \A a \in Phrases \cap G : a.binds > 1 => /\ Signed(a) \in Phrases => Signed(a) \in G
                                                  /\ Plussed(a) \in Phrases => Plussed(a) \in G
      /\ \A a, b \in Phrases \cap G, op \in Operators :
           Joins(a, op, b) /\ Joined(a, op, b) \in Phrases => Joined(a, op, b) \in G
  BY <1>4, <1>5
<1> HIDE DEF G
<1>7. Phrases \subseteq G
  BY <1>1, <1>2, <1>6, PhraseInduction, Zenon
<1>. QED
  BY <1>7 DEF G

(* The whole postfix form: no step is refused, and one value is left.      *)
LEMMA PhraseIsEvaluated ==
  ASSUME NEW d \in Phrases, NEW run, NEW p, IsEval(d.postfix, run, p), run[0] = <<>>
  PROVE  /\ p < Len(d.postfix) => ~(Len(run[p]) < Arity(d.postfix[p + 1]))
         /\ p = Len(d.postfix) => run[p] = <<d.tree>>
<1> DEFINE s == d.postfix
<1>1. s \in Seq(Alphabet) /\ Computes(s, run, p, d) /\ 0 \in 0..p /\ run[0] \in Seq(Trees) /\ p \in Nat
  BY EvalComputes DEF IsEval
<1>2. Segment(s, 0, s) /\ 0 + Len(s) = Len(s)
  BY <1>1, WholeSegment
<1>3. /\ 0 + Len(s) <= p => run[0 + Len(s)] = Append(run[0], d.tree)
      /\ p < 0 + Len(s) => ~(Len(run[p]) < Arity(s[p + 1]))
  BY <1>1, <1>2 DEF Computes
<1>4. Append(<<>>, d.tree) = <<d.tree>>
  OBVIOUS
<1> HIDE DEF s
<1>. QED
  BY <1>1, <1>2, <1>3, <1>4 DEF s
-----------------------------------------------------------------------------
(* The tokens of a text, and those of its first k characters.              *)
Pieces(text) == [i \in 1..Len(text) |-> TokensOf(text[i], i > 1 /\ IsValue(text[i - 1]))]

TokensIn(text) == FlattenSeq(Pieces(text))

Flat(text) ==
  CHOOSE f : f = [i \in 1..Len(text) |-> IF i = 1 THEN Pieces(text)[i] ELSE f[i - 1] \o Pieces(text)[i]]

TokensUpTo(text, k) == IF k = 0 THEN <<>> ELSE Flat(text)[k]

LEMMA PiecesTyped ==
  ASSUME NEW text \in Seq(Alphabet), NEW i \in 1..Len(text)
  PROVE  Pieces(text)[i] = TokensOf(text[i], i > 1 /\ IsValue(text[i - 1])) /\ Pieces(text)[i] \in Seq(Alphabet)
<1>1. Pieces(text)[i] = TokensOf(text[i], i > 1 /\ IsValue(text[i - 1]))
  BY DEF Pieces
<1>2. text[i] \in Alphabet
  BY ElementOfSeq
<1>3. <<"0", "-">> \in Seq(Alphabet) /\ <<>> \in Seq(Alphabet) /\ <<text[i]>> \in Seq(Alphabet)
  BY <1>2 DEF Alphabet, Numbers, Operators
<1>. QED
  BY <1>1, <1>3 DEF TokensOf

IsFlat(s, f, m) == f = [i \in 1..m |-> IF i = 1 THEN s[i] ELSE f[i - 1] \o s[i]]

HasFlat(S, s, m) == \E f \in [1..m -> Seq(S)] : IsFlat(s, f, m)

(* The function FlattenSeq defines exists.                                 *)
LEMMA FlatGrows ==
  ASSUME NEW S, NEW m \in Nat \ {0}, NEW s, s[m] \in Seq(S), HasFlat(S, s, m - 1)
  PROVE  HasFlat(S, s, m)
<1>1. PICK f \in [1..(m - 1) -> Seq(S)] : IsFlat(s, f, m - 1)
  BY DEF HasFlat
<1>2. \A i \in 1..(m - 1) : f[i] \in Seq(S) /\ f[i] = IF i = 1 THEN s[i] ELSE f[i - 1] \o s[i]
  BY <1>1 DEF IsFlat
<1> DEFINE new == IF m = 1 THEN s[m] ELSE f[m - 1] \o s[m]
           g == [i \in 1..m |-> IF i = m THEN new ELSE f[i]]
<1>3. new \in Seq(S)
  <2>1. CASE m = 1
    BY <2>1
  <2>2. CASE m # 1
    <3>1. f[m - 1] \in Seq(S)
      BY <1>2, <2>2
    <3>2. f[m - 1] \o s[m] \in Seq(S)
      BY <3>1, ConcatProperties
    <3>. QED
      BY <2>2, <3>2
  <2>. QED
    BY <2>1, <2>2
<1> HIDE DEF new
<1>4. g \in [1..m -> Seq(S)]
  <2>1. \A i \in 1..m : i # m => i \in 1..(m - 1)
    OBVIOUS
  <2>. QED
    BY <1>2, <1>3, <2>1
<1>5. ASSUME NEW i \in 1..m PROVE g[i] = IF i = 1 THEN s[i] ELSE g[i - 1] \o s[i]
  <2>1. CASE i = m
    <3>1. i # 1 => g[i - 1] = f[m - 1]
      BY <2>1
    <3>2. g[i] = new
      BY <2>1
    <3> HIDE DEF g
    <3>. QED
      BY <2>1, <3>1, <3>2 DEF new
  <2>2. CASE i # m
    <3>1. i \in 1..(m - 1) /\ g[i] = f[i] /\ (i # 1 => g[i - 1] = f[i - 1])
      BY <2>2
    <3> HIDE DEF g
    <3>. QED
      BY <1>2, <3>1
  <2>. QED
    BY <2>1, <2>2
<1>6. IsFlat(s, g, m)
  <2> DEFINE h == [i \in 1..m |-> IF i = 1 THEN s[i] ELSE g[i - 1] \o s[i]]
  <2>1. DOMAIN g = 1..m /\ DOMAIN h = 1..m /\ \A i \in 1..m : g[i] = h[i]
    BY <1>5
  <2>2. g = [i \in 1..m |-> g[i]] /\ h = [i \in 1..m |-> h[i]]
    OBVIOUS
  <2> HIDE DEF g, h
  <2>3. g = h
    BY <2>1, <2>2
  <2>. QED
    BY <2>3 DEF IsFlat, h
<1>. QED
  BY <1>4, <1>6 DEF HasFlat

LEMMA FlatExists ==
  ASSUME NEW S, NEW n \in Nat, NEW s, \A i \in 1..n : s[i] \in Seq(S)
  PROVE  HasFlat(S, s, n)
<1> DEFINE Bad == {m \in 0..n : ~HasFlat(S, s, m)}
<1>1. SUFFICES ASSUME Bad # {} PROVE FALSE
  <2>1. n \in 0..n
    OBVIOUS
  <2>. QED
    BY <2>1
<1>2. PICK m \in Bad : \A k \in Bad : m <= k
  <2>1. Bad \subseteq Nat
    OBVIOUS
  <2> HIDE DEF Bad
  <2>. QED
    BY <1>1, <2>1, LeastExists, Zenon
<1>3. m # 0
  <2> DEFINE g == [i \in 1..0 |-> s[i]]
  <2>1. HasFlat(S, s, 0)
    <3>1. g \in [1..0 -> Seq(S)]
      OBVIOUS
    <3>2. IsFlat(s, g, 0)
      BY DEF IsFlat
    <3>. QED
      BY <3>1, <3>2 DEF HasFlat
  <2>. QED
    BY <1>2, <2>1
<1>4. m \in Nat \ {0} /\ m - 1 \in 0..n /\ m \in 1..n /\ ~(m <= m - 1)
  BY <1>2, <1>3
<1>5. HasFlat(S, s, m - 1)
  BY <1>2, <1>4
<1>6. HasFlat(S, s, m)
  BY <1>4, <1>5, FlatGrows
<1>. QED
  BY <1>2, <1>6

LEMMA TokensRead ==
  ASSUME NEW text \in Seq(Alphabet)
  PROVE  /\ TokensUpTo(text, 0) = <<>> /\ TokensUpTo(text, Len(text)) = TokensIn(text)
         /\ \A k \in 0..Len(text) : TokensUpTo(text, k) \in Seq(Alphabet)
         /\ \A k \in 0..Len(text) : k < Len(text) =>
              TokensUpTo(text, k + 1) =
                TokensUpTo(text, k) \o TokensOf(text[k + 1], k + 1 > 1 /\ IsValue(text[(k + 1) - 1]))
<1> DEFINE n == Len(text)
           s == Pieces(text)
           F == Flat(text)
<1>1. n \in Nat /\ Len(s) = n /\ s = [i \in 1..n |-> TokensOf(text[i], i > 1 /\ IsValue(text[i - 1]))]
  BY LenProperties DEF Pieces
<1>2. \A i \in 1..n : s[i] \in Seq(Alphabet) /\ s[i] = TokensOf(text[i], i > 1 /\ IsValue(text[i - 1]))
  BY PiecesTyped
<1> HIDE DEF s
<1>3. HasFlat(Alphabet, s, n)
  BY <1>1, <1>2, FlatExists, SMTT(40)
<1>4. /\ F = CHOOSE f : IsFlat(s, f, n)
      /\ F = [i \in 1..n |-> IF i = 1 THEN s[i] ELSE F[i - 1] \o s[i]]
  <2>1. F = CHOOSE f : IsFlat(s, f, n)
    BY DEF Flat, IsFlat, s
  <2> HIDE DEF F
  <2>2. IsFlat(s, F, n)
    BY <1>3, <2>1, ZenonT(60) DEF HasFlat
  <2>. QED
    BY <2>1, <2>2 DEF IsFlat
<1>5. n # 0 => TokensIn(text) = F[n]
  <2>1. TokensIn(text) = FlattenSeq(s)
    BY DEF TokensIn, s, Pieces
  <2>2. FlattenSeq(s) = IF Len(s) = 0 THEN s ELSE
          (CHOOSE f : f = [i \in 1..Len(s) |-> IF i = 1 THEN s[i] ELSE f[i - 1] \o s[i]])[Len(s)]
    BY DEF FlattenSeq
  <2>3. Len(s) = n /\ F = CHOOSE f : f = [i \in 1..n |-> IF i = 1 THEN s[i] ELSE f[i - 1] \o s[i]]
    BY <1>1, <1>4 DEF IsFlat
  <2> HIDE DEF F
  <2>. QED
    BY <2>1, <2>2, <2>3
<1>6. n = 0 => TokensIn(text) = <<>>
  <2>1. TokensIn(text) = FlattenSeq(s) /\ Len(s) = n
    BY <1>1 DEF TokensIn, s, Pieces
  <2>2. n = 0 => s = <<>>
    BY <1>1
  <2>. QED
    BY <2>1, <2>2 DEF FlattenSeq
<1> HIDE DEF F
<1>7. \A k \in 1..n : F[k] = IF k = 1 THEN s[k] ELSE F[k - 1] \o s[k]
  BY <1>4
<1>8. \A k \in 1..n : F[k] \in Seq(Alphabet)
  <2> DEFINE Bad == {k \in 1..n : F[k] \notin Seq(Alphabet)}
  <2>1. SUFFICES ASSUME Bad # {} PROVE FALSE
    OBVIOUS
  <2>2. Bad \subseteq Nat
    BY <1>1
  <2>3. PICK k \in Bad : \A j \in Bad : k <= j
    <3> HIDE DEF Bad
    <3>. QED
      BY <2>1, <2>2, LeastExists, Zenon
  <2>4. k \in 1..n /\ F[k] \notin Seq(Alphabet) /\ s[k] \in Seq(Alphabet)
    BY <1>2, <2>3
  <2>5. CASE k = 1
    BY <1>7, <2>4, <2>5
  <2>6. CASE k # 1
    <3>1. k - 1 \in 1..n /\ ~(k <= k - 1)
      BY <1>1, <2>4, <2>6
    <3>2. F[k - 1] \in Seq(Alphabet)
      BY <2>3, <3>1
    <3>3. F[k - 1] \o s[k] \in Seq(Alphabet)
      BY <2>4, <3>2, ConcatProperties
    <3>. QED
      BY <1>7, <2>4, <2>6, <3>3
  <2>. QED
    BY <2>5, <2>6
<1>9. TokensUpTo(text, 0) = <<>> /\ \A k \in 1..n : TokensUpTo(text, k) = F[k]
  BY <1>1 DEF TokensUpTo, F
<1>10. TokensUpTo(text, n) = TokensIn(text)
  BY <1>1, <1>5, <1>6, <1>9
<1>11. \A k \in 0..n : TokensUpTo(text, k) \in Seq(Alphabet)
  <2>1. <<>> \in Seq(Alphabet)
    OBVIOUS
  <2>2. ASSUME NEW k \in 1..n PROVE TokensUpTo(text, k) \in Seq(Alphabet)
    BY <1>8, <1>9
  <2>3. TokensUpTo(text, 0) \in Seq(Alphabet)
    BY <1>9, <2>1
  <2>4. \A k \in 0..n : k = 0 \/ k \in 1..n
    BY <1>1
  <2>. QED
    BY <2>2, <2>3, <2>4, Zenon
<1>12. ASSUME NEW k \in 0..n, k < n
       PROVE  TokensUpTo(text, k + 1) =
                TokensUpTo(text, k) \o TokensOf(text[k + 1], k + 1 > 1 /\ IsValue(text[(k + 1) - 1]))
  <2>1. k + 1 \in 1..n /\ k \in Nat /\ (k + 1) - 1 = k
    BY <1>1, <1>12
  <2>2. s[k + 1] = TokensOf(text[k + 1], k + 1 > 1 /\ IsValue(text[(k + 1) - 1])) /\ s[k + 1] \in Seq(Alphabet)
    BY <1>2, <2>1
  <2>3. TokensUpTo(text, k + 1) = TokensUpTo(text, k) \o s[k + 1]
    <3>1. CASE k = 0
      <4>1. TokensUpTo(text, k + 1) = s[k + 1]
        BY <1>7, <1>9, <2>1, <3>1
      <4>2. <<>> \o s[k + 1] = s[k + 1]
        BY <2>2, ConcatEmptySeq
      <4>. QED
        BY <1>9, <3>1, <4>1, <4>2
    <3>2. CASE k # 0
      <4>1. k \in 1..n /\ k + 1 # 1
        BY <2>1, <3>2
      <4>2. F[k + 1] = F[(k + 1) - 1] \o s[k + 1]
        BY <1>7, <2>1, <4>1
      <4>. QED
        BY <1>9, <2>1, <4>1, <4>2
    <3>. QED
      BY <3>1, <3>2
  <2>. QED
    BY <2>2, <2>3, Zenon
<1>. QED
  BY <1>9, <1>10, <1>11, <1>12

(* What is read of a character depends on the one in front of it.          *)
BehindValue(w, i) == i > 0 /\ IsValue(w[i])

LEMMA CharacterRead ==
  ASSUME NEW w \in Seq(Alphabet), NEW i \in Nat, NEW c, Segment(w, i, <<c>>)
  PROVE  /\ TokensUpTo(w, i + 1) = TokensUpTo(w, i) \o TokensOf(c, BehindValue(w, i))
         /\ BehindValue(w, i + 1) <=> IsValue(c)
<1>1. i + 1 <= Len(w) /\ w[i + 1] = c /\ Len(w) \in Nat
  <2>1. Len(<<c>>) = 1
    OBVIOUS
  <2>. QED
    BY <2>1, LenProperties, OneToken DEF Segment
<1>2. i \in 0..Len(w) /\ i < Len(w) /\ (i + 1) - 1 = i /\ (i + 1 > 1 <=> i > 0) /\ i + 1 > 0
  BY <1>1
<1> DEFINE b == i + 1 > 1 /\ IsValue(w[(i + 1) - 1])
<1>3. TokensUpTo(w, i + 1) = TokensUpTo(w, i) \o TokensOf(w[i + 1], b)
  BY <1>2, TokensRead
<1>4. b <=> BehindValue(w, i)
  BY <1>2 DEF BehindValue
<1> HIDE DEF b
<1>5. TokensOf(c, b) = TokensOf(c, BehindValue(w, i))
  BY <1>4 DEF TokensOf
<1>. QED
  BY <1>1, <1>2, <1>3, <1>5 DEF BehindValue

(* A phrase that does not stand behind a value is read as it should be,    *)
(* and ends with a value.                                                  *)
Tokenizes(w, d) ==
  \A i \in Nat : Segment(w, i, d.text) /\ ~BehindValue(w, i) =>
    /\ TokensUpTo(w, i + Len(d.text)) = TokensUpTo(w, i) \o d.tokens
    /\ BehindValue(w, i + Len(d.text))

(* The first character of a stretch, and what follows it.                  *)
StartsWith(w, i, c, t, r) ==
  Segment(w, i, <<c>>) /\ Segment(w, i + 1, t) /\ Len(r) = 1 + Len(t) /\ Len(t) \in Nat

LEMMA SegmentHead ==
  ASSUME NEW w \in Seq(Alphabet), NEW i \in Nat, NEW c \in Alphabet, NEW t \in Seq(Alphabet),
         NEW r, r = <<c>> \o t, Segment(w, i, r)
  PROVE  StartsWith(w, i, c, t, r)
<1>1. <<c>> \in Seq(Alphabet) /\ Len(<<c>>) = 1
  OBVIOUS
<1>2. ASSUME NEW y \in Seq(Alphabet), Segment(w, i, y \o t)
      PROVE  /\ Segment(w, i, y) /\ Segment(w, i + Len(y), t)
             /\ Len(y \o t) = Len(y) + Len(t) /\ Len(t) \in Nat
  BY <1>2, SegmentParts
<1>. QED
  BY <1>1, <1>2 DEF StartsWith

LEMMA ReadInThree ==
  ASSUME NEW w \in Seq(Alphabet), NEW i \in Nat, i <= Len(w), NEW j, NEW k, NEW l,
         NEW x \in Seq(Alphabet), NEW y \in Seq(Alphabet), NEW z \in Seq(Alphabet),
         TokensUpTo(w, j) = TokensUpTo(w, i) \o x,
         TokensUpTo(w, k) = TokensUpTo(w, j) \o y,
         TokensUpTo(w, l) = TokensUpTo(w, k) \o z
  PROVE  TokensUpTo(w, l) = TokensUpTo(w, i) \o ((x \o y) \o z)
<1> DEFINE u == TokensUpTo(w, i)
<1>1. u \in Seq(Alphabet)
  <2>1. i \in 0..Len(w)
    BY LenProperties
  <2>. QED
    BY <2>1, TokensRead
<1>2. x \o y \in Seq(Alphabet)
  BY ConcatProperties
<1> HIDE DEF u
<1>3. (u \o x) \o y = u \o (x \o y)
  BY <1>1, Associates
<1>4. (u \o (x \o y)) \o z = u \o ((x \o y) \o z)
  BY <1>1, <1>2, Associates
<1>. QED
  BY <1>3, <1>4 DEF u

LEMMA TokenizesNumber ==
  ASSUME NEW w \in Seq(Alphabet), NEW c \in Numbers
  PROVE  Tokenizes(w, Number(c))
<1> DEFINE d == Number(c)
<1>1. SUFFICES ASSUME NEW i \in Nat, Segment(w, i, d.text), ~BehindValue(w, i)
               PROVE  /\ TokensUpTo(w, i + Len(d.text)) = TokensUpTo(w, i) \o d.tokens
                      /\ BehindValue(w, i + Len(d.text))
  BY DEF Tokenizes
<1>2. d.text = <<c>> /\ d.tokens = <<c>> /\ Len(d.text) = 1
  BY DEF Number
<1>3. TokensOf(c, FALSE) = <<c>> /\ IsValue(c)
  BY DEF TokensOf, IsValue, Numbers
<1>4. TokensOf(c, BehindValue(w, i)) = <<c>>
  BY <1>1, <1>3 DEF TokensOf
<1> HIDE DEF d
<1>. QED
  BY <1>1, <1>2, <1>3, <1>4, CharacterRead

(* What is in parentheses is read alike behind a function.                 *)
InParens(s) == (<<"(">> \o s) \o <<")">>

LEMMA EnclosedRead ==
  ASSUME NEW w \in Seq(Alphabet), NEW a, TypedPhrase(a), Tokenizes(w, a),
         NEW i \in Nat, Segment(w, i, InParens(a.text))
  PROVE  /\ InParens(a.text) \in Seq(Alphabet) /\ InParens(a.tokens) \in Seq(Alphabet)
         /\ TokensUpTo(w, i + Len(InParens(a.text))) = TokensUpTo(w, i) \o InParens(a.tokens)
         /\ BehindValue(w, i + Len(InParens(a.text)))
<1> DEFINE t == InParens(a.text)
           n == Len(a.text)
<1>1. /\ <<"(">> \in Seq(Alphabet) /\ <<")">> \in Seq(Alphabet)
      /\ a.text \in Seq(Alphabet) /\ a.tokens \in Seq(Alphabet) /\ n \in Nat /\ Len(w) \in Nat
  BY LenProperties DEF Alphabet, TypedPhrase
<1>2. t \in Seq(Alphabet) /\ InParens(a.tokens) \in Seq(Alphabet)
  BY <1>1, ConcatProperties DEF InParens
<1>3. /\ Segment(w, i, <<"(">>) /\ Segment(w, i + 1, a.text) /\ Segment(w, (i + 1) + n, <<")">>)
      /\ Len(t) = (1 + n) + 1
  <2>1. SplitsInto(w, i, <<"(">>, a.text, <<")">>, t)
    BY <1>1, SegmentSplit, Zenon DEF InParens
  <2>2. Len(<<"(">>) = 1 /\ Len(<<")">>) = 1
    OBVIOUS
  <2>3. n \in Nat
    BY <1>1
  <2> HIDE DEF t, n
  <2>4. i + (1 + n) = (i + 1) + n
    BY <2>3
  <2>. QED
    BY <2>1, <2>2, <2>4 DEF SplitsInto, n
<1> HIDE DEF t
<1>4. TokensUpTo(w, i + 1) = TokensUpTo(w, i) \o <<"(">> /\ ~BehindValue(w, i + 1)
  <2>1. TokensOf("(", BehindValue(w, i)) = <<"(">> /\ ~IsValue("(")
    BY DEF TokensOf, IsValue, Numbers
  <2>. QED
    BY <1>3, <2>1, CharacterRead
<1>5. TokensUpTo(w, (i + 1) + n) = TokensUpTo(w, i + 1) \o a.tokens
  <2>1. i + 1 \in Nat
    OBVIOUS
  <2>. QED
    BY <1>3, <1>4, <2>1, Zenon DEF Tokenizes
<1>6. /\ TokensUpTo(w, ((i + 1) + n) + 1) = TokensUpTo(w, (i + 1) + n) \o <<")">>
      /\ BehindValue(w, ((i + 1) + n) + 1)
  <2>1. n \in Nat
    BY <1>1
  <2> HIDE DEF n
  <2>2. (i + 1) + n \in Nat
    BY <2>1
  <2>3. TokensOf(")", BehindValue(w, (i + 1) + n)) = <<")">> /\ IsValue(")")
    BY DEF TokensOf, IsValue
  <2>. QED
    BY <1>3, <2>2, <2>3, CharacterRead
<1>7. i <= Len(w) /\ i + Len(t) = ((i + 1) + n) + 1
  <2>1. n \in Nat /\ Len(w) \in Nat /\ Len(t) = (1 + n) + 1 /\ i + Len(t) <= Len(w)
    BY <1>1, <1>3 DEF Segment, t
  <2> HIDE DEF n
  <2>. QED
    BY <2>1
<1> HIDE DEF n
<1>8. TokensUpTo(w, i + Len(t)) = TokensUpTo(w, i) \o InParens(a.tokens)
  <2> DEFINE x == a.tokens
             l == i + Len(t)
             j == i + 1
             k == (i + 1) + n
  <2>1. /\ x \in Seq(Alphabet) /\ <<"(">> \in Seq(Alphabet) /\ <<")">> \in Seq(Alphabet) /\ i <= Len(w)
        /\ TokensUpTo(w, j) = TokensUpTo(w, i) \o <<"(">>
        /\ TokensUpTo(w, k) = TokensUpTo(w, j) \o x
        /\ TokensUpTo(w, l) = TokensUpTo(w, k) \o <<")">>
    BY <1>1, <1>4, <1>5, <1>6, <1>7
  <2> HIDE DEF x, l, j, k
  <2>2. TokensUpTo(w, l) = TokensUpTo(w, i) \o ((<<"(">> \o x) \o <<")">>)
    BY <2>1, ReadInThree
  <2>. QED
    BY <2>2 DEF InParens, x, l
<1>. QED
  BY <1>2, <1>6, <1>7, <1>8 DEF t

LEMMA TokenizesGrouped ==
  ASSUME NEW w \in Seq(Alphabet), NEW a, TypedPhrase(a), Tokenizes(w, a)
  PROVE  Tokenizes(w, Grouped(a))
<1>1. Grouped(a).text = InParens(a.text) /\ Grouped(a).tokens = InParens(a.tokens)
  BY DEF Grouped, InParens
<1>. QED
  BY <1>1, EnclosedRead DEF Tokenizes

LEMMA TokenizesCalled ==
  ASSUME NEW w \in Seq(Alphabet), NEW a, TypedPhrase(a), Tokenizes(w, a)
  PROVE  Tokenizes(w, Called(a))
<1> DEFINE d == Called(a)
           t == InParens(a.text)
           u == InParens(a.tokens)
<1>1. SUFFICES ASSUME NEW i \in Nat, Segment(w, i, d.text)
               PROVE  /\ TokensUpTo(w, i + Len(d.text)) = TokensUpTo(w, i) \o d.tokens
                      /\ BehindValue(w, i + Len(d.text))
  BY DEF Tokenizes
<1>2. /\ <<"f">> \in Seq(Alphabet) /\ <<"(">> \in Seq(Alphabet) /\ <<")">> \in Seq(Alphabet)
      /\ a.text \in Seq(Alphabet) /\ a.tokens \in Seq(Alphabet) /\ Len(w) \in Nat
      /\ <<"f">> \o <<"(">> = <<"f", "(">>
  <2>1. "f" \in Alphabet /\ "(" \in Alphabet /\ ")" \in Alphabet
    BY DEF Alphabet
  <2>. QED
    BY <2>1, LenProperties, TwoTokens DEF TypedPhrase
<1>3. /\ d.text = (<<"f", "(">> \o a.text) \o <<")">>
      /\ d.tokens = (<<"f", "(">> \o a.tokens) \o <<")">>
  BY DEF Called
<1> HIDE DEF d
<1>4. /\ d.text = <<"f">> \o t /\ d.tokens = <<"f">> \o u /\ t \in Seq(Alphabet) /\ u \in Seq(Alphabet)
  <2>1. ASSUME NEW x \in Seq(Alphabet)
        PROVE  /\ (<<"f", "(">> \o x) \o <<")">> = <<"f">> \o InParens(x)
               /\ InParens(x) \in Seq(Alphabet)
    <3>1. <<"(">> \o x \in Seq(Alphabet) /\ (<<"f">> \o <<"(">>) \o x = <<"f">> \o (<<"(">> \o x)
      BY <1>2, Associates, ConcatProperties
    <3>2. (<<"f">> \o (<<"(">> \o x)) \o <<")">> = <<"f">> \o ((<<"(">> \o x) \o <<")">>)
      BY <1>2, <3>1, Associates
    <3>3. (<<"(">> \o x) \o <<")">> \in Seq(Alphabet)
      BY <1>2, <3>1, ConcatProperties
    <3>. QED
      BY <1>2, <3>1, <3>2, <3>3 DEF InParens
  <2>. QED
    BY <1>2, <1>3, <2>1
<1> HIDE DEF t, u
<1>5. /\ Segment(w, i, <<"f">>) /\ Segment(w, i + 1, t)
      /\ Len(d.text) = 1 + Len(t) /\ Len(t) \in Nat
  <2>1. "f" \in Alphabet
    BY DEF Alphabet
  <2>2. StartsWith(w, i, "f", t, d.text)
    BY <1>1, <1>4, <2>1, SegmentHead, Zenon
  <2>. QED
    BY <2>2 DEF StartsWith
<1>6. TokensUpTo(w, i + 1) = TokensUpTo(w, i) \o <<"f">>
  BY <1>5, CharacterRead DEF TokensOf
<1>7. /\ TokensUpTo(w, (i + 1) + Len(t)) = TokensUpTo(w, i + 1) \o u
      /\ BehindValue(w, (i + 1) + Len(t))
  <2>1. i + 1 \in Nat
    OBVIOUS
  <2>. QED
    BY <1>5, <2>1, EnclosedRead DEF t, u
<1>8. (i + 1) + Len(t) = i + Len(d.text) /\ i \in 0..Len(w)
  BY <1>2, <1>5 DEF Segment
<1>9. TokensUpTo(w, i) \in Seq(Alphabet)
  BY <1>8, TokensRead
<1>10. (TokensUpTo(w, i) \o <<"f">>) \o u = TokensUpTo(w, i) \o (<<"f">> \o u)
  BY <1>2, <1>4, <1>9, Associates
<1>. QED
  BY <1>4, <1>6, <1>7, <1>8, <1>10

LEMMA TokenizesSigned ==
  ASSUME NEW w \in Seq(Alphabet), NEW a, TypedPhrase(a), Tokenizes(w, a)
  PROVE  Tokenizes(w, Signed(a)) /\ Tokenizes(w, Plussed(a))
<1>1. ASSUME NEW d, NEW c \in {"+", "-"}, NEW x \in Seq(Alphabet), x = TokensOf(c, FALSE),
             d.text = <<c>> \o a.text, d.tokens = x \o a.tokens
      PROVE  Tokenizes(w, d)
  <2>1. SUFFICES ASSUME NEW i \in Nat, Segment(w, i, d.text), ~BehindValue(w, i)
                 PROVE  /\ TokensUpTo(w, i + Len(d.text)) = TokensUpTo(w, i) \o d.tokens
                        /\ BehindValue(w, i + Len(d.text))
    BY DEF Tokenizes
  <2>2. /\ <<c>> \in Seq(Alphabet) /\ Len(<<c>>) = 1 /\ a.text \in Seq(Alphabet) /\ a.tokens \in Seq(Alphabet)
        /\ Len(w) \in Nat
    BY LenProperties DEF Alphabet, Operators, TypedPhrase
  <2>3. /\ Segment(w, i, <<c>>) /\ Segment(w, i + 1, a.text)
        /\ Len(d.text) = 1 + Len(a.text) /\ Len(a.text) \in Nat
    <3>1. c \in Alphabet
      BY DEF Alphabet, Operators
    <3>2. StartsWith(w, i, c, a.text, d.text)
      BY <1>1, <2>1, <2>2, <3>1, SegmentHead, Zenon
    <3>. QED
      BY <3>2 DEF StartsWith
  <2>4. ~IsValue(c) /\ TokensOf(c, BehindValue(w, i)) = TokensOf(c, FALSE)
    BY <2>1 DEF IsValue, Numbers, TokensOf
  <2>5. TokensUpTo(w, i + 1) = TokensUpTo(w, i) \o x /\ ~BehindValue(w, i + 1)
    BY <1>1, <2>3, <2>4, CharacterRead
  <2>6. /\ TokensUpTo(w, (i + 1) + Len(a.text)) = TokensUpTo(w, i + 1) \o a.tokens
        /\ BehindValue(w, (i + 1) + Len(a.text))
    <3>1. i + 1 \in Nat
      OBVIOUS
    <3>. QED
      BY <2>3, <2>5, <3>1, Zenon DEF Tokenizes
  <2>7. (i + 1) + Len(a.text) = i + Len(d.text) /\ i \in 0..Len(w)
    <3> DEFINE n == Len(a.text)
               m == Len(d.text)
               q == Len(w)
    <3>1. n \in Nat /\ m = 1 + n /\ q \in Nat /\ i + m <= q
      BY <2>1, <2>2, <2>3 DEF Segment
    <3> HIDE DEF n, m, q
    <3>2. (i + 1) + n = i + m /\ i \in 0..q
      BY <3>1
    <3>. QED
      BY <3>2 DEF n, m, q
  <2>8. TokensUpTo(w, i) \in Seq(Alphabet)
    BY <2>7, TokensRead
  <2>9. (TokensUpTo(w, i) \o x) \o a.tokens = TokensUpTo(w, i) \o (x \o a.tokens)
    BY <2>2, <2>8, Associates
  <2>. QED
    BY <1>1, <2>5, <2>6, <2>7, <2>9
<1>2. Tokenizes(w, Signed(a))
  <2>1. TokensOf("-", FALSE) = <<"0", "-">> /\ <<"0", "-">> \in Seq(Alphabet)
    BY DEF TokensOf, Alphabet, Numbers, Operators
  <2>2. Signed(a).text = <<"-">> \o a.text /\ Signed(a).tokens = <<"0", "-">> \o a.tokens
    BY DEF Signed
  <2>. QED
    BY <1>1, <2>1, <2>2
<1>3. Tokenizes(w, Plussed(a))
  <2>1. TokensOf("+", FALSE) = <<>> /\ <<>> \in Seq(Alphabet) /\ a.tokens \in Seq(Alphabet)
    BY DEF TokensOf, TypedPhrase
  <2>2. Plussed(a).text = <<"+">> \o a.text /\ Plussed(a).tokens = <<>> \o a.tokens
    BY <2>1, ConcatEmptySeq DEF Plussed
  <2>. QED
    BY <1>1, <2>1, <2>2
<1>. QED
  BY <1>2, <1>3

LEMMA TokenizesJoined ==
  ASSUME NEW w \in Seq(Alphabet), NEW op \in Operators,
         NEW a, TypedPhrase(a), Tokenizes(w, a), NEW b, TypedPhrase(b), Tokenizes(w, b)
  PROVE  Tokenizes(w, Joined(a, op, b))
<1> DEFINE d == Joined(a, op, b)
           n == Len(a.text)
           m == Len(b.text)
<1>1. SUFFICES ASSUME NEW i \in Nat, Segment(w, i, d.text), ~BehindValue(w, i)
               PROVE  /\ TokensUpTo(w, i + Len(d.text)) = TokensUpTo(w, i) \o d.tokens
                      /\ BehindValue(w, i + Len(d.text))
  BY DEF Tokenizes
<1>2. /\ d.text = (a.text \o <<op>>) \o b.text /\ d.tokens = (a.tokens \o <<op>>) \o b.tokens
      /\ <<op>> \in Seq(Alphabet) /\ a.text \in Seq(Alphabet) /\ a.tokens \in Seq(Alphabet)
      /\ b.text \in Seq(Alphabet) /\ b.tokens \in Seq(Alphabet)
      /\ n \in Nat /\ m \in Nat /\ Len(w) \in Nat
  <2>1. d.text = (a.text \o <<op>>) \o b.text /\ d.tokens = (a.tokens \o <<op>>) \o b.tokens
    BY DEF Joined
  <2>2. /\ <<op>> \in Seq(Alphabet) /\ a.text \in Seq(Alphabet) /\ a.tokens \in Seq(Alphabet)
        /\ b.text \in Seq(Alphabet) /\ b.tokens \in Seq(Alphabet)
    BY DEF Alphabet, TypedPhrase
  <2>. QED
    BY <2>1, <2>2, LenProperties
<1>3. /\ Segment(w, i, a.text) /\ Segment(w, i + n, <<op>>) /\ Segment(w, (i + n) + 1, b.text)
      /\ Len(d.text) = (n + 1) + m
  <2>1. SplitsInto(w, i, a.text, <<op>>, b.text, d.text)
    BY <1>1, <1>2, SegmentSplit, Zenon
  <2>2. Len(<<op>>) = 1 /\ i + (n + 1) = (i + n) + 1
    BY <1>2
  <2> HIDE DEF d, m
  <2>. QED
    BY <2>1, <2>2 DEF SplitsInto, m
<1> HIDE DEF d
<1>4. TokensUpTo(w, i + n) = TokensUpTo(w, i) \o a.tokens /\ BehindValue(w, i + n)
  BY <1>1, <1>3 DEF Tokenizes
<1>5. TokensUpTo(w, (i + n) + 1) = TokensUpTo(w, i + n) \o <<op>> /\ ~BehindValue(w, (i + n) + 1)
  <2>1. i + n \in Nat /\ TokensOf(op, TRUE) = <<op>> /\ ~IsValue(op)
    BY <1>2 DEF TokensOf, IsValue, Numbers, Operators
  <2>2. TokensOf(op, BehindValue(w, i + n)) = <<op>>
    BY <1>4, <2>1 DEF TokensOf
  <2> HIDE DEF n
  <2>. QED
    BY <1>3, <2>1, <2>2, CharacterRead
<1>6. /\ TokensUpTo(w, ((i + n) + 1) + m) = TokensUpTo(w, (i + n) + 1) \o b.tokens
      /\ BehindValue(w, ((i + n) + 1) + m)
  <2>1. (i + n) + 1 \in Nat
    BY <1>2
  <2>. QED
    BY <1>3, <1>5, <2>1 DEF Tokenizes
<1>7. i <= Len(w) /\ i + Len(d.text) = ((i + n) + 1) + m
  <2>1. n \in Nat /\ m \in Nat /\ Len(w) \in Nat /\ Len(d.text) = (n + 1) + m /\ i + Len(d.text) <= Len(w)
    BY <1>1, <1>2, <1>3 DEF Segment
  <2> HIDE DEF n, m
  <2>. QED
    BY <2>1
<1> HIDE DEF n, m
<1>8. TokensUpTo(w, i + Len(d.text)) = TokensUpTo(w, i) \o d.tokens
  <2> DEFINE r == TokensUpTo(w, i)
  <2>1. r \in Seq(Alphabet)
    <3>1. i \in 0..Len(w)
      BY <1>2, <1>7
    <3>. QED
      BY <3>1, TokensRead
  <2>2. a.tokens \o <<op>> \in Seq(Alphabet)
    BY <1>2, ConcatProperties
  <2> HIDE DEF r
  <2>3. (r \o a.tokens) \o <<op>> = r \o (a.tokens \o <<op>>)
    BY <1>2, <2>1, Associates, Zenon
  <2>4. (r \o (a.tokens \o <<op>>)) \o b.tokens = r \o ((a.tokens \o <<op>>) \o b.tokens)
    BY <1>2, <2>1, <2>2, Associates, Zenon
  <2>. QED
    BY <1>2, <1>4, <1>5, <1>6, <1>7, <2>3, <2>4 DEF r
<1>. QED
  BY <1>6, <1>7, <1>8

(* The tokens of the text of a phrase are those of the phrase.             *)
LEMMA PhraseTokens ==
  ASSUME NEW e \in Phrases
  PROVE  TokensIn(e.text) = e.tokens
<1> DEFINE w == e.text
           G == {d \in Phrases : Tokenizes(w, d)}
<1>1. w \in Seq(Alphabet)
  BY PhrasesTyped DEF TypedPhrase
<1> HIDE DEF w
<1>2. \A c \in Numbers : Number(c) \in Phrases => Number(c) \in G
  BY <1>1, TokenizesNumber
<1>3. \A a \in Phrases \cap G : /\ Grouped(a) \in Phrases => Grouped(a) \in G
                                /\ Called(a) \in Phrases => Called(a) \in G
  BY <1>1, PhrasesTyped, TokenizesGrouped, TokenizesCalled
<1>4. \A a \in Phrases \cap G : a.binds > 1 => /\ Signed(a) \in Phrases => Signed(a) \in G
                                               /\ Plussed(a) \in Phrases => Plussed(a) \in G
  BY <1>1, PhrasesTyped, TokenizesSigned
<1>5. \A a, b \in Phrases \cap G, op \in Operators :
        Joins(a, op, b) /\ Joined(a, op, b) \in Phrases => Joined(a, op, b) \in G
  BY <1>1, PhrasesTyped, TokenizesJoined
<1>6. Tokenizes(w, e)
  <2> HIDE DEF G
  <2>1. Phrases \subseteq G
    BY <1>2, <1>3, <1>4, <1>5, PhraseInduction, Zenon
  <2>. QED
    BY <2>1 DEF G
<1>7. Segment(w, 0, w) /\ 0 + Len(w) = Len(w) /\ ~BehindValue(w, 0)
  BY <1>1, WholeSegment DEF BehindValue
<1>8. TokensUpTo(w, 0 + Len(w)) = TokensUpTo(w, 0) \o e.tokens
  BY <1>6, <1>7 DEF Tokenizes, w
<1>9. TokensIn(w) = <<>> \o e.tokens
  BY <1>1, <1>7, <1>8, TokensRead
<1>10. e.tokens \in Seq(Alphabet)
  BY PhrasesTyped DEF TypedPhrase
<1>. QED
  BY <1>9, <1>10, ConcatEmptySeq DEF w

(* How deep the parser is in parentheses.                                  *)
LEMMA CountNext ==
  ASSUME NEW s, NEW n \in Nat, NEW c
  PROVE  /\ Count(s, n, c) \in Nat
         /\ s[n + 1] = c => Count(s, n + 1, c) = Count(s, n, c) + 1
         /\ s[n + 1] # c => Count(s, n + 1, c) = Count(s, n, c)
         /\ Count(s, 0, c) = 0
<1> DEFINE A == {i \in 1..n : s[i] = c}
           B == {i \in 1..(n + 1) : s[i] = c}
<1>1. IsFiniteSet(A) /\ Cardinality(A) \in Nat
  <2>1. IsFiniteSet(1..n) /\ A \in SUBSET (1..n)
    BY FS_Interval
  <2>2. IsFiniteSet(A)
    BY <2>1, FS_Subset
  <2>. QED
    BY <2>2, FS_CardinalityType
<1>2. ASSUME s[n + 1] = c PROVE Cardinality(B) = Cardinality(A) + 1
  <2>1. B = A \cup {n + 1} /\ n + 1 \notin A
    BY <1>2
  <2> HIDE DEF A, B
  <2>. QED
    BY <1>1, <2>1, FS_AddElement
<1>3. ASSUME s[n + 1] # c PROVE B = A
  BY <1>3
<1>4. {i \in 1..0 : s[i] = c} = {}
  OBVIOUS
<1>5. Count(s, n, c) = Cardinality(A) /\ Count(s, n + 1, c) = Cardinality(B) /\ Count(s, 0, c) = Cardinality({})
  BY <1>4 DEF Count
<1> HIDE DEF A, B
<1>. QED
  BY <1>1, <1>2, <1>3, <1>5, FS_EmptySet

(* What is read keeps the parentheses, and their order.                    *)
LEMMA CountInFront ==
  ASSUME NEW s \in Seq(Alphabet), NEW t \in Seq(Alphabet), NEW n \in 0..Len(s), NEW c
  PROVE  Count(s \o t, n, c) = Count(s, n, c)
<1>1. \A i \in 1..n : (s \o t)[i] = s[i]
  BY ConcatProperties, LenProperties
<1>2. {i \in 1..n : (s \o t)[i] = c} = {i \in 1..n : s[i] = c}
  BY <1>1
<1>. QED
  BY <1>2 DEF Count

LEMMA CountOneMore ==
  ASSUME NEW s \in Seq(Alphabet), NEW x \in Alphabet, NEW c
  PROVE  /\ s \o <<x>> \in Seq(Alphabet) /\ Len(s \o <<x>>) = Len(s) + 1
         /\ Count(s \o <<x>>, Len(s) + 1, c) = IF x = c THEN Count(s, Len(s), c) + 1 ELSE Count(s, Len(s), c)
<1> DEFINE u == s \o <<x>>
<1>1. /\ u \in Seq(Alphabet) /\ Len(u) = Len(s) + 1 /\ Len(s) \in Nat /\ u[Len(s) + 1] = x
      /\ Len(s) \in 0..Len(s) /\ <<x>> \in Seq(Alphabet)
  <2>1. <<x>> \in Seq(Alphabet) /\ Len(<<x>>) = 1 /\ 1 \in 1..1 /\ <<x>>[1] = x
    OBVIOUS
  <2>. QED
    BY <2>1, ConcatProperties, LenProperties
<1>2. Count(u, Len(s), c) = Count(s, Len(s), c)
  BY <1>1, CountInFront
<1> HIDE DEF u
<1>3. Count(u, Len(s) + 1, c) = IF u[Len(s) + 1] = c THEN Count(u, Len(s), c) + 1 ELSE Count(u, Len(s), c)
  <2>1. ASSUME NEW n \in Nat
        PROVE  /\ u[n + 1] = c => Count(u, n + 1, c) = Count(u, n, c) + 1
               /\ u[n + 1] # c => Count(u, n + 1, c) = Count(u, n, c)
    BY CountNext, Zenon
  <2>. QED
    BY <1>1, <2>1
<1>. QED
  BY <1>1, <1>2, <1>3 DEF u

SameDepth(u, m, text, j) ==
  Count(u, m, "(") = Count(text, j, "(") /\ Count(u, m, ")") = Count(text, j, ")")

Follows(text, k) ==
  \A j \in 0..k : \E m \in 0..Len(TokensUpTo(text, k)) :
    /\ SameDepth(TokensUpTo(text, k), m, text, j)
    /\ j = k => m = Len(TokensUpTo(text, k))

LEMMA FollowsNext ==
  ASSUME NEW text \in Seq(Alphabet), NEW k \in 0..Len(text), k < Len(text), Follows(text, k)
  PROVE  Follows(text, k + 1)
<1> DEFINE u == TokensUpTo(text, k)
           v == TokensUpTo(text, k + 1)
           c == text[k + 1]
           b == k + 1 > 1 /\ IsValue(text[(k + 1) - 1])
           t == TokensOf(c, b)
<1>1. /\ u \in Seq(Alphabet) /\ v \in Seq(Alphabet) /\ v = u \o t /\ c \in Alphabet
      /\ k \in Nat /\ k + 1 \in 1..Len(text)
  <2>1. Len(text) \in Nat /\ k + 1 \in 0..Len(text) /\ k + 1 \in 1..Len(text)
    BY LenProperties
  <2>. QED
    BY <2>1, TokensRead, ElementOfSeq
<1>2. t \in {<<"0", "-">>, <<>>, <<c>>} /\ (t # <<c>> => c # "(" /\ c # ")")
  BY DEF TokensOf
<1> HIDE DEF u, v, t, c, b
<1>3. t \in Seq(Alphabet) /\ <<"0", "-">> = <<"0">> \o <<"-">> /\ "0" \in Alphabet /\ "-" \in Alphabet
  BY <1>1, <1>2 DEF Alphabet, Numbers, Operators
<1>4. Len(v) = Len(u) + Len(t) /\ Len(u) \in Nat /\ Len(t) \in Nat
  BY <1>1, <1>3, ConcatProperties, LenProperties
<1>5. PICK m \in 0..Len(u) : SameDepth(u, m, text, k) /\ m = Len(u)
  BY <1>1 DEF Follows, u
<1>6. ASSUME NEW p \in {"(", ")"}
      PROVE  Count(v, Len(v), p) = Count(text, k + 1, p)
  <2>1. Count(text, k + 1, p) = IF c = p THEN Count(text, k, p) + 1 ELSE Count(text, k, p)
    BY <1>1, CountNext DEF c
  <2>2. Count(u, Len(u), p) = Count(text, k, p)
    BY <1>5 DEF SameDepth
  <2>3. CASE t = <<c>>
    <3>1. Len(v) = Len(u) + 1 /\ Count(v, Len(u) + 1, p) = IF c = p THEN Count(u, Len(u), p) + 1 ELSE Count(u, Len(u), p)
      BY <1>1, <2>3, CountOneMore
    <3>. QED
      BY <2>1, <2>2, <3>1
  <2>4. CASE t = <<>> /\ c # p
    <3>1. v = u
      BY <1>1, <2>4, ConcatEmptySeq
    <3>. QED
      BY <2>1, <2>2, <2>4, <3>1
  <2>5. CASE t = <<"0", "-">> /\ c # p
    <3> DEFINE x == u \o <<"0">>
    <3>1. x \in Seq(Alphabet) /\ Len(x) = Len(u) + 1 /\ Count(x, Len(u) + 1, p) = Count(u, Len(u), p)
      BY <1>1, <1>3, CountOneMore
    <3>2. v = x \o <<"-">>
      <4>1. <<"0">> \in Seq(Alphabet) /\ <<"-">> \in Seq(Alphabet)
        BY <1>3
      <4>2. (u \o <<"0">>) \o <<"-">> = u \o (<<"0">> \o <<"-">>)
        BY <1>1, <4>1, Associates
      <4>. QED
        BY <1>1, <1>3, <2>5, <4>2
    <3> HIDE DEF x
    <3>3. Len(v) = Len(x) + 1 /\ Count(v, Len(x) + 1, p) = Count(x, Len(x), p)
      BY <1>3, <3>1, <3>2, CountOneMore
    <3>. QED
      BY <2>1, <2>2, <2>5, <3>1, <3>3
  <2>. QED
    BY <1>2, <2>3, <2>4, <2>5
<1>7. ASSUME NEW j \in 0..(k + 1)
      PROVE  \E n \in 0..Len(v) : SameDepth(v, n, text, j) /\ (j = k + 1 => n = Len(v))
  <2>1. CASE j = k + 1
    BY <1>4, <1>6, <2>1 DEF SameDepth
  <2>2. CASE j # k + 1
    <3>1. j \in 0..k
      BY <1>1, <2>2
    <3>2. PICK n \in 0..Len(u) : SameDepth(u, n, text, j)
      BY <3>1 DEF Follows, u
    <3>3. Count(v, n, "(") = Count(u, n, "(") /\ Count(v, n, ")") = Count(u, n, ")") /\ n \in 0..Len(v)
      BY <1>1, <1>3, <1>4, <3>2, CountInFront
    <3>. QED
      BY <2>2, <3>2, <3>3 DEF SameDepth
  <2>. QED
    BY <2>1, <2>2
<1>. QED
  BY <1>7 DEF Follows, v

LEMMA MatchedText ==
  ASSUME NEW text \in Seq(Alphabet), Matched(TokensIn(text))
  PROVE  Matched(text)
<1> DEFINE n == Len(text)
           w == TokensIn(text)
           Bad == {k \in 0..n : ~Follows(text, k)}
<1>1. n \in Nat /\ n \in 0..n /\ TokensUpTo(text, n) = w /\ TokensUpTo(text, 0) = <<>>
  <2>1. n \in Nat /\ n \in 0..n
    BY LenProperties
  <2>. QED
    BY <2>1, TokensRead
<1> HIDE DEF n, w
<1>2. Follows(text, 0)
  <2>1. 0 \in 0..Len(<<>>) /\ Len(<<>>) = 0 /\ \A j \in 0..0 : j = 0
    OBVIOUS
  <2>2. SameDepth(<<>>, 0, text, 0)
    BY CountNext DEF SameDepth
  <2>. QED
    BY <1>1, <2>1, <2>2 DEF Follows
<1>3. Follows(text, n)
  <2>1. SUFFICES ASSUME Bad # {} PROVE FALSE
    BY <1>1
  <2>2. PICK k \in Bad : \A j \in Bad : k <= j
    <3>1. Bad \subseteq Nat
      BY <1>1
    <3> HIDE DEF Bad
    <3>. QED
      BY <2>1, <3>1, LeastExists, Zenon
  <2>3. k \in 0..n /\ ~Follows(text, k) /\ k # 0
    BY <1>2, <2>2
  <2>4. k - 1 \in 0..n /\ k - 1 < n /\ (k - 1) + 1 = k /\ ~(k <= k - 1)
    BY <1>1, <2>3
  <2>5. Follows(text, k - 1)
    BY <2>2, <2>4
  <2>. QED
    BY <2>3, <2>4, <2>5, FollowsNext DEF n
<1>4. ASSUME NEW j \in 0..n PROVE Count(text, j, ")") <= Count(text, j, "(")
  <2>1. PICK m \in 0..Len(w) : SameDepth(w, m, text, j)
    BY <1>1, <1>3 DEF Follows
  <2>. QED
    BY <2>1 DEF SameDepth, Matched, w
<1>5. Count(text, n, ")") = Count(text, n, "(")
  <2>1. SameDepth(w, Len(w), text, n)
    BY <1>1, <1>3 DEF Follows
  <2>. QED
    BY <2>1 DEF SameDepth, Matched, w
<1>. QED
  BY <1>4, <1>5 DEF Matched, n

LEMMA OpeningFinite ==
  ASSUME NEW s \in Seq(Alphabet)
  PROVE  IsFiniteSet(Opening(s)) /\ Cardinality(Opening(s)) \in Nat /\ Opening(s) \subseteq 1..Len(s)
<1>1. Len(s) \in Nat /\ DOMAIN s = 1..Len(s)
  OBVIOUS
<1>2. IsFiniteSet(1..Len(s)) /\ Opening(s) \in SUBSET (1..Len(s))
  BY <1>1, FS_Interval DEF Opening
<1>3. IsFiniteSet(Opening(s))
  BY <1>2, FS_Subset
<1>. QED
  BY <1>2, <1>3, FS_CardinalityType

LEMMA OpeningAppend ==
  ASSUME NEW s \in Seq(Alphabet), NEW t \in Alphabet
  PROVE  Cardinality(Opening(Append(s, t))) =
           IF t = "(" THEN Cardinality(Opening(s)) + 1 ELSE Cardinality(Opening(s))
<1> DEFINE u == Append(s, t)
<1>1. /\ Len(u) = Len(s) + 1 /\ Len(s) \in Nat /\ u \in Seq(Alphabet) /\ u[Len(s) + 1] = t
      /\ DOMAIN u = 1..Len(u) /\ DOMAIN s = 1..Len(s)
      /\ \A i \in 1..Len(s) : u[i] = s[i]
  BY AppendProperties
<1> HIDE DEF u
<1>2. ASSUME t = "(" PROVE Opening(u) = Opening(s) \cup {Len(s) + 1} /\ Len(s) + 1 \notin Opening(s)
  BY <1>1, <1>2 DEF Opening
<1>3. ASSUME t # "(" PROVE Opening(u) = Opening(s)
  BY <1>1, <1>3 DEF Opening
<1>4. IsFiniteSet(Opening(s)) /\ Cardinality(Opening(s)) \in Nat
  BY OpeningFinite
<1>5. t = "(" => Cardinality(Opening(u)) = Cardinality(Opening(s)) + 1
  BY <1>2, <1>4, FS_AddElement
<1>. QED
  BY <1>3, <1>5 DEF u

LEMMA OpeningBelow ==
  ASSUME NEW s \in Seq(Alphabet), NEW n \in 0..Len(s)
  PROVE  Opening(SubSeq(s, 1, n)) = {i \in Opening(s) : i <= n}
<1> DEFINE u == SubSeq(s, 1, n)
<1>1. /\ u \in Seq(Alphabet) /\ Len(u) = n /\ \A i \in 1..n : u[i] = s[i]
      /\ DOMAIN s = 1..Len(s) /\ Len(s) \in Nat
  BY PartsOfStack
<1>2. DOMAIN u = 1..n
  BY <1>1
<1> HIDE DEF u
<1>3. Opening(u) = {i \in Opening(s) : i <= n}
  BY <1>1, <1>2 DEF Opening
<1>. QED
  BY <1>3 DEF u

(* A step opens or closes at most the parenthesis it reads.                *)
LEMMA OpeningStep ==
  ASSUME NEW c \in Config, NEW t \in Alphabet, NEW d, Reads(c, t, d)
  PROVE  Cardinality(Opening(d.stack)) =
           IF t = "(" THEN Cardinality(Opening(c.stack)) + 1
           ELSE IF t = ")" THEN Cardinality(Opening(c.stack)) - 1
           ELSE Cardinality(Opening(c.stack))
<1> DEFINE s == c.stack
<1>1. s \in Seq(Alphabet) /\ Len(s) \in Nat /\ IsFiniteSet(Opening(s)) /\ Opening(s) \subseteq 1..Len(s)
  BY OpeningFinite DEF Config
<1> HIDE DEF s
<1>2. ASSUME t \in Numbers, d = [stack |-> c.stack, out |-> Append(c.out, t)]
      PROVE  t # "(" /\ t # ")" /\ d.stack = s
  BY <1>2 DEF Numbers, s
<1>3. ASSUME t \in {"f", "("}, d = [stack |-> Append(c.stack, t), out |-> c.out]
      PROVE  t # ")" /\ Cardinality(Opening(d.stack)) = IF t = "(" THEN Cardinality(Opening(s)) + 1 ELSE Cardinality(Opening(s))
  <2>1. d.stack = Append(s, t)
    BY <1>3 DEF s
  <2>. QED
    BY <1>1, <1>3, <2>1, OpeningAppend, ZenonT(60)
<1>4. ASSUME t \in Operators, ReadsOperator(c, t, d)
      PROVE  t # "(" /\ t # ")" /\ Cardinality(Opening(d.stack)) = Cardinality(Opening(s))
  <2> DEFINE h == Height(s, t)
             u == SubSeq(s, 1, h)
  <2>1. h \in Staying(s, t) /\ \A m \in Staying(s, t) : m <= h
    BY <1>1, HeightIn
  <2>2. d.stack = Append(u, t)
    BY <1>4 DEF ReadsOperator, s
  <2> HIDE DEF h
  <2>3. h \in 0..Len(s)
    BY <2>1 DEF Staying
  <2>4. u \in Seq(Alphabet) /\ Opening(u) = {i \in Opening(s) : i <= h}
    BY <1>1, <2>3, OpeningBelow, PartsOfStack
  <2>5. ASSUME NEW i \in Opening(s) PROVE i <= h
    <3>1. i \in 0..Len(s) /\ s[i] = "("
      BY <1>1 DEF Opening
    <3>2. i \in Staying(s, t)
      BY <3>1 DEF Staying, GoesFirst, Operators
    <3>. QED
      BY <2>1, <3>2
  <2>6. Opening(u) = Opening(s)
    BY <2>4, <2>5
  <2>7. t # "(" /\ t # ")"
    BY <1>4 DEF Operators
  <2> HIDE DEF u
  <2>. QED
    BY <2>2, <2>4, <2>6, <2>7, OpeningAppend
<1>5. ASSUME t = ")", ReadsClosing(c, d)
      PROVE  Cardinality(Opening(d.stack)) = Cardinality(Opening(s)) - 1
  <2> DEFINE at == LastOpen(s)
             n == IF IsCall(s) THEN at - 2 ELSE at - 1
  <2>1. at \in Opening(s) /\ \A m \in Opening(s) : m <= at
    BY <1>1, <1>5, LastOpenIn DEF ReadsClosing, s
  <2>2. d.stack = SubSeq(s, 1, n)
    BY <1>5 DEF ReadsClosing, s
  <2>3. \/ at > 1 /\ n = at - 2 /\ s[at - 1] = "f"
        \/ n = at - 1
    BY DEF IsCall
  <2> HIDE DEF at, n
  <2>4. at \in 1..Len(s) /\ n \in 0..Len(s)
    BY <1>1, <2>1, <2>3
  <2>5. Opening(d.stack) = {i \in Opening(s) : i <= n}
    BY <1>1, <2>2, <2>4, OpeningBelow
  <2>6. ASSUME NEW i \in Opening(s) PROVE i <= n <=> i # at
    <3>1. i \in 1..Len(s) /\ i <= at /\ s[i] = "("
      BY <1>1, <2>1 DEF Opening
    <3>2. i # at => i <= at - 1
      BY <2>4, <3>1
    <3>3. s[at - 1] = "f" => i # at - 1
      BY <3>1
    <3>. QED
      BY <2>3, <2>4, <3>1, <3>2, <3>3
  <2>7. Opening(d.stack) = Opening(s) \ {at}
    BY <2>5, <2>6
  <2>. QED
    BY <1>1, <2>1, <2>7, FS_RemoveElement
<1>. QED
  BY <1>2, <1>3, <1>4, <1>5 DEF Reads, s
-----------------------------------------------------------------------------
(* A run of the parser from the start, which counts the parentheses.       *)
Parses(w, run, p) ==
  /\ IsRun(w, run, p) /\ run[0] = StartConfig
  /\ \A k \in 0..p : Count(w, k, "(") = Count(w, k, ")") + Cardinality(Opening(run[k].stack))

LEMMA ParsesNothing ==
  ASSUME NEW w \in Seq(Alphabet)
  PROVE  Parses(w, [k \in 0..0 |-> StartConfig], 0)
<1> DEFINE run == [k \in 0..0 |-> StartConfig]
<1>1. StartConfig \in Config /\ StartConfig.stack = <<>>
  BY DEF StartConfig, Config
<1>2. 0 \in 0..Len(w) /\ run[0] = StartConfig /\ \A k \in 0..0 : k = 0
  BY LenProperties
<1>3. Opening(<<>>) = {} /\ Cardinality({}) = 0
  BY FS_EmptySet DEF Opening
<1>4. Count(w, 0, "(") = 0 /\ Count(w, 0, ")") = 0
  BY CountNext
<1> HIDE DEF run
<1>5. IsRun(w, run, 0)
  BY <1>1, <1>2 DEF IsRun
<1>. QED
  BY <1>1, <1>2, <1>3, <1>4, <1>5 DEF Parses, run

ParsesTo(w, p, d) == \E run : Parses(w, run, p) /\ run[p] = d

LEMMA ParsesNext ==
  ASSUME NEW w, NEW run, NEW p, Parses(w, run, p), p < Len(w), NEW d, Reads(run[p], w[p + 1], d)
  PROVE  p + 1 \in 0..Len(w) /\ d \in Config /\ ParsesTo(w, p + 1, d)
<1> DEFINE r == [k \in 0..(p + 1) |-> IF k = p + 1 THEN d ELSE run[k]]
           t == w[p + 1]
           Deep(k, c) == Count(w, k, "(") = Count(w, k, ")") + Cardinality(Opening(c.stack))
<1>1. /\ w \in Seq(Alphabet) /\ p \in 0..Len(w) /\ Len(w) \in Nat /\ p + 1 \in 1..Len(w) /\ t \in Alphabet
      /\ \A k \in 0..p : run[k] \in Config
      /\ \A k \in 1..p : Reads(run[k - 1], w[k], run[k])
  <2>1. /\ w \in Seq(Alphabet) /\ p \in 0..Len(w) /\ Len(w) \in Nat
        /\ \A k \in 0..p : run[k] \in Config
        /\ \A k \in 1..p : Reads(run[k - 1], w[k], run[k])
    BY LenProperties DEF Parses, IsRun
  <2>2. p + 1 \in 1..Len(w)
    BY <2>1
  <2>. QED
    BY <2>1, <2>2, ElementOfSeq
<1>2. run[p] \in Config /\ d \in Config
  <2>1. run[p] \in Config
    BY <1>1
  <2>. QED
    BY <1>1, <2>1, ReadsType
<1>3. r[p + 1] = d /\ \A k \in 0..p : r[k] = run[k]
  BY <1>1
<1> HIDE DEF r, t
<1>4. \A k \in 0..(p + 1) : k = p + 1 \/ k \in 0..p
  BY <1>1
<1>5. IsRun(w, r, p + 1)
  <2>1. \A k \in 0..(p + 1) : r[k] \in Config
    BY <1>1, <1>2, <1>3, <1>4
  <2>2. ASSUME NEW k \in 1..(p + 1) PROVE Reads(r[k - 1], w[k], r[k])
    <3>1. CASE k = p + 1
      <4>1. k - 1 = p /\ p \in 0..p
        BY <1>1, <3>1
      <4>. QED
        BY <1>3, <3>1, <4>1
    <3>2. CASE k # p + 1
      <4>1. k \in 1..p /\ k \in 0..p /\ k - 1 \in 0..p
        BY <1>1, <3>2
      <4>. QED
        BY <1>1, <1>3, <4>1
    <3>. QED
      BY <3>1, <3>2
  <2>3. p + 1 \in 0..Len(w)
    BY <1>1
  <2>. QED
    BY <1>1, <2>1, <2>2, <2>3 DEF IsRun
<1>6. Deep(p + 1, d)
  <2> DEFINE a == Count(w, p, "(")
             b == Count(w, p, ")")
             x == Cardinality(Opening(run[p].stack))
             y == Cardinality(Opening(d.stack))
  <2>1. a = b + x
    BY <1>1 DEF Parses
  <2>2. y = IF t = "(" THEN x + 1 ELSE IF t = ")" THEN x - 1 ELSE x
    BY <1>1, <1>2, OpeningStep, ZenonT(60) DEF t
  <2>3. /\ Count(w, p + 1, "(") = IF t = "(" THEN a + 1 ELSE a
        /\ Count(w, p + 1, ")") = IF t = ")" THEN b + 1 ELSE b
        /\ a \in Nat /\ b \in Nat
    <3>1. p \in Nat /\ t = w[p + 1]
      BY <1>1 DEF t
    <3>2. ASSUME NEW c
          PROVE  /\ Count(w, p, c) \in Nat
                 /\ w[p + 1] = c => Count(w, p + 1, c) = Count(w, p, c) + 1
                 /\ w[p + 1] # c => Count(w, p + 1, c) = Count(w, p, c)
      BY <3>1, CountNext, Zenon
    <3>. QED
      BY <3>1, <3>2
  <2>4. x \in Nat
    BY <1>2, OpeningFinite DEF Config
  <2> HIDE DEF a, b, x, y
  <2>5. (IF t = "(" THEN a + 1 ELSE a) = (IF t = ")" THEN b + 1 ELSE b) + y
    BY <2>1, <2>2, <2>3, <2>4
  <2>. QED
    BY <2>3, <2>5 DEF y
<1>7. \A k \in 0..p : Deep(k, run[k])
  BY DEF Parses
<1>8. \A k \in 0..(p + 1) : Deep(k, r[k])
  <2> HIDE DEF Deep
  <2>. QED
    BY <1>3, <1>4, <1>6, <1>7
<1>9. r[0] = StartConfig /\ p + 1 \in 0..Len(w)
  <2>1. 0 \in 0..p
    BY <1>1
  <2>. QED
    BY <1>1, <1>3, <2>1 DEF Parses
<1>10. Parses(w, r, p + 1)
  BY <1>5, <1>8, <1>9 DEF Parses
<1>. QED
  BY <1>2, <1>3, <1>9, <1>10 DEF ParsesTo

(* No parenthesis is left open only when they are matched.                 *)
LEMMA ParsedIsMatched ==
  ASSUME NEW w, NEW run, Parses(w, run, Len(w)), Opening(run[Len(w)].stack) = {}
  PROVE  Matched(w)
<1>1. /\ w \in Seq(Alphabet) /\ Len(w) \in Nat
      /\ \A k \in 0..Len(w) : run[k] \in Config
      /\ \A k \in 0..Len(w) : Count(w, k, "(") = Count(w, k, ")") + Cardinality(Opening(run[k].stack))
  BY LenProperties DEF Parses, IsRun
<1>2. ASSUME NEW k \in 0..Len(w) PROVE Count(w, k, ")") <= Count(w, k, "(") /\ Count(w, k, ")") \in Nat
  <2>1. Count(w, k, ")") \in Nat
    BY CountNext
  <2>2. Cardinality(Opening(run[k].stack)) \in Nat
    BY <1>1, OpeningFinite DEF Config
  <2>. QED
    BY <1>1, <2>1, <2>2
<1>3. Len(w) \in 0..Len(w) /\ Cardinality({}) = 0
  BY <1>1, FS_EmptySet
<1>4. Count(w, Len(w), ")") = Count(w, Len(w), "(")
  <2>1. Count(w, Len(w), "(") = Count(w, Len(w), ")") + Cardinality(Opening(run[Len(w)].stack))
    BY <1>1, <1>3
  <2>2. Cardinality(Opening(run[Len(w)].stack)) = 0
    BY <1>3
  <2>3. Count(w, Len(w), ")") \in Nat
    BY <1>2, <1>3
  <2>. QED
    BY <2>1, <2>2, <2>3
<1>. QED
  BY <1>2, <1>4 DEF Matched

LEMMA EvalNext ==
  ASSUME NEW s, NEW run, NEW p, IsEval(s, run, p), p < Len(s), NEW d, Evals(run[p], s[p + 1], d)
  PROVE  /\ p + 1 \in 0..Len(s)
         /\ \E r : IsEval(s, r, p + 1) /\ r[0] = run[0] /\ r[p + 1] = d
<1> DEFINE r == [k \in 0..(p + 1) |-> IF k = p + 1 THEN d ELSE run[k]]
<1>1. /\ s \in Seq(Alphabet) /\ p \in 0..Len(s) /\ Len(s) \in Nat
      /\ \A k \in 1..p : Evals(run[k - 1], s[k], run[k])
  BY LenProperties DEF IsEval
<1>2. r[p + 1] = d /\ \A k \in 0..p : r[k] = run[k]
  BY <1>1
<1> HIDE DEF r
<1>3. ASSUME NEW k \in 1..(p + 1) PROVE Evals(r[k - 1], s[k], r[k])
  <2>1. CASE k = p + 1
    <3>1. k - 1 = p /\ p \in 0..p
      BY <1>1, <2>1
    <3>. QED
      BY <1>2, <2>1, <3>1
  <2>2. CASE k # p + 1
    <3>1. k \in 1..p /\ k \in 0..p /\ k - 1 \in 0..p
      BY <1>1, <2>2
    <3>. QED
      BY <1>1, <1>2, <3>1
  <2>. QED
    BY <2>1, <2>2
<1>4. p + 1 \in 0..Len(s) /\ 0 \in 0..p
  BY <1>1
<1>. QED
  BY <1>1, <1>2, <1>3, <1>4 DEF IsEval

-----------------------------------------------------------------------------
(* The inductive invariant of the calculator: where in the text, the tokens *)
(* or the postfix form it is, and what it has made of what is behind it.    *)

CalcTokens == TokensIn(expr.text)

CalcInput ==
  expr.text \in Seq(Alphabet) /\ ~SignBehind(expr.text) /\ Means(expr.text, expr.tree)

Tokenizing(k) ==
  /\ rest = Upper(expr.text, k) /\ tokens = TokensUpTo(expr.text, k)
  /\ prevIsValue <=> k + 1 > 1 /\ IsValue(expr.text[(k + 1) - 1])
  /\ rpn = <<>> /\ opStack = <<>> /\ values = <<>>

Parsing(run, p) ==
  /\ Parses(CalcTokens, run, p) /\ tokens = Upper(CalcTokens, p)
  /\ run[p] = [stack |-> opStack, out |-> rpn]
  /\ values = <<>>

Evaluating(d, run, p) ==
  /\ d.tree = expr.tree
  /\ IsEval(d.postfix, run, p) /\ run[0] = <<>>
  /\ rpn = Upper(d.postfix, p) /\ values = run[p]

CalcRuns ==
  /\ CalcInput
  /\ calc \in {"tokenize", "parse", "eval", "done", "error", "undefined"}
  /\ calc = "tokenize" => \E k \in 0..Len(expr.text) : Tokenizing(k)
  /\ calc = "parse" => \E p \in 0..Len(CalcTokens) : \E run : Parsing(run, p)
  /\ calc = "eval" => IF expr.tree = <<>> THEN rpn = <<>> /\ values = <<>>
                      ELSE \E d \in Phrases : \E p \in 0..Len(d.postfix) : \E run : Evaluating(d, run, p)
  /\ EvaluatesAsMeant

(* Nothing is shown of a text with a minus behind an operator.             *)
CalcInv == SignBehind(expr.text) \/ CalcRuns

LEMMA TokensTyped ==
  ASSUME CalcInput
  PROVE  CalcTokens \in Seq(Alphabet) /\ Len(CalcTokens) \in Nat /\ Len(expr.text) \in Nat
<1>1. Len(expr.text) \in 0..Len(expr.text) /\ Len(expr.text) \in Nat
  BY LenProperties DEF CalcInput
<1>2. CalcTokens \in Seq(Alphabet)
  BY <1>1, TokensRead DEF CalcInput, CalcTokens
<1>. QED
  BY <1>1, <1>2, LenProperties

LEMMA CalcStarts ==
  ASSUME NEW e, CalcStart(e), e.text \in Seq(Alphabet), Means(e.text, e.tree)
  PROVE  CalcInv
<1> SUFFICES ASSUME ~SignBehind(e.text) PROVE CalcRuns
  BY DEF CalcStart, CalcInv
<1>1. /\ expr = e /\ rest = expr.text /\ prevIsValue = FALSE
      /\ tokens = <<>> /\ rpn = <<>> /\ opStack = <<>> /\ values = <<>> /\ calc = "tokenize"
  BY DEF CalcStart
<1>2. CalcInput
  BY <1>1 DEF CalcInput
<1>3. 0 \in 0..Len(expr.text) /\ ~(0 + 1 > 1)
  BY <1>2, TokensTyped
<1>4. Upper(expr.text, 0) = expr.text /\ TokensUpTo(expr.text, 0) = <<>>
  BY <1>2, <1>3, UpperStep, TokensRead DEF CalcInput
<1>5. Tokenizing(0)
  BY <1>1, <1>3, <1>4 DEF Tokenizing
<1>. QED
  BY <1>1, <1>2, <1>3, <1>5 DEF CalcRuns, EvaluatesAsMeant

LEMMA TokenizeStep ==
  ASSUME CalcRuns, Tokenize
  PROVE  CalcRuns'
<1>1. /\ calc = "tokenize" /\ rest # <<>> /\ rest' = Tail(rest)
      /\ tokens' = tokens \o TokensOf(Head(rest), prevIsValue)
      /\ prevIsValue' = IsValue(Head(rest))
      /\ expr' = expr /\ rpn' = rpn /\ opStack' = opStack /\ values' = values /\ calc' = calc
  BY DEF Tokenize
<1>2. CalcInput /\ CalcInput'
  BY <1>1 DEF CalcRuns, CalcInput
<1>3. PICK k \in 0..Len(expr.text) : Tokenizing(k)
  BY <1>1 DEF CalcRuns
<1> DEFINE x == expr.text
           c == x[k + 1]
           before == k + 1 > 1 /\ IsValue(x[(k + 1) - 1])
<1>4. x \in Seq(Alphabet) /\ Len(x) \in Nat
  BY <1>2, TokensTyped DEF CalcInput
<1>5. k < Len(x) /\ Head(rest) = c /\ Tail(rest) = Upper(x, k + 1)
  <2> HIDE DEF x
  <2>1. rest = Upper(x, k) /\ k \in 0..Len(x)
    BY <1>3 DEF Tokenizing, x
  <2>2. k # Len(x)
    BY <1>1, <1>4, <2>1, UpperStep
  <2>3. k < Len(x)
    BY <1>4, <2>1, <2>2
  <2>. QED
    BY <1>4, <2>1, <2>3, UpperStep
<1>6. TokensOf(c, prevIsValue) = TokensOf(c, before)
  <2>1. prevIsValue <=> before
    BY <1>3 DEF Tokenizing
  <2> HIDE DEF before, c
  <2>. QED
    BY <2>1 DEF TokensOf
<1>7. tokens' = TokensUpTo(x, k + 1)
  <2>1. tokens = TokensUpTo(x, k)
    BY <1>3 DEF Tokenizing
  <2>2. TokensUpTo(x, k + 1) = TokensUpTo(x, k) \o TokensOf(c, before)
    BY <1>3, <1>4, <1>5, TokensRead
  <2> HIDE DEF x, c, before
  <2>. QED
    BY <1>1, <1>5, <1>6, <2>1, <2>2
<1>8. k + 1 \in 0..Len(x) /\ (k + 1) + 1 > 1 /\ ((k + 1) + 1) - 1 = k + 1
  BY <1>3, <1>4, <1>5
<1>9. Tokenizing(k + 1)'
  <2>1. rest' = Upper(x, k + 1) /\ (prevIsValue' <=> IsValue(x[k + 1]))
    BY <1>1, <1>5
  <2>2. rpn' = <<>> /\ opStack' = <<>> /\ values' = <<>> /\ expr' = expr
    BY <1>1, <1>3 DEF Tokenizing
  <2>. QED
    BY <1>7, <1>8, <2>1, <2>2 DEF Tokenizing
<1>10. k + 1 \in 0..Len(expr'.text) /\ calc' = "tokenize"
  BY <1>1, <1>8
<1>. QED
  BY <1>2, <1>9, <1>10 DEF CalcRuns, EvaluatesAsMeant

LEMMA TokenizedStep ==
  ASSUME CalcRuns, Tokenized
  PROVE  CalcRuns'
<1>1. /\ calc = "tokenize" /\ rest = <<>> /\ calc' = "parse"
      /\ expr' = expr /\ tokens' = tokens /\ rpn' = rpn /\ opStack' = opStack /\ values' = values
  BY DEF Tokenized
<1>2. CalcInput /\ CalcInput'
  BY <1>1 DEF CalcRuns, CalcInput
<1>3. PICK k \in 0..Len(expr.text) : Tokenizing(k)
  BY <1>1 DEF CalcRuns
<1>4. expr.text \in Seq(Alphabet)
  BY <1>2 DEF CalcInput
<1>5. k = Len(expr.text)
  BY <1>1, <1>3, <1>4, UpperStep DEF Tokenizing
<1>6. tokens = CalcTokens
  BY <1>3, <1>4, <1>5, TokensRead DEF Tokenizing, CalcTokens
<1>7. CalcTokens \in Seq(Alphabet) /\ 0 \in 0..Len(CalcTokens)
  BY <1>2, TokensTyped
<1> DEFINE run == [j \in 0..0 |-> StartConfig]
<1>8. Parses(CalcTokens, run, 0) /\ Upper(CalcTokens, 0) = CalcTokens
  BY <1>7, ParsesNothing, UpperStep
<1>9. run[0] = [stack |-> opStack', out |-> rpn'] /\ values' = <<>>
  BY <1>1, <1>3 DEF Tokenizing, StartConfig
<1> HIDE DEF run
<1>10. Parsing(run, 0)' /\ 0 \in 0..Len(CalcTokens')
  BY <1>1, <1>6, <1>7, <1>8, <1>9 DEF Parsing, CalcTokens
<1>. QED
  BY <1>1, <1>2, <1>10 DEF CalcRuns, EvaluatesAsMeant
(* While a phrase is parsed nothing is refused, as far as it has come.     *)
LEMMA ParsingPhrase ==
  ASSUME CalcInput, expr.tree # <<>>, NEW p, NEW run, Parses(CalcTokens, run, p)
  PROVE  /\ p < Len(CalcTokens) /\ CalcTokens[p + 1] = ")" => Opening(run[p].stack) # {}
         /\ p = Len(CalcTokens) =>
              /\ Opening(run[p].stack) = {}
              /\ \E d \in Phrases : d.tree = expr.tree /\ run[p].out \o Reverse(run[p].stack) = d.postfix
<1>1. PICK d \in Phrases : d.tokens = CalcTokens /\ d.tree = expr.tree
  <2>1. PICK d \in Phrases : d.text = expr.text /\ d.tree = expr.tree
    BY DEF CalcInput, Means
  <2>. QED
    BY <2>1, PhraseTokens DEF CalcTokens
<1>2. IsRun(d.tokens, run, p) /\ run[0] = StartConfig
  BY <1>1 DEF Parses
<1>3. /\ p < Len(d.tokens) /\ d.tokens[p + 1] = ")" => Opening(run[p].stack) # {}
      /\ p = Len(d.tokens) => /\ Opening(run[p].stack) = {}
                              /\ run[p].out \o Reverse(run[p].stack) = d.postfix
  BY <1>2, PhraseIsParsed
<1>. QED
  BY <1>1, <1>3

(* Where the next token stands, and what the parser makes of it.           *)
LEMMA NextToken ==
  ASSUME CalcInput, NEW p \in 0..Len(CalcTokens), NEW run, Parsing(run, p)
  PROVE  /\ p \in Nat /\ run[p].stack = opStack /\ run[p].out = rpn
         /\ tokens = <<>> <=> p = Len(CalcTokens)
         /\ tokens # <<>> => /\ p < Len(CalcTokens) /\ Head(tokens) = CalcTokens[p + 1]
                             /\ Tail(tokens) = Upper(CalcTokens, p + 1)
<1>1. CalcTokens \in Seq(Alphabet) /\ Len(CalcTokens) \in Nat
  BY TokensTyped
<1>2. tokens = Upper(CalcTokens, p) /\ run[p] = [stack |-> opStack, out |-> rpn]
  BY DEF Parsing
<1>3. p = Len(CalcTokens) <=> tokens = <<>>
  BY <1>1, <1>2, UpperStep
<1>4. p # Len(CalcTokens) => p < Len(CalcTokens)
  BY <1>1
<1>5. p < Len(CalcTokens) => /\ Head(tokens) = CalcTokens[p + 1]
                             /\ Tail(tokens) = Upper(CalcTokens, p + 1)
  BY <1>1, <1>2, UpperStep
<1>. QED
  BY <1>1, <1>2, <1>3, <1>4, <1>5

LEMMA ReadsOn ==
  ASSUME CalcRuns, calc = "parse", tokens # <<>>,
         NEW e, Reads([stack |-> opStack, out |-> rpn], Head(tokens), e),
         tokens' = Tail(tokens), opStack' = e.stack, rpn' = e.out,
         expr' = expr, values' = values, calc' = calc
  PROVE  CalcRuns'
<1>1. CalcInput /\ CalcInput' /\ CalcTokens' = CalcTokens
  BY DEF CalcRuns, CalcInput, CalcTokens
<1>2a. PICK p \in 0..Len(CalcTokens) : \E run : Parsing(run, p)
  BY DEF CalcRuns
<1>2. PICK run : Parsing(run, p)
  BY <1>2a
<1>3. /\ p < Len(CalcTokens) /\ Head(tokens) = CalcTokens[p + 1]
      /\ Tail(tokens) = Upper(CalcTokens, p + 1)
  BY <1>1, <1>2, NextToken
<1>4. Parses(CalcTokens, run, p) /\ Reads(run[p], CalcTokens[p + 1], e)
  BY <1>2, <1>3 DEF Parsing
<1>5. /\ p + 1 \in 0..Len(CalcTokens) /\ e \in Config
      /\ ParsesTo(CalcTokens, p + 1, e)
  <2> DEFINE w == CalcTokens
  <2>1. p < Len(w) /\ Parses(w, run, p) /\ Reads(run[p], w[p + 1], e)
    BY <1>3, <1>4
  <2> HIDE DEF w
  <2>2. p + 1 \in 0..Len(w) /\ e \in Config /\ ParsesTo(w, p + 1, e)
    BY <2>1, ParsesNext
  <2>. QED
    BY <2>2 DEF w
<1>6. PICK r : Parses(CalcTokens, r, p + 1) /\ r[p + 1] = e
  BY <1>5 DEF ParsesTo
<1>7. e = [stack |-> opStack', out |-> rpn'] /\ values' = <<>>
  BY <1>2, <1>5 DEF Config, Parsing
<1>8. Parsing(r, p + 1)' /\ p + 1 \in 0..Len(CalcTokens')
  BY <1>1, <1>3, <1>5, <1>6, <1>7 DEF Parsing
<1>. QED
  BY <1>1, <1>8 DEF CalcRuns, EvaluatesAsMeant

LEMMA ParseStep ==
  ASSUME CalcRuns, NEW t \in Alphabet, Parse(t)
  PROVE  CalcRuns'
<1> DEFINE c == [stack |-> opStack, out |-> rpn]
<1>1. calc = "parse" /\ tokens # <<>> /\ Head(tokens) = t
  BY DEF Parse, ParseNumber, ParseOpening, ParseOperator, ParseClosing, Next1
<1>2. CASE ParseNumber(t)
  <2> DEFINE e == [stack |-> opStack, out |-> Append(rpn, t)]
  <2>1. Reads(c, t, e)
    BY <1>2 DEF Reads, ParseNumber
  <2>2. /\ tokens' = Tail(tokens) /\ opStack' = e.stack /\ rpn' = e.out
        /\ expr' = expr /\ values' = values /\ calc' = calc
    BY <1>2 DEF ParseNumber
  <2> HIDE DEF e
  <2>. QED
    BY <1>1, <2>1, <2>2, ReadsOn
<1>3. CASE ParseOpening(t)
  <2> DEFINE e == [stack |-> Append(opStack, t), out |-> rpn]
  <2>1. Reads(c, t, e)
    BY <1>3 DEF Reads, ParseOpening
  <2>2. /\ tokens' = Tail(tokens) /\ opStack' = e.stack /\ rpn' = e.out
        /\ expr' = expr /\ values' = values /\ calc' = calc
    BY <1>3 DEF ParseOpening
  <2> HIDE DEF e
  <2>. QED
    BY <1>1, <2>1, <2>2, ReadsOn
<1>4. CASE ParseOperator(t)
  <2> DEFINE h == Height(opStack, t)
             e == [stack |-> Append(SubSeq(opStack, 1, h), t), out |-> rpn \o Reverse(Upper(opStack, h))]
  <2>1. t \in Operators /\ ReadsOperator(c, t, e)
    BY <1>4 DEF ReadsOperator, ParseOperator
  <2>2. /\ tokens' = Tail(tokens) /\ opStack' = e.stack /\ rpn' = e.out
        /\ expr' = expr /\ values' = values /\ calc' = calc
    <3>1. h = LET stay == {n \in 0..Len(opStack) : n = 0 \/ ~GoesFirst(opStack[n], t)}
              IN  CHOOSE n \in stay : \A m \in stay : m <= n
      BY DEF Height, Staying
    <3> HIDE DEF h
    <3>2. opStack' = Append(SubSeq(opStack, 1, h), t) /\ rpn' = rpn \o Reverse(Upper(opStack, h))
      BY <1>4, <3>1 DEF ParseOperator
    <3>3. tokens' = Tail(tokens) /\ expr' = expr /\ values' = values /\ calc' = calc
      BY <1>4 DEF ParseOperator
    <3>. QED
      BY <3>2, <3>3
  <2> HIDE DEF e
  <2>. QED
    BY <1>1, <2>1, <2>2, ReadsOn DEF Reads
<1>5. CASE ParseClosing(t) /\ Opening(opStack) # {}
  <2> DEFINE e == [stack |-> SubSeq(opStack, 1, IF IsCall(opStack) THEN LastOpen(opStack) - 2
                                                ELSE LastOpen(opStack) - 1),
                   out   |-> rpn \o Reverse(Upper(opStack, LastOpen(opStack)))
                                 \o (IF IsCall(opStack) THEN <<"f">> ELSE <<>>)]
  <2>1. t = ")" /\ ReadsClosing(c, e)
    BY <1>5 DEF ReadsClosing, ParseClosing
  <2>2. /\ tokens' = Tail(tokens) /\ opStack' = e.stack /\ rpn' = e.out
        /\ expr' = expr /\ values' = values /\ calc' = calc
    BY <1>5 DEF ParseClosing, Opening, LastOpen, IsCall
  <2> HIDE DEF e
  <2>. QED
    BY <1>1, <2>1, <2>2, ReadsOn DEF Reads
<1>6. CASE ParseClosing(t) /\ Opening(opStack) = {}
  <2>1. t = ")" /\ calc' = "error" /\ expr' = expr
    BY <1>6 DEF ParseClosing, Opening, Refuse
  <2>2. CalcInput /\ CalcInput'
    BY <2>1 DEF CalcRuns, CalcInput
  <2>3a. PICK p \in 0..Len(CalcTokens) : \E run : Parsing(run, p)
    BY <1>1 DEF CalcRuns
  <2>3. PICK run : Parsing(run, p)
    BY <2>3a
  <2>4. p < Len(CalcTokens) /\ CalcTokens[p + 1] = ")" /\ run[p].stack = opStack
    BY <1>1, <2>1, <2>2, <2>3, NextToken
  <2>5. expr.tree = <<>>
    BY <1>6, <2>2, <2>3, <2>4, ParsingPhrase DEF Parsing
  <2>. QED
    BY <2>1, <2>2, <2>5 DEF CalcRuns, EvaluatesAsMeant
<1>. QED
  BY <1>2, <1>3, <1>4, <1>5, <1>6 DEF Parse

LEMMA ParsedStep ==
  ASSUME CalcRuns, Parsed
  PROVE  CalcRuns'
<1>1. calc = "parse" /\ tokens = <<>> /\ expr' = expr
  BY DEF Parsed, Refuse
<1>2. CalcInput /\ CalcInput'
  BY <1>1 DEF CalcRuns, CalcInput
<1>3a. PICK p \in 0..Len(CalcTokens) : \E run : Parsing(run, p)
  BY <1>1 DEF CalcRuns
<1>3. PICK run : Parsing(run, p)
  BY <1>3a
<1>4. p = Len(CalcTokens) /\ run[p].stack = opStack /\ run[p].out = rpn
  BY <1>1, <1>2, <1>3, NextToken
<1>5. Parses(CalcTokens, run, Len(CalcTokens))
  BY <1>3, <1>4 DEF Parsing
<1>6. "(" \in {opStack[n] : n \in DOMAIN opStack} <=> Opening(opStack) # {}
  BY DEF Opening
<1>7. CASE Opening(opStack) # {}
  <2>1. calc' = "error"
    BY <1>6, <1>7 DEF Parsed, Refuse
  <2>2. expr.tree = <<>>
    BY <1>2, <1>4, <1>5, <1>7, ParsingPhrase
  <2>. QED
    BY <1>1, <1>2, <2>1, <2>2 DEF CalcRuns, EvaluatesAsMeant
<1>8. CASE Opening(opStack) = {}
  <2>1. rpn' = rpn \o Reverse(opStack) /\ values' = values /\ calc' = "eval"
    BY <1>6, <1>8 DEF Parsed
  <2>2. values' = <<>>
    BY <1>3, <2>1 DEF Parsing
  <2>3. CASE expr.tree = <<>>
    <3>1. Matched(CalcTokens)
      BY <1>4, <1>5, <1>8, ParsedIsMatched
    <3>2. CalcTokens = <<>>
      <4>1. Matched(expr.text)
        BY <1>2, <3>1, MatchedText DEF CalcInput, CalcTokens
      <4>2. expr.text = <<>> /\ Len(<<>>) = 0
        BY <1>2, <2>3, <4>1 DEF CalcInput, Means
      <4>. QED
        BY <1>2, <4>2, TokensRead DEF CalcInput, CalcTokens
    <3>3. opStack = <<>> /\ rpn = <<>>
      BY <1>4, <1>5, <3>2 DEF Parses, StartConfig
    <3>4. rpn' = <<>>
      BY <2>1, <3>3, OperatorsAreTokens
    <3>. QED
      BY <1>1, <1>2, <2>1, <2>2, <2>3, <3>4 DEF CalcRuns, EvaluatesAsMeant
  <2>4. CASE expr.tree # <<>>
    <3>1. PICK d \in Phrases : d.tree = expr.tree /\ rpn' = d.postfix
      <4>1. \E d \in Phrases : d.tree = expr.tree /\ run[p].out \o Reverse(run[p].stack) = d.postfix
        BY <1>2, <1>4, <1>5, <2>4, ParsingPhrase
      <4>. QED
        BY <1>4, <2>1, <4>1
    <3> DEFINE r == [k \in 0..0 |-> <<>>]
    <3>2. d.postfix \in Seq(Alphabet) /\ 0 \in 0..Len(d.postfix)
      BY PhrasesTyped, LenProperties DEF TypedPhrase
    <3>3. r[0] = <<>>
      OBVIOUS
    <3> HIDE DEF r
    <3>4. IsEval(d.postfix, r, 0)
      BY <3>2 DEF IsEval
    <3>5. rpn' = Upper(d.postfix, 0)
      BY <3>1, <3>2, UpperStep
    <3>6. Evaluating(d, r, 0)'
      BY <1>1, <2>2, <3>1, <3>3, <3>4, <3>5 DEF Evaluating
    <3>. QED
      BY <1>1, <1>2, <2>1, <2>4, <3>2, <3>6 DEF CalcRuns, EvaluatesAsMeant
  <2>. QED
    BY <2>3, <2>4
<1>. QED
  BY <1>7, <1>8

LEMMA EvalStepInv ==
  ASSUME CalcRuns, Eval
  PROVE  CalcRuns'
<1>1. calc = "eval" /\ rpn # <<>> /\ expr' = expr
  BY DEF Eval, Refuse
<1>2. CalcInput /\ CalcInput'
  BY <1>1 DEF CalcRuns, CalcInput
<1>3. expr.tree # <<>>
  BY <1>1 DEF CalcRuns
<1>4. PICK d \in Phrases : \E p \in 0..Len(d.postfix) : \E run : Evaluating(d, run, p)
  BY <1>1, <1>3 DEF CalcRuns
<1>5a. PICK p \in 0..Len(d.postfix) : \E run : Evaluating(d, run, p)
  BY <1>4
<1>5. PICK run : Evaluating(d, run, p)
  BY <1>5a
<1> DEFINE s == d.postfix
<1>6. /\ IsEval(s, run, p) /\ run[0] = <<>> /\ rpn = Upper(s, p) /\ values = run[p]
      /\ s \in Seq(Alphabet) /\ Len(s) \in Nat /\ p \in 0..Len(s)
  BY <1>5, LenProperties DEF Evaluating, IsEval
<1> HIDE DEF s
<1>7. p < Len(s) /\ Head(rpn) = s[p + 1] /\ Tail(rpn) = Upper(s, p + 1)
  <2>1. p # Len(s)
    BY <1>1, <1>6, UpperStep
  <2>2. p < Len(s)
    BY <1>6, <2>1
  <2>. QED
    BY <1>6, <2>2, UpperStep
<1>8. ~(Len(values) < Arity(Head(rpn)))
  BY <1>6, <1>7, PhraseIsEvaluated DEF s
<1>10. /\ rpn' = Tail(rpn) /\ calc' = "eval"
       /\ Evals(values, Head(rpn), values')
  BY <1>1, <1>8 DEF Eval, Evals, Arguments
<1>11. PICK r : IsEval(s, r, p + 1) /\ r[0] = run[0] /\ r[p + 1] = values'
  BY <1>6, <1>7, <1>10, EvalNext, SMTT(40)
<1>12. p + 1 \in 0..Len(s)
  BY <1>6, <1>7
<1>13. Evaluating(d, r, p + 1)'
  BY <1>1, <1>5, <1>6, <1>7, <1>10, <1>11 DEF Evaluating, s
<1>. QED
  BY <1>1, <1>2, <1>3, <1>10, <1>12, <1>13 DEF CalcRuns, EvaluatesAsMeant, s

LEMMA EvaluatedStep ==
  ASSUME CalcRuns, Evaluated
  PROVE  CalcRuns'
<1>1. /\ calc = "eval" /\ rpn = <<>> /\ expr' = expr /\ values' = values
      /\ calc' = IF Len(values) = 1 THEN "done" ELSE "error"
  BY DEF Evaluated
<1>2. CalcInput /\ CalcInput'
  BY <1>1 DEF CalcRuns, CalcInput
<1>3. CASE expr.tree = <<>>
  <2>1. values = <<>>
    BY <1>1, <1>3 DEF CalcRuns
  <2>. QED
    BY <1>1, <1>2, <1>3, <2>1 DEF CalcRuns, EvaluatesAsMeant
<1>4. CASE expr.tree # <<>>
  <2>1. PICK d \in Phrases : \E p \in 0..Len(d.postfix) : \E run : Evaluating(d, run, p)
    BY <1>1, <1>4 DEF CalcRuns
  <2>2a. PICK p \in 0..Len(d.postfix) : \E run : Evaluating(d, run, p)
    BY <2>1
  <2>2. PICK run : Evaluating(d, run, p)
    BY <2>2a
  <2>3. /\ IsEval(d.postfix, run, p) /\ run[0] = <<>> /\ rpn = Upper(d.postfix, p) /\ values = run[p]
        /\ d.tree = expr.tree /\ d.postfix \in Seq(Alphabet)
    BY <2>2 DEF Evaluating, IsEval
  <2>4. p = Len(d.postfix)
    BY <1>1, <2>3, UpperStep
  <2>5. values = <<expr.tree>>
    BY <2>3, <2>4, PhraseIsEvaluated
  <2>6. Len(values) = 1
    BY <2>5
  <2>. QED
    BY <1>1, <1>2, <2>5, <2>6 DEF CalcRuns, EvaluatesAsMeant
<1>. QED
  BY <1>3, <1>4

LEMMA CalcRunsOn == CalcRuns /\ [CalcNext]_calcVars => CalcRuns'
<1>1. SUFFICES ASSUME CalcRuns, [CalcNext]_calcVars PROVE CalcRuns'
  OBVIOUS
<1>2. ASSUME Undefined PROVE CalcRuns'
  <2>1. calc' = "undefined" /\ expr' = expr
    BY <1>2 DEF Undefined
  <2>2. CalcInput'
    BY <1>1, <2>1 DEF CalcRuns, CalcInput
  <2>. QED
    BY <2>1, <2>2 DEF CalcRuns, EvaluatesAsMeant
<1>3. ASSUME UNCHANGED calcVars PROVE CalcRuns'
  <2>1. /\ expr' = expr /\ rest' = rest /\ prevIsValue' = prevIsValue /\ tokens' = tokens
        /\ rpn' = rpn /\ opStack' = opStack /\ values' = values /\ calc' = calc
    BY <1>3 DEF calcVars
  <2>2. \A k : Tokenizing(k) => Tokenizing(k)'
    BY <2>1 DEF Tokenizing
  <2>3. CalcTokens' = CalcTokens /\ \A run, p : Parsing(run, p) => Parsing(run, p)'
    BY <2>1 DEF Parsing, CalcTokens
  <2>4. \A d, run, p : Evaluating(d, run, p) => Evaluating(d, run, p)'
    BY <2>1 DEF Evaluating
  <2>. QED
    BY <1>1, <2>1, <2>2, <2>3, <2>4 DEF CalcRuns, CalcInput, EvaluatesAsMeant
<1>. QED
  BY <1>1, <1>2, <1>3, TokenizeStep, TokenizedStep, ParseStep, ParsedStep, EvalStepInv, EvaluatedStep DEF CalcNext

LEMMA CalcStep == CalcInv /\ [CalcNext]_calcVars => CalcInv'
<1>1. [CalcNext]_calcVars => expr' = expr
  BY DEF CalcNext, calcVars, Tokenize, Tokenized, Parse, ParseNumber, ParseOpening, ParseOperator, ParseClosing,
         Parsed, Eval, Undefined, Evaluated, Refuse
<1>. QED
  BY <1>1, CalcRunsOn DEF CalcInv
-----------------------------------------------------------------------------
(* The tools in Registry.Execute: one answer for each execution.  A        *)
(* channel that holds something holds what the tool returned, and the      *)
(* goroutine that has still to send finds it empty.                        *)

ExecTypeOK ==
  /\ caller \in {"calling", "waiting", "returned"}
  /\ goroutine \in {"none", "running", "sending", "done"}
  /\ outcome \in Outcomes \cup {"none"}
  /\ ctx \in {"live", "ended"}

(* How the caller knows an outcome.                                        *)
Reported(a) == IF a = "result" THEN a ELSE ErrCode(a)

ExecInv ==
  /\ ExecTypeOK
  /\ caller = "calling" => goroutine = "none"
  /\ caller # "returned" => answer = "none"
  /\ goroutine = "none" => caller # "waiting"
  /\ goroutine = "none" /\ caller = "returned" =>
       tool \notin Registered /\ answer = ErrCode("not found")
  /\ goroutine # "none" => tool \in Registered
  /\ goroutine \in {"sending", "done"} => outcome \in Outcomes
  /\ goroutine # "done" => ch = <<>>
  /\ goroutine = "done" => IF caller = "waiting" THEN ch = <<outcome>> ELSE ch \in {<<>>, <<outcome>>}
  /\ caller = "returned" /\ goroutine # "none" =>
       /\ ctx = "ended"
       /\ \/ answer = ErrCode("timed out")
          \/ goroutine = "done" /\ ch = <<>> /\ answer = Reported(outcome)

(* What the goroutine has returned as a result is one.                     *)
Ended(name, where) ==
  tool = name /\ goroutine \in {"sending", "done"} /\ outcome = "result" => where = "done"

EndedInv ==
  /\ Ended("calculator", calc) /\ Ended("web_fetch", fetch) /\ Ended("knowledge_search", find)

ToolsInv ==
  /\ ExecInv /\ EndedInv /\ CalcInv /\ SearchInv
  /\ IF tool = "web_fetch" THEN FetchInv ELSE fetch = "validate" /\ via = <<>>

LEMMA NoExprMeans == NoExpr.text \in Seq(Alphabet) /\ Means(NoExpr.text, NoExpr.tree)
<1>1. NoExpr.text = <<>> /\ NoExpr.tree = <<>> /\ <<>> \in Seq(Alphabet)
  BY DEF NoExpr
<1>. QED
  BY <1>1 DEF Means

LEMMA ToolsInitially == Init => ToolsInv
<1> SUFFICES ASSUME Init PROVE ToolsInv
  OBVIOUS
<1>1. ExecInv /\ EndedInv
  BY DEF Init, ExecInit, ExecInv, ExecTypeOK, EndedInv, Ended
<1>2. CalcInv
  <2>1. PICK e : CalcStart(e) /\ e.text \in Seq(Alphabet) /\ Means(e.text, e.tree)
    <3>1. CASE tool = "calculator"
      BY <3>1, CalculatorAssumption DEF Init, CalcInit
    <3>2. CASE tool # "calculator"
      BY <3>2, NoExprMeans DEF Init
    <3>. QED
      BY <3>1, <3>2
  <2>. QED
    BY <2>1, CalcStarts
<1>3. SearchInv
  <2>1. CASE tool = "knowledge_search"
    BY <2>1, SearchInitially DEF Init
  <2>2. CASE tool # "knowledge_search"
    <3>1. SearchStart(<<>>, 1, {}, {})
      BY <2>2 DEF Init
    <3>2. SearchTypeOK
      BY <3>1 DEF SearchStart, SearchTypeOK
    <3>3. FoundSound
      BY <3>1 DEF SearchStart, FoundSound, Seen
    <3>. QED
      BY <3>1, <3>2, <3>3 DEF SearchStart, SearchInv
  <2>. QED
    BY <2>1, <2>2
<1>4. IF tool = "web_fetch" THEN FetchInv ELSE fetch = "validate" /\ via = <<>>
  BY FetchInitially DEF Init, FetchStart
<1>. QED
  BY <1>1, <1>2, <1>3, <1>4 DEF ToolsInv

(* A step of the caller or of the context.                                 *)
LEMMA HandStep ==
  ASSUME ExecInv, Call \/ Send \/ ContextEnds
  PROVE  /\ ExecInv' /\ tool' = tool
         /\ goroutine' \in {"sending", "done"} => goroutine \in {"sending", "done"} /\ outcome' = outcome
<1>1. CASE NotFound
  BY <1>1 DEF NotFound, ExecInv, ExecTypeOK
<1>2. CASE Start
  BY <1>2 DEF Start, ExecInv, ExecTypeOK
<1>3. CASE TakeAnswer
  <2>1. goroutine = "done" /\ caller = "waiting" /\ ch = <<outcome>>
    BY <1>3 DEF TakeAnswer, Return, ExecInv
  <2>2. Head(ch) = outcome /\ Tail(ch) = <<>>
    BY <2>1
  <2>. QED
    BY <1>3, <2>1, <2>2 DEF TakeAnswer, Return, ExecInv, ExecTypeOK, Reported
<1>4. CASE Leave
  BY <1>4 DEF Leave, Return, ExecInv, ExecTypeOK
<1>5. CASE Send
  <2>1. goroutine = "sending" /\ ch = <<>>
    BY <1>5 DEF Send, ExecInv
  <2>2. Append(ch, outcome) = <<outcome>>
    BY <2>1
  <2>. QED
    BY <1>5, <2>1, <2>2 DEF Send, SendTo, ExecInv, ExecTypeOK
<1>6. CASE ContextEnds
  BY <1>6 DEF ContextEnds, ExecInv, ExecTypeOK
<1>. QED
  BY <1>1, <1>2, <1>3, <1>4, <1>5, <1>6 DEF Call

LEMMA ReturnStep ==
  ASSUME ExecInv, NEW r \in Outcomes, ToolReturns(r)
  PROVE  /\ ExecInv' /\ tool' = tool
         /\ goroutine' = "sending" /\ outcome' = r
BY DEF ToolReturns, ExecInv, ExecTypeOK

LEMMA ExecKept ==
  ASSUME ExecInv, UNCHANGED execVars
  PROVE  ExecInv' /\ tool' = tool /\ goroutine' = goroutine /\ outcome' = outcome
BY DEF execVars, ExecInv, ExecTypeOK

(* What a step of Next is for each of the four parts.                      *)
LEMMA PartsOfStep ==
  ASSUME ToolsInv, [Next]_vars
  PROVE  /\ ExecInv' /\ tool' = tool /\ EndedInv'
         /\ [CalcNext]_calcVars /\ [SearchNext]_searchVars
         /\ IF tool = "web_fetch" THEN [FetchNext]_fetchVars ELSE UNCHANGED fetchVars
<1>0. ExecInv /\ EndedInv
  BY DEF ToolsInv
<1>1. CASE UNCHANGED vars
  <2>1. UNCHANGED execVars /\ UNCHANGED calcVars /\ UNCHANGED fetchVars /\ UNCHANGED searchVars
    BY <1>1 DEF vars
  <2>2. calc' = calc /\ fetch' = fetch /\ find' = find
    BY <2>1 DEF calcVars, fetchVars, searchVars
  <2>. QED
    BY <1>0, <2>1, <2>2, ExecKept DEF EndedInv, Ended
<1>2. CASE Hand \/ EndContext
  <2>1. /\ Call \/ Send \/ ContextEnds
        /\ UNCHANGED calcVars /\ UNCHANGED fetchVars /\ UNCHANGED searchVars
    BY <1>2 DEF Hand, EndContext
  <2>2. calc' = calc /\ fetch' = fetch /\ find' = find
    BY <2>1 DEF calcVars, fetchVars, searchVars
  <2>. QED
    BY <1>0, <2>1, <2>2, HandStep DEF EndedInv, Ended
<1>3. CASE \/ Working("calculator") /\ CalcNext /\ UNCHANGED <<fetchVars, searchVars>>
           \/ Working("web_fetch") /\ FetchNext /\ UNCHANGED <<calcVars, searchVars>>
           \/ Working("knowledge_search") /\ SearchNext /\ UNCHANGED <<calcVars, fetchVars>>
  <2>1. UNCHANGED execVars /\ goroutine = "running"
    BY <1>3 DEF Working, Runs
  <2>2. ExecInv' /\ tool' = tool /\ EndedInv'
    BY <1>0, <2>1, ExecKept DEF EndedInv, Ended
  <2>3. /\ [CalcNext]_calcVars /\ [SearchNext]_searchVars
        /\ IF tool = "web_fetch" THEN [FetchNext]_fetchVars ELSE UNCHANGED fetchVars
    BY <1>3 DEF Working, Runs
  <2>. QED
    BY <2>2, <2>3
<1>4. CASE \/ Ends("calculator", calc, {"done"}, {"error", "undefined"})
           \/ Ends("web_fetch", fetch, {"done"}, {"failed"})
           \/ Ends("knowledge_search", find, {"done"}, {"failed"})
           \/ OtherTool
  <2>1. UNCHANGED calcVars /\ UNCHANGED fetchVars /\ UNCHANGED searchVars
    BY <1>4 DEF Ends, OtherTool
  <2>2. calc' = calc /\ fetch' = fetch /\ find' = find
    BY <2>1 DEF calcVars, fetchVars, searchVars
  <2>3. PICK r \in Outcomes : /\ ToolReturns(r)
                              /\ r = "result" => /\ tool = "calculator" => calc = "done"
                                                 /\ tool = "web_fetch" => fetch = "done"
                                                 /\ tool = "knowledge_search" => find = "done"
    BY <1>4 DEF Ends, OtherTool, Runs, Outcomes
  <2>4. ExecInv' /\ tool' = tool /\ outcome' = r
    BY <1>0, <2>3, ReturnStep
  <2>. QED
    BY <2>1, <2>2, <2>3, <2>4 DEF EndedInv, Ended
<1>. QED
  BY <1>1, <1>2, <1>3, <1>4 DEF Next, Work, Calculate, Fetch, Search

LEMMA ToolsStep == ToolsInv /\ [Next]_vars => ToolsInv'
<1> SUFFICES ASSUME ToolsInv, [Next]_vars PROVE ToolsInv'
  OBVIOUS
<1>1. /\ ExecInv' /\ tool' = tool /\ EndedInv'
      /\ [CalcNext]_calcVars /\ [SearchNext]_searchVars
      /\ IF tool = "web_fetch" THEN [FetchNext]_fetchVars ELSE UNCHANGED fetchVars
  BY PartsOfStep
<1>2. CalcInv' /\ SearchInv'
  BY <1>1, CalcStep, SearchStep DEF ToolsInv
<1>3. CASE tool = "web_fetch"
  BY <1>1, <1>2, <1>3, FetchStep DEF ToolsInv
<1>4. CASE tool # "web_fetch"
  <2>1. fetch' = fetch /\ via' = via
    BY <1>1, <1>4 DEF fetchVars
  <2>. QED
    BY <1>1, <1>2, <1>4, <2>1 DEF ToolsInv
<1>. QED
  BY <1>3, <1>4

LEMMA ToolsSafe == Spec => []ToolsInv
BY ToolsInitially, ToolsStep, PTL DEF Spec

-----------------------------------------------------------------------------
(* The tokenizer, the parser and the evaluator compute what an expression  *)
(* of any length means, with the usual precedences and associativity, and  *)
(* refuse it only when it means nothing.  Nothing is said of an expression *)
(* with a minus behind an operator, which is computed wrongly              *)
(* (calculator.go:152-165, 177-256).                                       *)
THEOREM ComputedAsWritten == Spec => []EvaluatesAsMeant
<1>1. ToolsInv => EvaluatesAsMeant
  BY DEF ToolsInv, CalcInv, CalcRuns, EvaluatesAsMeant
<1>. QED
  BY ToolsSafe, <1>1, PTL

(* In Registry.Execute too, each request for a page had a check of its own *)
(* address before it, whatever the other lookups say, and a page is        *)
(* flagged when something of it is missing                                 *)
(* (fetcher.go:73-85, 92-155, 174-202).                                    *)
THEOREM FetchedPagesAreFlagged == Spec => []NothingCutSilently
<1>1. ToolsInv => NothingCutSilently
  <2>1. CASE tool = "web_fetch"
    BY <2>1 DEF ToolsInv, FetchInv
  <2>2. CASE tool # "web_fetch"
    <3>1. ToolsInv => via = <<>> /\ Len(via) = 0 /\ DOMAIN via = {} /\ fetch = "validate"
      BY <2>2 DEF ToolsInv
    <3>. QED
      BY <3>1, FetchAssumption DEF NothingCutSilently, EachChecked
  <2>. QED
    BY <2>1, <2>2
<1>. QED
  BY ToolsSafe, <1>1, PTL

(* A search within Registry.Execute leaves no match of the keywords out of *)
(* a short answer either (service.go:242-259, knowledge_repo.go:313-384).  *)
THEOREM SearchesHaveAllMatches == Spec => []ShortAnswerHasAllMatches
<1>1. ToolsInv => ShortAnswerHasAllMatches
  BY ShortHasAll DEF ToolsInv
<1>. QED
  BY ToolsSafe, <1>1, PTL

(* What Execute returns is the end of its context, or what the tool came   *)
(* to: a result is the finished work of the tool that was asked for, the   *)
(* value of the expression as it was written where no minus stands behind  *)
(* an operator (registry.go:72-129).                                       *)
AnswerIsTheTools ==
  caller = "returned" =>
    \/ tool \notin Registered /\ goroutine = "none" /\ answer = ErrCode("not found")
    \/ ctx = "ended" /\ answer = ErrCode("timed out")
    \/ /\ goroutine = "done" /\ answer = Reported(outcome)
       /\ answer = "result" =>
            /\ tool = "calculator" =>
                 calc = "done" /\ (~SignBehind(expr.text) => values = <<expr.tree>>)
            /\ tool = "web_fetch" => fetch = "done"
            /\ tool = "knowledge_search" => find = "done"

(* The channel holds nobody up: whether or not the caller has left, there  *)
(* is room for the one answer the goroutine has, and a caller who still    *)
(* waits when the goroutine is done finds it there (registry.go:110-129).  *)
ChannelHoldsNobody ==
  /\ goroutine = "sending" => Len(ch) < 1
  /\ goroutine = "done" /\ caller = "waiting" => ch # <<>>
  /\ caller = "waiting" => goroutine # "none"

(* Both hold of every execution, whatever becomes ready first.             *)
THEOREM EachExecutionIsAnswered == Spec => [](AnswerIsTheTools /\ ChannelHoldsNobody)
<1>1. ASSUME ToolsInv PROVE AnswerIsTheTools /\ ChannelHoldsNobody
  <2>1. ExecInv /\ EndedInv /\ EvaluatesAsMeant
    BY <1>1 DEF ToolsInv, CalcInv, CalcRuns, EvaluatesAsMeant
  <2>2. ChannelHoldsNobody
    <3>1. goroutine = "sending" => ch = <<>>
      BY <2>1 DEF ExecInv
    <3>2. Len(<<>>) < 1
      OBVIOUS
    <3>3. /\ goroutine = "done" /\ caller = "waiting" => ch = <<outcome>>
          /\ caller = "waiting" => goroutine # "none"
      BY <2>1 DEF ExecInv
    <3>4. <<outcome>> # <<>>
      OBVIOUS
    <3>5. goroutine = "sending" => Len(ch) < 1
      BY <3>1, <3>2
    <3>6. goroutine = "done" /\ caller = "waiting" => ch # <<>>
      BY <3>3, <3>4
    <3>. QED
      BY <3>3, <3>5, <3>6 DEF ChannelHoldsNobody
  <2>3. ASSUME goroutine = "done", outcome \in Outcomes, answer = Reported(outcome), answer = "result"
        PROVE  outcome = "result"
    BY <2>3 DEF Reported, Outcomes, ErrCode
  <2>4. AnswerIsTheTools
    BY <2>1, <2>3 DEF ExecInv, EndedInv, Ended, EvaluatesAsMeant, AnswerIsTheTools
  <2>. QED
    BY <2>2, <2>4
<1>. QED
  BY ToolsSafe, <1>1, PTL
-----------------------------------------------------------------------------
(* Every step of an execution leaves less to do.                           *)

CalcTypeOK == {rest, tokens, rpn, opStack} \subseteq Seq(Alphabet)

LEMMA RestOf ==
  ASSUME NEW S, NEW s \in Seq(S), s # <<>>
  PROVE  /\ Tail(s) \in Seq(S) /\ Len(Tail(s)) + 1 = Len(s) /\ Head(s) \in S
         /\ Len(s) \in Nat /\ Len(Tail(s)) \in Nat
BY HeadTailProperties, LenProperties, EmptySeq

(* The lengths of what comes off the stack and of what stays on it.        *)
LEMMA CutOf ==
  ASSUME NEW s \in Seq(Alphabet), NEW n \in 0..Len(s)
  PROVE  /\ SubSeq(s, 1, n) \in Seq(Alphabet) /\ Len(SubSeq(s, 1, n)) = n
         /\ Reverse(Upper(s, n)) \in Seq(Alphabet) /\ Len(Reverse(Upper(s, n))) = Len(s) - n
         /\ Len(s) \in Nat
<1>1. Upper(s, n) \in Seq(Alphabet) /\ Len(Upper(s, n)) = Len(s) - n
  BY UpperStep
<1>. QED
  BY <1>1, PartsOfStack, ReverseOf, LenProperties

LEMMA ReadingAdvances ==
  ASSUME CalcTypeOK, Tokenize \/ Tokenized
  PROVE  CalcTypeOK' /\ CalcLeft \in Nat /\ CalcLeft' < CalcLeft
<1>0. /\ rest \in Seq(Alphabet) /\ tokens \in Seq(Alphabet) /\ rpn \in Seq(Alphabet)
      /\ opStack \in Seq(Alphabet)
      /\ Len(rest) \in Nat /\ Len(tokens) \in Nat /\ Len(rpn) \in Nat /\ Len(opStack) \in Nat
  BY LenProperties DEF CalcTypeOK
<1>1. CASE Tokenize
  <2> DEFINE more == TokensOf(Head(rest), prevIsValue)
  <2>1. /\ Tail(rest) \in Seq(Alphabet) /\ Len(Tail(rest)) + 1 = Len(rest) /\ Head(rest) \in Alphabet
        /\ Len(Tail(rest)) \in Nat
    BY <1>0, <1>1, RestOf DEF Tokenize
  <2>2. more \in Seq(Alphabet) /\ Len(more) \in Nat /\ Len(more) <= 2
    <3>1. \A c \in Alphabet : <<c>> \in Seq(Alphabet) /\ Len(<<c>>) = 1
      OBVIOUS
    <3>2. <<"0", "-">> \in Seq(Alphabet) /\ Len(<<"0", "-">>) = 2
      BY DEF Alphabet, Numbers, Operators
    <3>3. <<>> \in Seq(Alphabet) /\ Len(<<>>) = 0
      BY EmptySeq
    <3>. QED
      BY <2>1, <3>1, <3>2, <3>3 DEF TokensOf
  <2> HIDE DEF more
  <2>3. tokens \o more \in Seq(Alphabet) /\ Len(tokens \o more) = Len(tokens) + Len(more)
    BY <1>0, <2>2, ConcatProperties
  <2>4. /\ rest' = Tail(rest) /\ tokens' = tokens \o more /\ rpn' = rpn /\ opStack' = opStack
        /\ calc = "tokenize" /\ calc' = calc
    BY <1>1 DEF Tokenize, more
  <2>. QED
    BY <1>0, <2>1, <2>2, <2>3, <2>4 DEF CalcTypeOK, CalcLeft
<1>2. CASE Tokenized
  BY <1>0, <1>2 DEF Tokenized, CalcTypeOK, CalcLeft
<1>. QED
  BY <1>1, <1>2

LEMMA ParsingAdvances ==
  ASSUME CalcTypeOK, NEW t \in Alphabet, Parse(t)
  PROVE  CalcTypeOK' /\ CalcLeft \in Nat /\ CalcLeft' < CalcLeft
<1>0. /\ rest \in Seq(Alphabet) /\ tokens \in Seq(Alphabet) /\ rpn \in Seq(Alphabet)
      /\ opStack \in Seq(Alphabet)
      /\ Len(rest) \in Nat /\ Len(tokens) \in Nat /\ Len(rpn) \in Nat /\ Len(opStack) \in Nat
  BY LenProperties DEF CalcTypeOK
<1>1. /\ Tail(tokens) \in Seq(Alphabet) /\ Len(Tail(tokens)) + 1 = Len(tokens)
      /\ Len(Tail(tokens)) \in Nat /\ calc = "parse"
  BY <1>0, RestOf DEF Parse, ParseNumber, ParseOpening, ParseOperator, ParseClosing, Next1
<1>2. \A s \in Seq(Alphabet) : Append(s, t) \in Seq(Alphabet) /\ Len(Append(s, t)) = Len(s) + 1
  BY AppendProperties
<1>3. CASE ParseNumber(t)
  <2>1. /\ rest' = rest /\ tokens' = Tail(tokens) /\ rpn' = Append(rpn, t) /\ opStack' = opStack
        /\ calc' = calc
    BY <1>3 DEF ParseNumber
  <2>. QED
    BY <1>0, <1>1, <1>2, <2>1 DEF CalcTypeOK, CalcLeft
<1>4. CASE ParseOpening(t)
  <2>1. /\ rest' = rest /\ tokens' = Tail(tokens) /\ rpn' = rpn /\ opStack' = Append(opStack, t)
        /\ calc' = calc
    BY <1>4 DEF ParseOpening
  <2>. QED
    BY <1>0, <1>1, <1>2, <2>1 DEF CalcTypeOK, CalcLeft
<1>5. CASE ParseOperator(t)
  <2> DEFINE h == Height(opStack, t)
             kept == SubSeq(opStack, 1, h)
             off == Reverse(Upper(opStack, h))
  <2>1. h \in 0..Len(opStack)
    BY <1>0, HeightIn DEF Staying
  <2>2. /\ rest' = rest /\ tokens' = Tail(tokens) /\ rpn' = rpn \o off
        /\ opStack' = Append(kept, t) /\ calc' = calc
    <3>1. h = LET stay == {n \in 0..Len(opStack) : n = 0 \/ ~GoesFirst(opStack[n], t)}
              IN  CHOOSE n \in stay : \A m \in stay : m <= n
      BY DEF Height, Staying
    <3> HIDE DEF h
    <3>2. opStack' = Append(kept, t) /\ rpn' = rpn \o off
      BY <1>5, <3>1 DEF ParseOperator
    <3>. QED
      BY <1>5, <3>2 DEF ParseOperator
  <2> HIDE DEF h
  <2>3. /\ kept \in Seq(Alphabet) /\ Len(kept) = h
        /\ off \in Seq(Alphabet) /\ Len(off) = Len(opStack) - h
    BY <1>0, <2>1, CutOf
  <2> HIDE DEF kept, off
  <2>4. rpn \o off \in Seq(Alphabet) /\ Len(rpn \o off) = Len(rpn) + Len(off)
    BY <1>0, <2>3, ConcatProperties
  <2>5. Append(kept, t) \in Seq(Alphabet) /\ Len(Append(kept, t)) = h + 1
    BY <1>2, <2>3
  <2>6. CalcTypeOK'
    BY <1>0, <1>1, <2>2, <2>4, <2>5 DEF CalcTypeOK
  <2>7. CalcLeft' = 7 * Len(rest) + 3 * Len(Tail(tokens)) + 2 * (h + 1) + (Len(rpn) + (Len(opStack) - h)) + 2
    BY <1>1, <2>2, <2>3, <2>4, <2>5 DEF CalcLeft
  <2>8. CalcLeft = 7 * Len(rest) + 3 * Len(tokens) + 2 * Len(opStack) + Len(rpn) + 2
    BY <1>1 DEF CalcLeft
  <2>. QED
    BY <1>0, <1>1, <2>1, <2>6, <2>7, <2>8
<1>6. CASE ParseClosing(t) /\ Opening(opStack) # {}
  <2> DEFINE at == LastOpen(opStack)
             n == IF IsCall(opStack) THEN at - 2 ELSE at - 1
             f == IF IsCall(opStack) THEN <<"f">> ELSE <<>>
             kept == SubSeq(opStack, 1, n)
             off == Reverse(Upper(opStack, at))
             calls == IF IsCall(opStack) THEN 1 ELSE 0
  <2>1. at \in 1..Len(opStack)
    BY <1>0, <1>6, LastOpenIn DEF Opening
  <2>2. n \in 0..Len(opStack) /\ at \in 0..Len(opStack) /\ n + calls = at - 1
    <3>0. Len(opStack) \in Nat
      BY <1>0
    <3>1. \/ at > 1 /\ n = at - 2 /\ calls = 1
          \/ n = at - 1 /\ calls = 0
      BY DEF IsCall
    <3> HIDE DEF at, n, calls
    <3>. QED
      BY <2>1, <3>0, <3>1
  <2>3. f \in Seq(Alphabet) /\ Len(f) = calls /\ calls \in {0, 1}
    <3>1. /\ <<"f">> \in Seq(Alphabet) /\ <<>> \in Seq(Alphabet)
          /\ Len(<<"f">>) = 1 /\ Len(<<>>) = 0
      BY DEF Alphabet
    <3>. QED
      BY <3>1
  <2>4. /\ rest' = rest /\ tokens' = Tail(tokens) /\ rpn' = rpn \o off \o f
        /\ opStack' = kept /\ calc' = calc
    BY <1>6 DEF ParseClosing, Opening, LastOpen, IsCall
  <2> HIDE DEF at, n, f, calls
  <2>5a. kept \in Seq(Alphabet) /\ Len(kept) = n
    BY <1>0, <2>2, CutOf
  <2>5. off \in Seq(Alphabet) /\ Len(off) = Len(opStack) - at
    BY <1>0, <2>2, CutOf
  <2> HIDE DEF kept, off
  <2>6. rpn \o off \o f \in Seq(Alphabet) /\ Len(rpn \o off \o f) = (Len(rpn) + Len(off)) + calls
    <3>1. rpn \o off \in Seq(Alphabet) /\ Len(rpn \o off) = Len(rpn) + Len(off)
      BY <1>0, <2>5, ConcatProperties
    <3> DEFINE g == rpn \o off
    <3> HIDE DEF g
    <3>2. g \o f \in Seq(Alphabet) /\ Len(g \o f) = Len(g) + Len(f)
      BY <2>3, <3>1, ConcatProperties DEF g
    <3>. QED
      BY <2>3, <3>1, <3>2 DEF g
  <2>7. CalcTypeOK'
    BY <1>0, <1>1, <2>4, <2>5a, <2>6 DEF CalcTypeOK
  <2>8. CalcLeft' = 7 * Len(rest) + 3 * Len(Tail(tokens)) + 2 * n
                    + ((Len(rpn) + (Len(opStack) - at)) + calls) + 2
    BY <1>1, <2>4, <2>5, <2>5a, <2>6 DEF CalcLeft
  <2>9. CalcLeft = 7 * Len(rest) + 3 * Len(tokens) + 2 * Len(opStack) + Len(rpn) + 2
    BY <1>1 DEF CalcLeft
  <2>. QED
    BY <1>0, <1>1, <2>1, <2>2, <2>3, <2>7, <2>8, <2>9
<1>7. CASE ParseClosing(t) /\ Opening(opStack) = {}
  <2>1. /\ rest' = rest /\ tokens' = tokens /\ rpn' = rpn /\ opStack' = opStack
        /\ calc' = "error"
    BY <1>7 DEF ParseClosing, Opening, Refuse
  <2>. QED
    BY <1>0, <1>1, <2>1 DEF CalcTypeOK, CalcLeft
<1>. QED
  BY <1>3, <1>4, <1>5, <1>6, <1>7 DEF Parse

LEMMA EvaluatingAdvances ==
  ASSUME CalcTypeOK, Parsed \/ Eval \/ Undefined \/ Evaluated
  PROVE  CalcTypeOK' /\ CalcLeft \in Nat /\ CalcLeft' < CalcLeft
<1>0. /\ rest \in Seq(Alphabet) /\ tokens \in Seq(Alphabet) /\ rpn \in Seq(Alphabet)
      /\ opStack \in Seq(Alphabet)
      /\ Len(rest) \in Nat /\ Len(tokens) \in Nat /\ Len(rpn) \in Nat /\ Len(opStack) \in Nat
  BY LenProperties DEF CalcTypeOK
<1>1. CASE Parsed /\ calc' = "eval"
  <2> DEFINE off == Reverse(opStack)
  <2>1. /\ rest' = rest /\ tokens' = tokens /\ rpn' = rpn \o off /\ opStack' = <<>>
        /\ calc = "parse"
    BY <1>1 DEF Parsed, Refuse
  <2>2. off \in Seq(Alphabet) /\ Len(off) = Len(opStack)
    BY <1>0, ReverseOf
  <2> HIDE DEF off
  <2>3. rpn \o off \in Seq(Alphabet) /\ Len(rpn \o off) = Len(rpn) + Len(opStack)
    <3>1. rpn \o off \in Seq(Alphabet) /\ Len(rpn \o off) = Len(rpn) + Len(off)
      BY <1>0, <2>2, ConcatProperties
    <3>. QED
      BY <2>2, <3>1
  <2>4. <<>> \in Seq(Alphabet) /\ Len(<<>>) = 0
    BY EmptySeq
  <2>. QED
    BY <1>0, <1>1, <2>1, <2>3, <2>4 DEF CalcTypeOK, CalcLeft
<1>2. CASE /\ calc \in {"parse", "eval"} /\ calc' \in {"error", "undefined", "done"}
           /\ UNCHANGED <<rest, tokens, rpn, opStack>>
  BY <1>0, <1>2 DEF CalcTypeOK, CalcLeft
<1>3. CASE /\ calc = "eval" /\ calc' = calc /\ rpn # <<>> /\ rpn' = Tail(rpn)
           /\ UNCHANGED <<rest, tokens, opStack>>
  <2>1. Tail(rpn) \in Seq(Alphabet) /\ Len(Tail(rpn)) + 1 = Len(rpn) /\ Len(Tail(rpn)) \in Nat
    BY <1>0, <1>3, RestOf
  <2>. QED
    BY <1>0, <1>3, <2>1 DEF CalcTypeOK, CalcLeft
<1>4. CASE Parsed
  BY <1>1, <1>2, <1>4, SMTT(40) DEF Parsed, Refuse
<1>5. CASE Eval
  BY <1>2, <1>3, <1>5 DEF Eval, Refuse
<1>6. CASE Undefined \/ Evaluated
  BY <1>2, <1>6 DEF Undefined, Evaluated
<1>. QED
  BY <1>4, <1>5, <1>6

LEMMA CalcAdvances ==
  ASSUME CalcTypeOK, CalcNext
  PROVE  CalcTypeOK' /\ CalcLeft' < CalcLeft
BY ReadingAdvances, ParsingAdvances, EvaluatingAdvances DEF CalcNext

LEMMA CalcTypeStep == CalcTypeOK /\ [CalcNext]_calcVars => CalcTypeOK'
<1>1. CalcTypeOK /\ UNCHANGED calcVars => CalcTypeOK'
  BY DEF CalcTypeOK, calcVars
<1>. QED
  BY <1>1, CalcAdvances

LEMMA FetchAdvances ==
  ASSUME FetchInv, FetchNext
  PROVE  FetchLeft' < FetchLeft
<1>0. /\ Len(via) \in Nat /\ got \in Nat /\ MaxRedirects \in Nat \ {0}
      /\ ReadLimit \in Nat /\ ReadLimit' = ReadLimit
      /\ fetch = "request" => Len(via) < MaxRedirects
      /\ fetch = "request" /\ via' = Append(via, url) => Len(via') = Len(via) + 1
  BY FetchAssumption, OneMoreAsked, LenProperties DEF FetchInv, FetchTypeOK, Checked, ReadLimit
<1> DEFINE unread(n) == IF n < ReadLimit THEN ReadLimit - n ELSE 0
<1>1. \A n \in Nat : unread(n) \in Nat /\ unread(n) <= ReadLimit
  BY <1>0
<1>2. ASSUME NEW ips \in SUBSET Ips, ValidateUrl(ips) PROVE FetchLeft' < FetchLeft
  BY <1>0, <1>2 DEF ValidateUrl, FetchFails, FetchLeft
<1>3. ASSUME NEW u \in Urls, NEW ips \in SUBSET Ips, Redirect(u, ips) PROVE FetchLeft' < FetchLeft
  <2>1. fetch = "request" /\ Len(via') = Len(via) + 1 /\ fetch' \in {"request", "failed"}
    BY <1>0, <1>3 DEF Redirect
  <2>2. fetch' = "request" => Len(via') < MaxRedirects
    BY <1>3 DEF Redirect, MayFollow
  <2>. QED
    BY <1>0, <2>1, <2>2 DEF FetchLeft
<1>4. ASSUME NEW n \in 0..LongestBody, NEW status, NEW type, Page(n, status, type)
      PROVE  FetchLeft' < FetchLeft
  <2>1. fetch = "request" /\ got' = got /\ fetch' \in {"read", "failed"}
    BY <1>4 DEF Page
  <2>. QED
    BY <1>0, <2>1 DEF FetchLeft
<1>5. ASSUME NEW n \in 1..ReadLimit, ReadSome(n) PROVE FetchLeft' < FetchLeft
  <2>1. fetch = "read" /\ fetch' = "read" /\ got' = got + n /\ got < ReadLimit
    BY <1>5 DEF ReadSome
  <2>. QED
    BY <1>0, <1>5, <2>1 DEF FetchLeft
<1>6. ASSUME NEW n \in 0..MaxBodyBytes, Extract(n) PROVE FetchLeft' < FetchLeft
  <2>1. fetch = "read" /\ fetch' = "done"
    BY <1>6 DEF Extract
  <2>. QED
    BY <1>0, <2>1 DEF FetchLeft
<1>7. CASE FetchError
  BY <1>0, <1>7 DEF FetchError, FetchFails, FetchLeft
<1>8. \/ \E ips \in SUBSET Ips : ValidateUrl(ips)
      \/ \E u \in Urls, ips \in SUBSET Ips : Redirect(u, ips)
      \/ \E n \in 0..LongestBody : \E status, type : Page(n, status, type)
      \/ \E n \in 1..ReadLimit : ReadSome(n)
      \/ \E n \in 0..MaxBodyBytes : Extract(n)
      \/ FetchError
  BY DEF FetchNext
<1>. QED
  BY <1>2, <1>3, <1>4, <1>5, <1>6, <1>7, <1>8, Zenon

LEMMA SearchAdvances ==
  ASSUME SearchNext, UNCHANGED deleted
  PROVE  FindLeft' < FindLeft
<1>1. \A b : ~BaseDeleted(b)
  BY DEF BaseDeleted
<1>2. \/ find = "scope" /\ find' \in {"vector", "done", "failed"}
      \/ find = "vector" /\ find' \in {"keyword", "done", "failed"}
      \/ find = "keyword" /\ find' \in {"done", "failed"}
  <2>1. CASE ChooseScope
    BY <2>1 DEF ChooseScope
  <2>2. CASE SearchError
    BY <2>2 DEF SearchError
  <2>3. CASE VectorQuery
    BY <2>3 DEF VectorQuery
  <2>4. CASE KeywordQuery
    BY <2>4 DEF KeywordQuery
  <2>. QED
    BY <1>1, <2>1, <2>2, <2>3, <2>4 DEF SearchNext
<1>. QED
  BY <1>2 DEF FindLeft

(* What is left of a tool's work is a natural number.                      *)
AdvancingInv == ToolsInv /\ CalcTypeOK

LEMMA LeftIsNumber ==
  ASSUME AdvancingInv
  PROVE  CalcLeft \in Nat /\ FindLeft \in Nat /\ (tool = "web_fetch" => FetchLeft \in Nat)
         /\ WorkLeft \in Nat /\ CallerLeft \in Nat /\ StepsLeft \in Nat
<1>1. CalcLeft \in Nat
  <2>1. Len(rest) \in Nat /\ Len(tokens) \in Nat /\ Len(rpn) \in Nat /\ Len(opStack) \in Nat
    BY LenProperties DEF AdvancingInv, CalcTypeOK
  <2>. QED
    BY <2>1 DEF CalcLeft
<1>2. FindLeft \in Nat
  BY DEF FindLeft
<1>3. ASSUME tool = "web_fetch" PROVE FetchLeft \in Nat
  <2>1. /\ Len(via) \in Nat /\ got \in Nat /\ MaxRedirects \in Nat \ {0} /\ MaxBodyBytes \in Nat
        /\ fetch = "request" => Len(via) < MaxRedirects
    BY <1>3, FetchAssumption, LenProperties DEF AdvancingInv, ToolsInv, FetchInv, FetchTypeOK, Checked
  <2>. QED
    BY <2>1 DEF FetchLeft, ReadLimit
<1>4. WorkLeft \in Nat
  BY <1>1, <1>2, <1>3 DEF WorkLeft
<1>5. CallerLeft \in Nat
  BY DEF CallerLeft
<1>. QED
  BY <1>1, <1>2, <1>3, <1>4, <1>5 DEF StepsLeft

LEMMA WorkAdvances ==
  ASSUME AdvancingInv, WorkLeft' \in Nat, Work, UNCHANGED deleted
  PROVE  StepsLeft' < StepsLeft
<1>0. WorkLeft \in Nat /\ CallerLeft \in Nat /\ goroutine = "running"
  BY LeftIsNumber DEF Work, Calculate, Fetch, Search, OtherTool, Working, Ends, Runs
<1>1. ASSUME UNCHANGED execVars, WorkLeft' < WorkLeft
      PROVE  StepsLeft' < StepsLeft
  <2>1. CallerLeft' = CallerLeft /\ goroutine' = "running"
    BY <1>0, <1>1 DEF execVars, CallerLeft
  <2>. QED
    BY <1>0, <1>1, <2>1 DEF StepsLeft
<1>2. ASSUME NEW r, ToolReturns(r)
      PROVE  StepsLeft' < StepsLeft
  <2>1. CallerLeft' = CallerLeft /\ goroutine' = "sending"
    BY <1>2 DEF ToolReturns, CallerLeft
  <2>. QED
    BY <1>0, <2>1 DEF StepsLeft
<1>3. CASE Working("calculator") /\ CalcNext
  <2>1. CalcLeft' < CalcLeft /\ tool = "calculator" /\ tool' = tool /\ UNCHANGED execVars
    BY <1>3, CalcAdvances DEF AdvancingInv, Working, Runs, execVars
  <2>. QED
    BY <1>1, <2>1 DEF WorkLeft
<1>4. CASE Working("web_fetch") /\ FetchNext
  <2>1. tool = "web_fetch" /\ tool' = tool /\ UNCHANGED execVars /\ FetchInv
    BY <1>4 DEF AdvancingInv, ToolsInv, Working, Runs, execVars
  <2>2. FetchLeft' < FetchLeft
    BY <1>4, <2>1, FetchAdvances
  <2>. QED
    BY <1>1, <2>1, <2>2 DEF WorkLeft
<1>5. CASE Working("knowledge_search") /\ SearchNext
  <2>1. tool = "knowledge_search" /\ tool' = tool /\ UNCHANGED execVars
    BY <1>5 DEF Working, Runs, execVars
  <2>2. FindLeft' < FindLeft
    BY <1>5, SearchAdvances
  <2>. QED
    BY <1>1, <2>1, <2>2 DEF WorkLeft
<1>6. CASE \/ Ends("calculator", calc, {"done"}, {"error", "undefined"})
           \/ Ends("web_fetch", fetch, {"done"}, {"failed"})
           \/ Ends("knowledge_search", find, {"done"}, {"failed"})
           \/ OtherTool
  <2>1. \E r : ToolReturns(r)
    BY <1>6 DEF Ends, OtherTool
  <2>. QED
    BY <1>2, <2>1
<1>. QED
  BY <1>3, <1>4, <1>5, <1>6 DEF Work, Calculate, Fetch, Search

LEMMA HandAdvances ==
  ASSUME AdvancingInv, Hand
  PROVE  StepsLeft' < StepsLeft
<1>0. WorkLeft \in Nat /\ CallerLeft \in Nat /\ ExecInv
  BY LeftIsNumber DEF AdvancingInv, ToolsInv
<1>1. WorkLeft' = WorkLeft
  <2>1. /\ UNCHANGED <<rest, tokens, rpn, opStack, calc>> /\ UNCHANGED <<via, got, fetch>>
        /\ find' = find /\ tool' = tool
    BY DEF Hand, Call, NotFound, Start, TakeAnswer, Leave, Send, Return, calcVars, fetchVars, searchVars
  <2>2. CalcLeft' = CalcLeft /\ FetchLeft' = FetchLeft /\ FindLeft' = FindLeft
    BY <2>1 DEF CalcLeft, FetchLeft, FindLeft, ReadLimit
  <2>. QED
    BY <2>1, <2>2 DEF WorkLeft
<1>2. CASE NotFound
  <2>1. CallerLeft = 2 /\ CallerLeft' = 0 /\ goroutine' = goroutine
    BY <1>2 DEF NotFound, CallerLeft
  <2>. QED
    BY <1>0, <1>1, <2>1 DEF StepsLeft
<1>3. CASE Start
  <2>1. CallerLeft = 2 /\ CallerLeft' = 1 /\ goroutine = "none" /\ goroutine' = "running"
    BY <1>0, <1>3 DEF Start, CallerLeft, ExecInv
  <2>. QED
    BY <1>0, <1>1, <2>1 DEF StepsLeft
<1>4. CASE TakeAnswer \/ Leave
  <2>1. CallerLeft = 1 /\ CallerLeft' = 0 /\ goroutine' = goroutine
    BY <1>4 DEF TakeAnswer, Leave, Return, CallerLeft
  <2>. QED
    BY <1>0, <1>1, <2>1 DEF StepsLeft
<1>5. CASE Send
  <2>1. CallerLeft' = CallerLeft /\ goroutine = "sending" /\ goroutine' = "done"
    BY <1>5 DEF Send, CallerLeft
  <2>. QED
    BY <1>0, <2>1 DEF StepsLeft
<1>. QED
  BY <1>2, <1>3, <1>4, <1>5 DEF Hand, Call

(* An execution is over after a number of steps that is known from the     *)
(* start: what is left to do is a natural number, and every step of the    *)
(* caller or the goroutine leaves less, whatever is asked for              *)
(* (registry.go:72-129).                                                   *)
THEOREM ExecutionsEnd == Spec => ExecutionAdvances /\ [](StepsLeft \in Nat)
<1>1. Init => CalcTypeOK
  <2> SUFFICES ASSUME Init PROVE CalcTypeOK
    OBVIOUS
  <2>1. PICK e : CalcStart(e) /\ e.text \in Seq(Alphabet)
    <3>1. CASE tool = "calculator"
      BY <3>1, CalculatorAssumption DEF Init, CalcInit
    <3>2. CASE tool # "calculator"
      BY <3>2, NoExprMeans DEF Init
    <3>. QED
      BY <3>1, <3>2
  <2>2. <<>> \in Seq(Alphabet)
    BY EmptySeq
  <2>. QED
    BY <2>1, <2>2 DEF CalcStart, CalcTypeOK
<1>2. ToolsInv /\ CalcTypeOK /\ [Next]_vars => CalcTypeOK'
  BY PartsOfStep, CalcTypeStep
<1>3. Spec => []AdvancingInv
  BY <1>1, <1>2, ToolsSafe, PTL DEF Spec, AdvancingInv
<1>4. AdvancingInv /\ (WorkLeft \in Nat)' /\ [Next]_vars
      => [(Work \/ Hand) /\ UNCHANGED deleted => StepsLeft' < StepsLeft]_vars
  BY WorkAdvances, HandAdvances
<1>5. AdvancingInv => WorkLeft \in Nat /\ StepsLeft \in Nat
  BY LeftIsNumber
<1>. QED
  BY <1>3, <1>4, <1>5, PTL DEF Spec, ExecutionAdvances
=============================================================================
