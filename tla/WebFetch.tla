-------------------------------- MODULE WebFetch --------------------------------
(***************************************************************************)
(* The web_fetch tool: one page, over as many redirects as are allowed,    *)
(* each target checked like the first; of the page no more than            *)
(* MaxBodyBytes are read, and of its text no more than MaxChars returned.  *)
(* The server answers anything, in pieces of any size.  A check looks the  *)
(* host of its address up, and no two lookups need agree: neither those of *)
(* two checks, nor the one of a check and that of the transport, which     *)
(* looks the host up again to dial and of which nothing is said here.      *)
(***************************************************************************)
EXTENDS Naturals, Sequences

CONSTANTS
  Urls,          \* addresses a page may name
  Malformed,     \* those without a host, or of a scheme, port or name that is not allowed
  Ips,           \* what a host may be looked up as
  Private,       \* those of a private network
  MaxRedirects,
  MaxBodyBytes,
  LongestBody,   \* bound of the model
  CharLimits,    \* <<default, least, most>> of max_chars
  CharsAsked     \* max_chars of the request

ASSUME FetchAssumption ==
  /\ Malformed \subseteq Urls /\ Private \subseteq Ips
  /\ MaxRedirects \in Nat \ {0} /\ MaxBodyBytes \in Nat \ {0}   \* New replaces 0
  /\ CharLimits \in Nat \X Nat \X Nat /\ CharsAsked \subseteq Nat

VARIABLES
  url,       \* what is asked for next
  via,       \* what was asked for
  checks,    \* history: the checks that were passed, with what they looked up
  maxChars,
  body,      \* bytes of the page: those left to read
  got,       \* bytes read
  page,      \* history: characters of text in the bytes that were kept
  result,    \* characters returned, and the flag "truncated"
  fetch      \* where Fetch is

fetchVars == <<url, via, checks, maxChars, body, got, page, result, fetch>>

FetchFails ==
  /\ fetch' = "failed"
  /\ UNCHANGED <<url, via, checks, maxChars, body, got, page, result>>

-----------------------------------------------------------------------------
(* max_chars, put between its limits.                                      *)
Chars(n) ==
  IF n = 0 THEN CharLimits[1]
  ELSE IF n < CharLimits[2] THEN CharLimits[2]
  ELSE IF n > CharLimits[3] THEN CharLimits[3] ELSE n

IsPrivateIP(ip) == ip \in Private

(* ValidateURL, when the host of u is looked up as ips.                    *)
Valid(u, ips) == u \notin Malformed /\ ips # {} /\ \A ip \in ips : ~IsPrivateIP(ip)

Passed(u, ips) == checks' = Append(checks, [url |-> u, ips |-> ips])

ValidateUrl(ips) ==
  /\ fetch = "validate"
  /\ IF ~Valid(url, ips) THEN FetchFails
     ELSE /\ fetch' = "request" /\ Passed(url, ips)
          /\ UNCHANGED <<url, via, maxChars, body, got, page, result>>

(* Mutant of MayFollow: a redirect is followed before its target is checked. *)
MayFollowUnchecked(u, ips) == Len(via') < MaxRedirects

(* CheckRedirect.                                                          *)
MayFollow(u, ips) == Len(via') < MaxRedirects /\ Valid(u, ips)

Redirect(u, ips) ==
  /\ fetch = "request"
  /\ via' = Append(via, url)
  /\ IF MayFollow(u, ips) THEN url' = u /\ Passed(u, ips) /\ UNCHANGED fetch
     ELSE fetch' = "failed" /\ UNCHANGED <<url, checks>>
  /\ UNCHANGED <<maxChars, body, got, page, result>>

AllowedContentType(type) == type = "text"

(* A page of n bytes.                                                      *)
Page(n, status, type) ==
  /\ fetch = "request"
  /\ via' = Append(via, url)
  /\ fetch' = IF status = "2xx" /\ AllowedContentType(type) THEN "read" ELSE "failed"
  /\ body' = n
  /\ UNCHANGED <<url, checks, maxChars, got, page, result>>

-----------------------------------------------------------------------------
(* One byte more than is kept, to tell a page that ends there.             *)
ReadLimit == MaxBodyBytes + 1

(* limitReader.Read, called by ReadAll until it says EOF.                  *)
ReadSome(n) ==
  /\ fetch = "read" /\ body > 0 /\ got < ReadLimit
  /\ n <= body /\ n <= ReadLimit - got
  /\ got' = got + n /\ body' = body - n
  /\ UNCHANGED <<url, via, checks, maxChars, page, result, fetch>>

Kept == IF got > MaxBodyBytes THEN MaxBodyBytes ELSE got

(* The lengths of the text extractText and normalizeSpace may make of them. *)
TextOf(bytes) == 0..bytes

Extract(chars) ==
  LET cut == chars > maxChars IN
  /\ fetch = "read" /\ (body = 0 \/ got = ReadLimit)
  /\ chars \in TextOf(Kept)
  /\ page' = chars
  /\ result' = [chars |-> IF cut THEN maxChars ELSE chars,
                truncated |-> got > MaxBodyBytes \/ cut]
  /\ fetch' = "done"
  /\ UNCHANGED <<url, via, checks, maxChars, body, got>>

(* The host has no address, the connection breaks, the client's timeout or *)
(* the context ends.                                                       *)
FetchError == fetch \in {"validate", "request", "read"} /\ FetchFails

-----------------------------------------------------------------------------
FetchStart(u, n) ==
  /\ url = u /\ maxChars = Chars(n)
  /\ via = <<>> /\ checks = <<>> /\ body = 0 /\ got = 0 /\ page = 0
  /\ result = [chars |-> 0, truncated |-> FALSE]
  /\ fetch = "validate"

FetchInit == \E u \in Urls, n \in CharsAsked : FetchStart(u, n)

FetchNext ==
  \/ \E ips \in SUBSET Ips : ValidateUrl(ips) \/ \E u \in Urls : Redirect(u, ips)
  \/ \E n \in 0..LongestBody, status \in {"2xx", "other"}, type \in {"text", "other", "none"} :
       Page(n, status, type)
  \/ \E n \in 1..ReadLimit : ReadSome(n)
  \/ \E chars \in 0..MaxBodyBytes : Extract(chars)
  \/ FetchError

FetchSpec == FetchInit /\ [][FetchNext]_fetchVars

-----------------------------------------------------------------------------
(* Every request, the first and each redirect, was preceded by a check of  *)
(* its own address that found no private one, whatever the lookups before  *)
(* and after it say; there are no more than MaxRedirects of them; and a    *)
(* page is flagged as truncated exactly when something of it is missing:   *)
(* bytes that were not read or not kept, or text behind max_chars.  In     *)
(* whatever pieces the body arrives, a page of exactly MaxBodyBytes is not *)
(* flagged (fetcher.go:73-85, 92-155, 174-202).                            *)
EachChecked(vs, cs) ==
  \A i \in DOMAIN vs :
    i \in DOMAIN cs /\ cs[i].url = vs[i] /\ Valid(cs[i].url, cs[i].ips)

NothingCutSilently ==
  /\ EachChecked(via, checks) /\ Len(via) <= MaxRedirects
  /\ fetch = "done" =>
       (result.truncated <=> got + body > MaxBodyBytes \/ result.chars < page)

FetchTypeOK ==
  /\ via \in Seq(Urls) /\ url \in Urls
  /\ checks \in Seq([url : Urls, ips : SUBSET Ips])
  /\ {maxChars, body, got, page} \subseteq Nat
  /\ result \in [chars : Nat, truncated : BOOLEAN]
  /\ fetch \in {"validate", "request", "read", "failed", "done"}

(* A request goes out only while there are some left, and its address is   *)
(* that of the last check.                                                 *)
Checked ==
  /\ fetch = "validate" => via = <<>> /\ checks = <<>>
  /\ fetch = "request" =>
       Len(via) < MaxRedirects /\ Len(checks) = Len(via) + 1 /\ EachChecked(Append(via, url), checks)

(* The inductive invariant.                                                *)
FetchInv == FetchTypeOK /\ Checked /\ NothingCutSilently
=============================================================================
