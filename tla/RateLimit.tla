-------------------------------- MODULE RateLimit -------------------------------
(***************************************************************************)
(* The middleware every /v1 request passes: fixed windows of a minute,     *)
(* counted in Redis per user and per address.  The window of a request is  *)
(* taken from the clock first and counted later; requests overlap.         *)
(***************************************************************************)
EXTENDS Naturals, FiniteSets

CONSTANTS
  Requests,
  Users, Addresses,
  PerUser, PerIP,    \* the limits; 0 for none
  Window,            \* ticks of a minute
  Slowest,           \* bound: ticks a request takes in the middleware
  LastTick           \* bound: of the clock

(* Users and addresses have keys of their own; an unknown user is none.    *)
ASSUME RateAssumption ==
  /\ {PerUser, PerIP, LastTick} \subseteq Nat /\ Window \in Nat \ {0}
  /\ IsFiniteSet(Requests)
  /\ Users \cap Addresses = {} /\ "nobody" \notin Users

VARIABLES
  now,
  counters,  \* Redis: the value of each key, 0 for none
  expiry,    \* Redis: when it expires, 0 for none
  request,   \* [at, user, known, ip, came, window, counted, over, retry] of each request
  failedOpen \* history: requests that met a Redis error

rateVars == <<now, counters, expiry, request, failedOpen>>

-----------------------------------------------------------------------------
(* Mutant of WindowAt: one key for all windows.                             *)
WindowAtNone(t) == 0

WindowAt(t) == t \div Window

Owners == Users \cup Addresses
Keys   == Owners \X (0..WindowAt(LastTick))

(* An instant behind all others.                                           *)
Never == LastTick + Window + 1

(* The request gets its window.  Authentication comes after this           *)
(* middleware, so that there is no user in the context yet.                *)
Arrive(r, user, ip) ==
  /\ request[r].at = "new"
  /\ request' = [request EXCEPT ![r] =
       [at |-> "user", user |-> user, known |-> "nobody", ip |-> ip,
        came |-> now, window |-> WindowAt(now), counted |-> now, over |-> "no", retry |-> 0]]
  /\ UNCHANGED <<now, counters, expiry, failedOpen>>

Over(n, limit) == n > limit

(* exceed: INCR and EXPIRE, for refused requests as well.                  *)
Count(r, owner, limit, next) ==
  LET key == <<owner, request[r].window>>
      n   == counters[key] + 1 IN
  /\ counters' = [counters EXCEPT ![key] = n]
  /\ expiry' = [expiry EXCEPT ![key] = now + Window]
  /\ request' = [request EXCEPT ![r].at = IF Over(n, limit) THEN "ttl" ELSE next,
                                ![r].counted = now, ![r].over = IF Over(n, limit) THEN owner ELSE "no"]
  /\ UNCHANGED <<now, failedOpen>>

Skip(r, next) ==
  /\ request' = [request EXCEPT ![r].at = next]
  /\ UNCHANGED <<now, counters, expiry, failedOpen>>

CountUser(r) ==
  /\ request[r].at = "user"
  /\ IF PerUser = 0 \/ request[r].known \notin Users THEN Skip(r, "ip")
     ELSE Count(r, request[r].known, PerUser, "ip")

CountIP(r) ==
  /\ request[r].at = "ip"
  /\ IF PerIP = 0 THEN Skip(r, "admitted") ELSE Count(r, request[r].ip, PerIP, "admitted")

(* An error of Redis, which may have done nothing, the INCR only, or both: *)
(* the request goes on.  A key nobody gave an expiry stays.                *)
RedisError(r) ==
  LET key == <<IF request[r].at = "user" THEN request[r].known ELSE request[r].ip, request[r].window>> IN
  /\ \/ request[r].at = "ip" /\ PerIP > 0
     \/ request[r].at = "user" /\ PerUser > 0 /\ request[r].known \in Users
  /\ request' = [request EXCEPT ![r].at = IF @ = "user" THEN "ip" ELSE "admitted"]
  /\ failedOpen' = failedOpen \cup {r}
  /\ \/ UNCHANGED <<counters, expiry>>
     \/ \E end \in {now + Window, IF counters[key] > 0 THEN expiry[key] ELSE Never} :
          /\ counters' = [counters EXCEPT ![key] = counters[key] + 1]
          /\ expiry' = [expiry EXCEPT ![key] = end]
  /\ UNCHANGED now

(* The answer says after how many seconds to come back: what is left of    *)
(* the key, or a whole window if that is not known, and one more for the   *)
(* fraction.                                                               *)
Refuse(r) ==
  LET key == <<request[r].over, request[r].window>> IN
  /\ request[r].at = "ttl"
  /\ \E left \in {Window} \cup (IF counters[key] > 0 THEN {expiry[key] - now} ELSE {}) :
       request' = [request EXCEPT ![r].at = "refused", ![r].retry = now + 1 + left]
  /\ UNCHANGED <<now, counters, expiry, failedOpen>>

(* Auth: a valid token names the user; without one the request ends where  *)
(* it is.                                                                  *)
Authenticate(r) ==
  /\ request[r].at = "admitted"
  /\ request' = [request EXCEPT ![r].at = "served", ![r].known = request[r].user]
  /\ UNCHANGED <<now, counters, expiry, failedOpen>>

InMiddleware(r) == request[r].at \in {"user", "ip", "ttl"}

(* Redis drops the keys that expire.                                       *)
Alive(key) == now + 1 < expiry[key]

Tick ==
  /\ now < LastTick
  /\ \A r \in Requests : InMiddleware(r) => now < request[r].came + Slowest
  /\ now' = now + 1
  /\ counters' = [key \in Keys |-> IF Alive(key) THEN counters[key] ELSE 0]
  /\ expiry' = [key \in Keys |-> IF Alive(key) THEN expiry[key] ELSE 0]
  /\ UNCHANGED <<request, failedOpen>>

-----------------------------------------------------------------------------
Unborn == [at |-> "new", user |-> "nobody", known |-> "nobody", ip |-> "nowhere",
           came |-> 0, window |-> 0, counted |-> 0, over |-> "no", retry |-> 0]

RateInit ==
  /\ now = 0
  /\ counters = [key \in Keys |-> 0] /\ expiry = [key \in Keys |-> 0]
  /\ request = [r \in Requests |-> Unborn]
  /\ failedOpen = {}

Middleware(r) == CountUser(r) \/ CountIP(r) \/ RedisError(r) \/ Refuse(r) \/ Authenticate(r)

RateNext ==
  \/ \E r \in Requests, user \in Users, ip \in Addresses : Arrive(r, user, ip)
  \/ \E r \in Requests : Middleware(r)
  \/ Tick

RateSpec == RateInit /\ [][RateNext]_rateVars

-----------------------------------------------------------------------------
Passed(r) == request[r].at \in {"admitted", "served"} /\ r \notin failedOpen

Came(r, w) == request[r].at # "new" /\ request[r].came \div Window = w

Counted(r, w) == Came(r, w) /\ request[r].counted \div Window = w

(* In no minute does an address get more requests through than its limit,  *)
(* but for those that met a Redis error or were counted when their minute  *)
(* was over already; a request is refused only when as many others came    *)
(* from its address in the same minute; and who comes back when told to is *)
(* in a later one, although each refused request counts too and renews the *)
(* key (ratelimit.go:31-78).                                               *)
WindowsAreFair ==
  /\ PerIP > 0 => \A w \in 0..(LastTick \div Window), ip \in Addresses :
       Cardinality({r \in Requests : Passed(r) /\ request[r].ip = ip /\ Counted(r, w)}) <= PerIP
  /\ \A r \in Requests : request[r].at = "refused" =>
       LET w == request[r].came \div Window IN
       /\ Cardinality({q \in Requests \ {r} : request[q].ip = request[r].ip /\ Came(q, w)}) >= PerIP
       /\ request[r].retry >= (w + 1) * Window

(* Claim of ratelimit.go:19 (RateLimit enforces per-user and per-IP        *)
(* fixed-window limits): the same for a user.                              *)
UserLimitHolds ==
  \A w \in 0..(LastTick \div Window), u \in Users :
    Cardinality({r \in Requests : /\ request[r].at = "served" /\ r \notin failedOpen
                                  /\ request[r].user = u /\ Counted(r, w)}) <= PerUser

Request ==
  [at : {"new", "user", "ip", "ttl", "refused", "admitted", "served"},
   user : Users \cup {"nobody"}, known : Users \cup {"nobody"},
   ip : Addresses \cup {"nowhere"}, came : Nat, window : Nat, counted : Nat,
   over : Owners \cup {"no"}, retry : Nat]

RateTypeOK ==
  /\ now \in 0..LastTick
  /\ counters \in [Keys -> Nat] /\ expiry \in [Keys -> Nat]
  /\ request \in [Requests -> Request] /\ failedOpen \subseteq Requests

(* Requests of an address that are past its counter, and those it let      *)
(* through; requests that came in the same minute as r.                    *)
Counts(ip, w) ==
  {q \in Requests : /\ request[q].at \in {"ttl", "refused", "admitted", "served"}
                    /\ request[q].ip = ip /\ request[q].window = w}

Through(ip, w) == {q \in Requests : Passed(q) /\ request[q].ip = ip /\ Counted(q, w)}

Others(r) ==
  {q \in Requests \ {r} : request[q].ip = request[r].ip /\ Came(q, request[r].came \div Window)}

RequestSound(r) ==
  LET q == request[r] IN
  /\ q.at # "new" => /\ q.ip \in Addresses /\ q.came <= now /\ q.counted <= now
                     /\ q.window = WindowAt(q.came)
  /\ q.at # "served" => q.known = "nobody"
  /\ q.at = "ttl" => q.over = q.ip
  /\ q.at \in {"ttl", "refused"} => Cardinality(Others(r)) >= PerIP
  /\ q.at = "refused" => q.retry >= (q.window + 1) * Window

(* A key lives until its minute is over, and until then counts at least    *)
(* the requests let through, and never more than have asked.               *)
KeySound(ip, w) ==
  LET n == counters[<<ip, w>>] IN
  /\ n > 0 => expiry[<<ip, w>>] >= (w + 1) * Window
  /\ n <= Cardinality(Counts(ip, w))
  /\ PerIP > 0 => /\ Cardinality(Through(ip, w)) <= PerIP
                  /\ w >= WindowAt(now) => Cardinality(Through(ip, w)) <= n

(* The inductive invariant.                                                *)
RateInv ==
  /\ RateTypeOK
  /\ \A r \in Requests : RequestSound(r)
  /\ \A ip \in Addresses, w \in 0..WindowAt(LastTick) : KeySound(ip, w)
=============================================================================
