-------------------------------- MODULE Accounts --------------------------------
(***************************************************************************)
(* Accounts and the tokens that stand for them: registration, login,       *)
(* switching to an organization, and the middlewares Auth and Tenant in    *)
(* front of everything that belongs to one.                                *)
(*                                                                         *)
(* A client has a password of its own and keeps the last token it was      *)
(* given, which names a user and perhaps an organization until it expires. *)
(* Members come and go meanwhile (OrgMembership).                          *)
(***************************************************************************)
EXTENDS Naturals

CONSTANTS
  Clients, Emails, Orgs,
  Lifetime,   \* hours a token is valid
  LastHour    \* bound: of the clock

ASSUME AccountsAssumption == Lifetime \in Nat \ {0}

VARIABLES
  accounts,  \* rows of users: [email, password], the password being its client
  enrolled,  \* active rows of org_members: <<user, organization>>
  token,     \* [user, org, until] each client holds; until is 0 for none
  visit,     \* the request of each client: [at, user, org, email, came]
  hour,      \* the clock
  welcomed,  \* history: <<email, client>> of registrations answered with a token
  known,     \* history: those of them that came before the client's request
  within     \* history: rows of org_members there were since it came

accountVars == <<accounts, enrolled, token, visit, hour, welcomed, known, within>>

-----------------------------------------------------------------------------
NoAccount == [email |-> "none", password |-> "none"]
NoToken   == [user |-> NoAccount, org |-> "none", until |-> 0]

Idle == {"none", "welcome", "token", "taken", "invalid", "error", "expired",
         "me", "no org", "forbidden", "served"}

(* A new request: the client has an answer to the one before.              *)
Arrives(c, at, email, org) ==
  /\ visit[c].at \in Idle
  /\ visit' = [visit EXCEPT ![c] = [at |-> at, user |-> NoAccount, org |-> org,
                                    email |-> email, came |-> hour]]
  /\ known' = [known EXCEPT ![c] = welcomed]
  /\ within' = [within EXCEPT ![c] = enrolled]
  /\ UNCHANGED <<accounts, enrolled, token, hour, welcomed>>

(* A step of a request, for the user it has found out.                     *)
Moves(c, from, to, user) ==
  /\ visit[c].at = from
  /\ visit' = [visit EXCEPT ![c].at = to, ![c].user = user]
  /\ UNCHANGED <<enrolled, hour, known, within>>

Goes(c, from, to) ==
  /\ Moves(c, from, to, visit[c].user)
  /\ UNCHANGED <<accounts, token, welcomed>>

Of(email) == {u \in accounts : u.email = email}

-----------------------------------------------------------------------------
(* Register and Login, with a sound address and password.                  *)
Register(c, email) == Arrives(c, "lookup", email, "none")

Login(c, email) == Arrives(c, "find", email, "none")

LookUp(c) == Goes(c, "lookup", IF Of(visit[c].email) = {} THEN "insert" ELSE "taken")

(* The unique index on the address.                                        *)
Insert(user) == Of(user.email) = {} /\ accounts' = accounts \cup {user}

InsertUser(c) ==
  LET user == [email |-> visit[c].email, password |-> c] IN
  /\ Insert(user) /\ Moves(c, "insert", "register", user)
  /\ UNCHANGED <<token, welcomed>>

InsertTaken(c) == Of(visit[c].email) # {} /\ Goes(c, "insert", "taken")

(* The insertion fails, perhaps after it took effect.                      *)
InsertError(c) ==
  /\ Moves(c, "insert", "error", NoAccount)
  /\ Insert([email |-> visit[c].email, password |-> c]) \/ UNCHANGED accounts
  /\ UNCHANGED <<token, welcomed>>

FindUser(c) ==
  \E u \in Of(visit[c].email) : Moves(c, "find", "verify", u) /\ UNCHANGED <<accounts, token, welcomed>>

NoUser(c) == Of(visit[c].email) = {} /\ Goes(c, "find", "invalid")

Verify(c) == Goes(c, "verify", IF visit[c].user.password = c THEN "login" ELSE "invalid")

(* issue: the client keeps the token it is answered with.                  *)
Issue(c, at, answer, org) ==
  /\ Moves(c, at, answer, visit[c].user)
  /\ token' = [token EXCEPT ![c] = [user |-> visit[c].user, org |-> org, until |-> hour + Lifetime]]
  /\ UNCHANGED accounts

Welcome(c) ==
  /\ Issue(c, "register", "welcome", "none")
  /\ welcomed' = welcomed \cup {<<visit[c].email, c>>}

SignIn(c) == Issue(c, "login", "token", "none") /\ UNCHANGED welcomed

-----------------------------------------------------------------------------
(* A request that shows its token: for the user behind it, to switch to an *)
(* organization, or for what belongs to one, named in a header or not.     *)
Shows(c, at, org) == token[c] # NoToken /\ Arrives(c, at, "none", org)

AskMe(c) == Shows(c, "me?", "none")
AskToSwitch(c, org) == Shows(c, "switch?", org)
AskTenant(c, header) == Shows(c, "tenant?", header)

Expired(c) == hour >= token[c].until

(* Auth, where each request goes on as it is meant to.                     *)
Auth(c, from, to) ==
  /\ Moves(c, from, IF Expired(c) THEN "expired" ELSE to, token[c].user)
  /\ UNCHANGED <<accounts, token, welcomed>>

TokenShown(c) == Auth(c, "me?", "getUser") \/ Auth(c, "switch?", "switch") \/ Auth(c, "tenant?", "tenant")

Me(c) == visit[c].user \in accounts /\ Goes(c, "getUser", "me")

(* Mutant of MayEnter: the organization of a token was checked at its issue. *)
MayEnterByToken(c, org) == token[c].org = org \/ <<visit[c].user, org>> \in enrolled

(* Require, with the least role.                                           *)
MayEnter(c, org) == <<visit[c].user, org>> \in enrolled

SwitchOrg(c) == Goes(c, "switch", IF MayEnter(c, visit[c].org) THEN "issue" ELSE "forbidden")

IssueForOrg(c) == Issue(c, "issue", "token", visit[c].org) /\ UNCHANGED welcomed

(* The header goes first.                                                  *)
Resolved(c) == IF visit[c].org # "none" THEN visit[c].org ELSE token[c].org

Tenant(c) ==
  LET org == Resolved(c) IN
  /\ visit[c].at = "tenant"
  /\ visit' = [visit EXCEPT ![c].org = org,
                            ![c].at = IF org = "none" THEN "no org"
                                      ELSE IF MayEnter(c, org) THEN "served" ELSE "forbidden"]
  /\ UNCHANGED <<accounts, enrolled, token, hour, welcomed, known, within>>

(* A lookup, a hash or a signature fails: what was written before stays.   *)
VisitFails(c) ==
  \E at \in {"lookup", "register", "find", "verify", "login", "getUser", "switch", "issue", "tenant"} :
    Goes(c, at, "error")

-----------------------------------------------------------------------------
Join(user, org) ==
  /\ <<user, org>> \notin enrolled /\ enrolled' = enrolled \cup {<<user, org>>}
  /\ within' = [c \in Clients |-> within[c] \cup {<<user, org>>}]
  /\ UNCHANGED <<accounts, token, visit, hour, welcomed, known>>

Leave(user, org) ==
  /\ <<user, org>> \in enrolled /\ enrolled' = enrolled \ {<<user, org>>}
  /\ UNCHANGED <<accounts, token, visit, hour, welcomed, known, within>>

HourPasses ==
  /\ hour < LastHour /\ hour' = hour + 1
  /\ UNCHANGED <<accounts, enrolled, token, visit, welcomed, known, within>>

-----------------------------------------------------------------------------
AccountsInit ==
  /\ accounts = {} /\ enrolled = {} /\ hour = 0 /\ welcomed = {}
  /\ token = [c \in Clients |-> NoToken]
  /\ visit = [c \in Clients |->
       [at |-> "none", user |-> NoAccount, org |-> "none", email |-> "none", came |-> 0]]
  /\ known = [c \in Clients |-> {}] /\ within = [c \in Clients |-> {}]

SignUp(c) == LookUp(c) \/ InsertUser(c) \/ InsertTaken(c) \/ InsertError(c) \/ Welcome(c)
LogIn(c)  == FindUser(c) \/ NoUser(c) \/ Verify(c) \/ SignIn(c)
Enter(c)  == TokenShown(c) \/ Me(c) \/ SwitchOrg(c) \/ IssueForOrg(c) \/ Tenant(c)

Sends(c) ==
  \/ \E email \in Emails : Register(c, email) \/ Login(c, email)
  \/ AskMe(c)
  \/ \E org \in Orgs : AskToSwitch(c, org)
  \/ \E header \in Orgs \cup {"none"} : AskTenant(c, header)

AccountsNext ==
  \/ \E c \in Clients : Sends(c) \/ SignUp(c) \/ LogIn(c) \/ Enter(c) \/ VisitFails(c)
  \/ \E user \in accounts, org \in Orgs : Join(user, org) \/ Leave(user, org)
  \/ HourPasses

AccountsSpec == AccountsInit /\ [][AccountsNext]_accountVars

-----------------------------------------------------------------------------
(* What clients are told is so, although lookup and insertion, and check   *)
(* and answer, are steps apart and a call may fail after its effect: an    *)
(* address has one account, whoever was welcomed is never refused with     *)
(* their password again, whoever is told that an address is taken finds it *)
(* so; and nobody is let into an organization by a token that expired, or  *)
(* in which they were no member at any time since the request came,        *)
(* whatever their token says (auth/service.go:55-128, tenant.go:30-47).    *)
AccountsAreSound ==
  /\ \A u, v \in accounts : u.email = v.email => u = v
  /\ \A c \in Clients :
       LET v == visit[c] IN
       /\ v.at = "invalid" => <<v.email, c>> \notin known[c]
       /\ v.at = "taken" => Of(v.email) # {}
       /\ v.at \in {"me", "served"} => v.came < token[c].until
       /\ v.at = "served" => <<v.user, v.org>> \in within[c]

Account == [email : Emails \cup {"none"}, password : Clients \cup {"none"}]

Places ==
  Idle \cup {"lookup", "insert", "register", "find", "verify", "login", "me?", "switch?",
             "tenant?", "getUser", "switch", "issue", "tenant"}

AccountsTypeOK ==
  /\ accounts \subseteq Account /\ enrolled \subseteq Account \X Orgs
  /\ token \in [Clients -> [user : Account, org : Orgs \cup {"none"}, until : Nat]]
  /\ visit \in [Clients -> [at : Places, user : Account, org : Orgs \cup {"none"},
                            email : Emails \cup {"none"}, came : Nat]]
  /\ hour \in Nat
  /\ welcomed \subseteq (Emails \cup {"none"}) \X Clients
  /\ known \in [Clients -> SUBSET ((Emails \cup {"none"}) \X Clients)]
  /\ within \in [Clients -> SUBSET (Account \X Orgs)]

OneAccount == \A u, v \in accounts : u.email = v.email => u = v

(* Whoever was welcomed has an account with their password.                *)
WelcomedStay == \A w \in welcomed : \E u \in accounts : w = <<u.email, u.password>>

(* What a request knows on its way to its answer, and at its answer.       *)
VisitSound(c) ==
  LET v == visit[c] IN
  /\ v.came <= hour /\ known[c] \subseteq welcomed /\ enrolled \subseteq within[c]
  /\ v.at = "register" => v.user \in accounts /\ v.user.email = v.email /\ v.user.password = c
  /\ v.at = "verify" => v.user \in accounts /\ v.user.email = v.email
  /\ v.at \in {"getUser", "me", "tenant", "served"} => v.came < token[c].until
  /\ v.at = "invalid" => <<v.email, c>> \notin known[c]
  /\ v.at = "taken" => Of(v.email) # {}
  /\ v.at = "served" => <<v.user, v.org>> \in within[c]

(* The inductive invariant.                                                *)
AccountsInv ==
  AccountsTypeOK /\ OneAccount /\ WelcomedStay /\ \A c \in Clients : VisitSound(c)
=============================================================================
