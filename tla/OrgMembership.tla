----------------------------- MODULE OrgMembership -----------------------------
(***************************************************************************)
(* An organization and its members, over the tables organizations and      *)
(* org_members.  Every database call is a step of its own, may fail, and   *)
(* may fail after it took effect; a request may die between two of them.   *)
(* A request checks the role of its actor first and acts on the answer     *)
(* later, whatever became of the actor, the target or the organization.    *)
(***************************************************************************)
EXTENDS Integers

CONSTANTS
  OrgUsers,  \* users; all of them exist as long as the organization does
  Creator,   \* the user who creates the organization
  Changes,   \* requests to change it, as many as may overlap
  NoTarget   \* the target of a request that has none

ASSUME OrgAssumption == Creator \in OrgUsers /\ NoTarget \notin OrgUsers

VARIABLES
  org,       \* status in the table organizations, "none" without a row
  role,      \* role in the table org_members, "none" without a row
  create,    \* where the request that creates the organization is
  at,        \* where any other request is
  target,    \* the member it is about
  wanted,    \* the role it wants to give
  \* history
  lossy,     \* the creation broke off or a clean-up failed
  demoted,   \* users who lost the role of owner
  out        \* users removed, with no invitation under way or sent since

orgTables  == <<org, role>>
changeVars == <<at, target, wanted>>
orgHistory == <<lossy, demoted, out>>
orgVars    == <<orgTables, create, changeVars, orgHistory>>

-----------------------------------------------------------------------------
Roles == {"owner", "admin", "member", "viewer"}

Rank(r) == CASE r = "owner" -> 40 [] r = "admin" -> 30 [] r = "member" -> 20
             [] r = "viewer" -> 10 [] OTHER -> -1

AtLeast(r, min) == Rank(r) >= Rank(min)
Valid(r) == Rank(r) > 0

(* What a request may ask for, one name standing for all that are no role. *)
Asked == Roles \cup {"bogus"}

(* rbac.Checker.Require                                                    *)
Require(u, min) == role[u] # "none" /\ AtLeast(role[u], min)

Goto(q, here, next) == at[q] = here /\ at' = [at EXCEPT ![q] = next]

(* OrgMemberRepo.Upsert overwrites whatever role there is.                 *)
Upsert(u, r) ==
  /\ role' = [role EXCEPT ![u] = r]
  /\ demoted' = demoted \cup {v \in {u} : role[v] = "owner" /\ r # "owner"}

Inviting(u) == \E q \in Changes : at[q] = "invite" /\ target[q] = u

-----------------------------------------------------------------------------
(* Create: the organization, its owner, and the clean-up between the two.  *)

InsertOrg ==
  /\ create = "idle" /\ create' = "enroll"
  /\ org' = "active"
  /\ UNCHANGED <<role, changeVars, orgHistory>>

(* Had the row been written, it stays, without members.                    *)
InsertOrgError ==
  /\ create = "idle" /\ create' = "failed"
  /\ org' \in {"none", "active"}
  /\ lossy' = TRUE
  /\ UNCHANGED <<role, changeVars, demoted, out>>

Enroll ==
  /\ create = "enroll" /\ create' = "done"
  /\ Upsert(Creator, "owner")
  /\ UNCHANGED <<org, changeVars, lossy, out>>

(* Mutant of EnrollError: the organization is reported as created.          *)
EnrollErrorIgnored ==
  /\ create = "enroll" /\ create' = "done"
  /\ \/ Upsert(Creator, "owner")
     \/ UNCHANGED <<role, demoted>>
  /\ UNCHANGED <<org, changeVars, lossy, out>>

EnrollError ==
  /\ create = "enroll" /\ create' = "cleanUp"
  /\ \/ Upsert(Creator, "owner")
     \/ UNCHANGED <<role, demoted>>
  /\ UNCHANGED <<org, changeVars, lossy, out>>

(* The whole row is written back, as deleted; an error is dropped.         *)
CleanUp ==
  /\ create = "cleanUp" /\ create' = "failed"
  /\ \/ org' = "deleted" /\ UNCHANGED lossy
     \/ org' \in {org, "deleted"} /\ lossy' = TRUE
  /\ UNCHANGED <<role, changeVars, demoted, out>>

-----------------------------------------------------------------------------
(* Every other request starts with the role check of its actor.            *)

Begin(q, u, v, r) ==
  /\ Require(u, "admin")
  /\ target' = [target EXCEPT ![q] = v]
  /\ wanted' = [wanted EXCEPT ![q] = r]
  /\ UNCHANGED <<orgTables, create, lossy, demoted>>

BeginRename(q, u) ==
  Goto(q, "idle", "getOrg") /\ Begin(q, u, u, "none") /\ UNCHANGED out

(* Mutant of BeginInvite: ownership can be given away.                      *)
BeginInviteAnyRole(q, u, v, r) ==
  /\ Valid(r)
  /\ Goto(q, "idle", "invite")
  /\ Begin(q, u, v, r)
  /\ out' = out \ {v}

BeginInvite(q, u, v, r) ==
  /\ Valid(r) /\ r # "owner"
  /\ Goto(q, "idle", "invite")
  /\ Begin(q, u, v, r)
  /\ out' = out \ {v}

BeginRemove(q, u, v) ==
  Goto(q, "idle", "getMember") /\ Begin(q, u, v, "none") /\ UNCHANGED out

(* A read that failed, or said no, ends the request, and so does a write   *)
(* of a member that did not take effect.                                   *)
GiveUp(q) ==
  /\ \E here \in {"getOrg", "getMember", "invite"} : Goto(q, here, "idle")
  /\ UNCHANGED <<orgTables, create, target, wanted, orgHistory>>

GetOrg(q) ==
  /\ org = "active"
  /\ Goto(q, "getOrg", "rename")
  /\ UNCHANGED <<orgTables, create, target, wanted, orgHistory>>

(* OrgRepo.Update writes the status back that was read.                    *)
RenameOrg(q) ==
  /\ Goto(q, "rename", "idle")
  /\ org' = "active"
  /\ UNCHANGED <<role, create, target, wanted, orgHistory>>

RenameOrgError(q) ==
  /\ Goto(q, "rename", "idle")
  /\ org' \in {org, "active"}
  /\ UNCHANGED <<role, create, target, wanted, orgHistory>>

(* Whether or not the caller learns of it.                                 *)
UpsertMember(q) ==
  /\ Goto(q, "invite", "idle")
  /\ Upsert(target[q], wanted[q])
  /\ UNCHANGED <<org, create, target, wanted, lossy, out>>

(* Mutant of GetMember: the role of the target is not looked at.            *)
GetAnyMember(q) ==
  /\ Goto(q, "getMember", "remove")
  /\ role[target[q]] # "none"
  /\ UNCHANGED <<orgTables, create, target, wanted, orgHistory>>

GetMember(q) ==
  /\ Goto(q, "getMember", "remove")
  /\ role[target[q]] \notin {"none", "owner"}
  /\ UNCHANGED <<orgTables, create, target, wanted, orgHistory>>

(* The row is deleted by its key; a row that is gone already is an error.  *)
Remove(q) ==
  LET v == target[q] IN
  /\ Goto(q, "remove", "idle")
  /\ role' = [role EXCEPT ![v] = "none"]
  /\ out' = IF role[v] = "none" \/ Inviting(v) THEN out ELSE out \cup {v}
  /\ UNCHANGED <<org, create, target, wanted, lossy, demoted>>

(* Mutant of RemoveError: the removal is reported as done.                  *)
RemoveErrorIgnored(q) ==
  LET v == target[q] IN
  /\ Goto(q, "remove", "idle")
  /\ role' \in {role, [role EXCEPT ![v] = "none"]}
  /\ out' = IF role[v] = "none" \/ Inviting(v) THEN out ELSE out \cup {v}
  /\ UNCHANGED <<org, create, target, wanted, lossy, demoted>>

RemoveError(q) ==
  /\ Goto(q, "remove", "idle")
  /\ role' \in {role, [role EXCEPT ![target[q]] = "none"]}
  /\ UNCHANGED <<org, create, target, wanted, orgHistory>>

-----------------------------------------------------------------------------
(* The process of a request dies.                                          *)

CrashCreate ==
  /\ create \in {"enroll", "cleanUp"} /\ create' = "failed"
  /\ lossy' = TRUE
  /\ UNCHANGED <<orgTables, changeVars, demoted, out>>

Crash(q) ==
  /\ \E here \in {"rename", "remove"} : Goto(q, here, "idle")
  /\ UNCHANGED <<orgTables, create, target, wanted, orgHistory>>

-----------------------------------------------------------------------------
OrgInit ==
  /\ org = "none"
  /\ role = [u \in OrgUsers |-> "none"]
  /\ create = "idle"
  /\ at = [q \in Changes |-> "idle"]
  /\ target = [q \in Changes |-> NoTarget]
  /\ wanted = [q \in Changes |-> "none"]
  /\ lossy = FALSE /\ demoted = {} /\ out = {}

CreateOrg == InsertOrg \/ InsertOrgError \/ Enroll \/ EnrollError \/ CleanUp \/ CrashCreate

Change(q) ==
  \/ \E u \in OrgUsers : BeginRename(q, u)
  \/ \E u, v \in OrgUsers : BeginRemove(q, u, v)
  \/ \E u, v \in OrgUsers, r \in Asked : BeginInvite(q, u, v, r)
  \/ GiveUp(q) \/ GetOrg(q) \/ RenameOrg(q) \/ RenameOrgError(q) \/ UpsertMember(q)
  \/ GetMember(q) \/ Remove(q) \/ RemoveError(q) \/ Crash(q)

OrgNext == CreateOrg \/ \E q \in Changes : Change(q)

OrgSpec == OrgInit /\ [][OrgNext]_orgVars
=============================================================================
