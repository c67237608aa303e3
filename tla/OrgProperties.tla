----------------------------- MODULE OrgProperties -----------------------------
(* What holds of an organization and its members, and what does not.       *)
EXTENDS OrgMembership

ChangeStages == {"idle", "getOrg", "rename", "invite", "getMember", "remove"}

(* Every variable has its type.                                            *)
OrgTypeOK ==
  /\ org \in {"none", "active", "deleted"}
  /\ role \in [OrgUsers -> Roles \cup {"none"}]
  /\ create \in {"idle", "enroll", "cleanUp", "done", "failed"}
  /\ at \in [Changes -> ChangeStages]
  /\ target \in [Changes -> OrgUsers \cup {NoTarget}]
  /\ wanted \in [Changes -> Roles \cup {"none"}]
  /\ lossy \in BOOLEAN
  /\ demoted \subseteq OrgUsers /\ out \subseteq OrgUsers

(* Nobody but the creator is ever an owner, whatever invitations overlap   *)
(* (service.go:135).                                                       *)
OneOwner == \A u \in OrgUsers : role[u] = "owner" => u = Creator

(* No step takes an owner out, although the role is checked one step, and  *)
(* the actor's two steps, before the row is deleted (service.go:159-174).  *)
OwnersAreNotRemoved == [][\A u \in OrgUsers : role[u] = "owner" => role'[u] # "none"]_orgVars

(* An organization is never active without an owner, unless the owner was  *)
(* demoted or the creation could not clean up (service.go:33-35).          *)
NoOwnerlessOrg ==
  create \in {"done", "failed"} /\ org = "active" /\ role[Creator] # "owner" =>
    lossy \/ Creator \in demoted

(* Who was removed stays out until somebody who was an admin after that    *)
(* invites them again (service.go:174).                                    *)
RemovalSticks == \A u \in out : role[u] = "none"

(* Claim of service.go:159 and 172: the owner of an organization cannot be *)
(* removed.                                                                *)
OwnerIsKept == create = "done" => role[Creator] # "none"

-----------------------------------------------------------------------------
(* The inductive strengthening of the safety properties.                   *)

(* Before the creator is enrolled, nobody can do anything.                 *)
Untouched ==
  /\ \A u \in OrgUsers : role[u] = "none"
  /\ \A q \in Changes : at[q] = "idle"
  /\ demoted = {} /\ out = {}

CreateInv ==
  /\ create \in {"idle", "enroll"} => Untouched
  /\ role[Creator] = "owner" \/ Creator \in demoted \/ Untouched
  /\ create = "done" => role[Creator] = "owner" \/ Creator \in demoted
  /\ create = "failed" /\ Untouched /\ org = "active" => lossy

(* An invitation never gives ownership, and a removal under way is not one *)
(* of an owner.                                                            *)
RequestInv ==
  \A q \in Changes :
    /\ at[q] = "invite" => wanted[q] \in Roles \ {"owner"} /\ target[q] \in OrgUsers \ out
    /\ at[q] \in {"getMember", "remove"} => target[q] \in OrgUsers
    /\ at[q] = "remove" => role[target[q]] # "owner"

OrgInv == OrgTypeOK /\ OneOwner /\ RemovalSticks /\ CreateInv /\ RequestInv
=============================================================================
