------------------------------- MODULE OrgProofs -------------------------------
(***************************************************************************)
(* The safety of an organization and its members, for any number of users  *)
(* and of overlapping requests.                                            *)
(***************************************************************************)
EXTENDS OrgProperties, TLAPS

(* At the start there is no organization.                                  *)
LEMMA InitInv == OrgInit => OrgInv
BY OrgAssumption
   DEF OrgInit, OrgInv, OrgTypeOK, OneOwner, RemovalSticks, CreateInv, RequestInv, Untouched,
       Roles, ChangeStages

-----------------------------------------------------------------------------
(* A request under way was sent by a member.                               *)
LEMMA BusyMeansEnrolled ==
  ASSUME OrgInv, NEW q \in Changes, at[q] # "idle"
  PROVE  ~Untouched /\ create \notin {"idle", "enroll"}
BY DEF OrgInv, CreateInv, Untouched

-----------------------------------------------------------------------------
(* The creation preserves the invariant, and takes nobody's role away.     *)
LEMMA CreatePreserves ==
  ASSUME OrgInv, CreateOrg
  PROVE  OrgInv' /\ (\A u \in OrgUsers : role[u] = "owner" => role'[u] # "none")
<1> USE OrgAssumption
    DEF OrgInv, OrgTypeOK, OneOwner, RemovalSticks, CreateInv, RequestInv, Untouched,
        Roles, ChangeStages, orgHistory, changeVars, Upsert
<1>1. CASE InsertOrg BY <1>1 DEF InsertOrg
<1>2. CASE InsertOrgError BY <1>2 DEF InsertOrgError
<1>3. CASE Enroll BY <1>3 DEF Enroll
<1>4. CASE EnrollError BY <1>4 DEF EnrollError
<1>5. CASE CleanUp BY <1>5 DEF CleanUp
<1>6. CASE CrashCreate BY <1>6 DEF CrashCreate, orgTables
<1> QED BY <1>1, <1>2, <1>3, <1>4, <1>5, <1>6 DEF CreateOrg

(* So does every other request.                                            *)
LEMMA RequestPreserves ==
  ASSUME OrgInv, NEW q \in Changes, Change(q)
  PROVE  OrgInv' /\ (\A u \in OrgUsers : role[u] = "owner" => role'[u] # "none")
<1> USE OrgAssumption
    DEF OrgInv, OrgTypeOK, OneOwner, RemovalSticks, CreateInv, RequestInv, Untouched,
        Roles, ChangeStages, orgHistory, orgTables, Upsert, Goto, Begin, Require
<1>1. CASE \E u \in OrgUsers : BeginRename(q, u)
  BY <1>1 DEF BeginRename
<1>2. CASE \E u, v \in OrgUsers : BeginRemove(q, u, v)
  BY <1>2 DEF BeginRemove
<1>3. CASE \E u, v \in OrgUsers, r \in Asked : BeginInvite(q, u, v, r)
  BY <1>3 DEF BeginInvite, Valid, Rank, Asked
<1>4. CASE GiveUp(q) BY <1>4 DEF GiveUp
<1>5. CASE GetOrg(q) BY <1>5 DEF GetOrg
<1>6. CASE RenameOrg(q) BY <1>6 DEF RenameOrg
<1>7. CASE RenameOrgError(q) BY <1>7 DEF RenameOrgError
<1>8. CASE UpsertMember(q)
  <2>1. at[q] = "invite" /\ target[q] \in OrgUsers \ out /\ wanted[q] \in Roles \ {"owner"}
    BY <1>8 DEF UpsertMember
  <2>2. ~Untouched /\ create \notin {"idle", "enroll"}
    BY <2>1, BusyMeansEnrolled
  <2>3. OrgTypeOK' /\ OneOwner' /\ RemovalSticks'
    BY <1>8, <2>1 DEF UpsertMember
  <2>4. role[Creator] = "owner" \/ Creator \in demoted
    BY <2>2
  <2>5. role'[Creator] = "owner" \/ Creator \in demoted'
    BY <1>8, <2>1, <2>4 DEF UpsertMember
  <2>6. ~Untouched'
    BY <1>8, <2>1, <2>5 DEF UpsertMember
  <2>7. CreateInv'
    BY <1>8, <2>2, <2>5, <2>6 DEF UpsertMember
  <2>8. RequestInv'
    BY <1>8, <2>1 DEF UpsertMember
  <2>9. \A u \in OrgUsers : role[u] = "owner" => role'[u] # "none"
    BY <1>8, <2>1 DEF UpsertMember
  <2> QED BY <2>3, <2>7, <2>8, <2>9
<1>9. CASE GetMember(q) BY <1>9 DEF GetMember
<1>10. CASE Remove(q) BY <1>10 DEF Remove, Inviting
<1>11. CASE RemoveError(q) BY <1>11 DEF RemoveError
<1>12. CASE Crash(q) BY <1>12 DEF Crash
<1> QED
  BY <1>1, <1>2, <1>3, <1>4, <1>5, <1>6, <1>7, <1>8, <1>9, <1>10, <1>11, <1>12
     DEF Change

-----------------------------------------------------------------------------
LEMMA NextPreserves ==
  ASSUME OrgInv, [OrgNext]_orgVars
  PROVE  OrgInv' /\ (\A u \in OrgUsers : role[u] = "owner" => role'[u] # "none")
<1>1. CASE CreateOrg
  BY <1>1, CreatePreserves
<1>2. CASE \E q \in Changes : Change(q)
  BY <1>2, RequestPreserves
<1>3. CASE UNCHANGED orgVars
  BY <1>3 DEF orgVars, orgTables, changeVars, orgHistory, OrgInv, OrgTypeOK, OneOwner, RemovalSticks,
              CreateInv, RequestInv, Untouched
<1> QED BY <1>1, <1>2, <1>3 DEF OrgNext

LEMMA Invariance == OrgSpec => []OrgInv
BY InitInv, NextPreserves, PTL DEF OrgSpec

(* Every variable keeps its type.                                          *)
THEOREM OrgTypeCorrect == OrgSpec => []OrgTypeOK
<1>1. OrgInv => OrgTypeOK
  BY DEF OrgInv
<1> QED BY <1>1, Invariance, PTL

(* Nobody but the creator is ever an owner (service.go:135).               *)
THEOREM CreatorIsOnlyOwner == OrgSpec => []OneOwner
<1>1. OrgInv => OneOwner
  BY DEF OrgInv
<1> QED BY <1>1, Invariance, PTL

(* A removal is final until a later invitation (service.go:174).           *)
THEOREM RemovalIsFinal == OrgSpec => []RemovalSticks
<1>1. OrgInv => RemovalSticks
  BY DEF OrgInv
<1> QED BY <1>1, Invariance, PTL

(* An active organization has an owner, but for a failed clean-up or a     *)
(* demotion (service.go:60-64).                                            *)
THEOREM OrgHasOwner == OrgSpec => []NoOwnerlessOrg
<1>1. OrgInv => NoOwnerlessOrg
  BY DEF OrgInv, CreateInv, NoOwnerlessOrg
<1> QED BY <1>1, Invariance, PTL

(* The check of RemoveMember still holds when it deletes the row           *)
(* (service.go:171-174).                                                   *)
THEOREM NoStepRemovesAnOwner == OrgSpec => OwnersAreNotRemoved
<1>1. OrgInv /\ [OrgNext]_orgVars
        => [\A u \in OrgUsers : role[u] = "owner" => role'[u] # "none"]_orgVars
  BY NextPreserves
<1> QED BY <1>1, Invariance, PTL DEF OrgSpec, OwnersAreNotRemoved
=============================================================================
