\* A creator and an admin, one request at a time.
CONSTANTS
  OrgUsers = {u0, u1}
  Creator = u0
  Changes = {q1}
  NoTarget = NoTarget
SPECIFICATION OrgSpec
INVARIANTS
  OwnerIsKept
\* A creation that failed leaves nobody who could do anything.
CHECK_DEADLOCK FALSE
