\* Three requests of one user from two addresses, limits of one.
CONSTANTS
  Requests = {r1, r2, r3}
  Users = {u1}
  Addresses = {a1, a2}
  PerUser = 1
  PerIP = 1
  Window = 2
  Slowest = 1
  LastTick = 3
SPECIFICATION RateSpec
INVARIANTS
  UserLimitHolds
CHECK_DEADLOCK FALSE
