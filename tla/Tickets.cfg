SPECIFICATION FairSpec
CONSTANTS
  c1 = c1
  c2 = c2
  r1 = r1
  r2 = r2
  u1 = u1
  u2 = u2
  None = None
  Mgr = mgr
  Client = {c1, c2}
  Realm = {r1, r2}
  User = {u1, u2}
  CRED_VEC_SZ = 4
  MaxTries = 1
  Session <- Sessions
INVARIANTS
  HandsOut
PROPERTIES
  Recovers
CHECK_DEADLOCK FALSE
