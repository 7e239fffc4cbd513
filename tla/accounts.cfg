SPECIFICATION FairSpec
CONSTANTS
  u1 = u1
  u2 = u2
  r1 = r1
  e1 = e1
  e2 = e2
  v1 = v1
  Attempt = {u1, u2}
  Reader = {r1}
  Editor = {e1, e2}
  Verifier = {v1}
  Faults = {"crash", "job", "slow"}
INVARIANTS TypeOK SignedUpIsKept StaleOnlyAfterLateFill
PROPERTIES OrphanIsRemoved CacheConverges
CHECK_DEADLOCK FALSE
