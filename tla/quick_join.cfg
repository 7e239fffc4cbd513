SPECIFICATION Spec
CONSTANTS
  Confirms = {c1, c2}
  Joins = {j1, j2, j3}
  Asks = {q1, q2}
  Emails = {e1, e2}
  NoCode = NoCode
  JoinRateLimit = 1
  Provider = "bachs"
SYMMETRY Symmetry
INVARIANTS TypeOK OneEscrowPerIntent CreatorsRoleIsNotShared ExtraJoinersOverlapped
PROPERTY SpentCodeAdmitsNobody
CHECK_DEADLOCK FALSE
