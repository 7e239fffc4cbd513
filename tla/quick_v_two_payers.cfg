SPECIFICATION Spec
CONSTANTS
  Confirms = {c1}
  Joins = {j1, j2}
  Asks = {q1, q2}
  Emails = {e1, e2}
  NoCode = NoCode
  JoinRateLimit = 1
  Provider = "bachs"
SYMMETRY Symmetry
INVARIANT OnePayer
CHECK_DEADLOCK FALSE
