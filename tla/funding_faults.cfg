SPECIFICATION Spec
CONSTANTS
  p1 = p1
  p2 = p2
  p3 = p3
  t1 = t1
  NoToken = NoToken
  Payments = {p1, p2, p3}
  Tokens = {t1}
  TokenOf <- SameToken
  Cancels = {c1}
  HasExpiry = TRUE
  Provider = "paystack"
  SettlesTo <- EscrowStatus
  Faults = {"request", "webhook", "throw", "crash", "stall"}
SYMMETRY Symmetry
INVARIANTS OneLinkPerToken TokenNotLost FundedIsBacked
PROPERTIES OnlyBlindWritesLeaveTheTable
CHECK_DEADLOCK FALSE
