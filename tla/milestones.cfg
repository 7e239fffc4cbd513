SPECIFICATION FairSpec
CONSTANTS
  m1 = m1
  m2 = m2
  s1 = s1
  a1 = a1
  Milestone = {m1, m2}
  Already = {m2}
  Amount <- MCAmount
  EscrowAmount = 301
  Request = {s1, a1}
  Op <- MCOp
  Target <- MCTarget
  Closers = {"acceptRefund", "release"}
  Flaky = {m1}
INVARIANTS TypeOK ReleasedIsOnTheBooks AutoClosedIsPaidOut OverpaidOnlyInFlight
PROPERTIES BackOnlyByLateWrite PaidUpIsClosed ApprovalIsPaid
CHECK_DEADLOCK FALSE
