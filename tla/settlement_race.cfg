SPECIFICATION FairSpec
CONSTANTS
  Nobody = Nobody
  Requests = {r1, r2, r3}
  Provider = "bachs"
  TimerAccepted = TRUE
  Faults = {"crash"}
INVARIANTS TypeOK LedgerNotOverdrawn PayoutOnlyWhenReleased FrozenByOneDispute RefundedIsBacked
PROPERTY ReleasedIsPaid
CHECK_DEADLOCK FALSE
