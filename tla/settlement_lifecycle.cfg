SPECIFICATION Spec
CONSTANTS
  Nobody = Nobody
  Requests = {r1, r2, r3}
  Provider = "bachs"
  TimerAccepted = FALSE
  Faults = {"request", "refund", "unpaid"}
SYMMETRY Symmetry
INVARIANT BothWaysOnlyAfterLostGuard
PROPERTY ImplementsLifecycle
CHECK_DEADLOCK FALSE
