SPECIFICATION Spec
CONSTANTS
  MaxCapabilityRetries = 24
  Faults = {"end", "stall", "webhook"}
INVARIANTS TypeOK DroppedOnlyAfterARetry TransferRecorded
CHECK_DEADLOCK FALSE
