SPECIFICATION Spec
CONSTANTS
  MaxCapabilityRetries = 24
  Faults = {}
INVARIANT GivesUpOnlyAfterAllRetries
CHECK_DEADLOCK FALSE
