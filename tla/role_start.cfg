SPECIFICATION Spec
CONSTANTS
  Asks <- MCAsks
  Metrics <- MCMetrics
  MaxFaults = 1
INVARIANTS NothingLeaked SecureStaysSecure BestIsTaken StartedOrExplained
CHECK_DEADLOCK FALSE
