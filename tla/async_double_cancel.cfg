SPECIFICATION SubmitSpec
CONSTANTS
  MaxCancels = 2
INVARIANTS CancelledIsCancelled
CHECK_DEADLOCK FALSE
