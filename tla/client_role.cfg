SPECIFICATION MCSpec
CONSTANTS
  Threads = {t1, t2}
  Sessions = {1, 2}
  Ops <- MCOps
  Cancels <- MCCancels
  Limit = 2
  MaxCancels = 4
  NoThread = NoThread
INVARIANTS CloseReleases OnlyCancelledDropped
PROPERTIES LateResultSuppressed CallsReturn
CHECK_DEADLOCK FALSE
