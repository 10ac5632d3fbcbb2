SPECIFICATION CallsSpec
CONSTANTS
  Tasks = {k1, k2, k3}
  k1 = k1
  k2 = k2
  k3 = k3
  NoTask = NoTask
  MaxCancels = 2
INVARIANTS OneTerminalReply SettledWhenDone CorrelationKept QuietBeforeDispatch GivenUpIsCancelled
PROPERTIES PromiseKept AttemptEnds CallEnds
CHECK_DEADLOCK FALSE
