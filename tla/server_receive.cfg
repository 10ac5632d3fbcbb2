SPECIFICATION FairSpec
CONSTANTS
  t1 = t1
  t2 = t2
  o1 = o1
  o2 = o2
  Threads = {t1, t2}
  Ops = {o1}
  Calls <- TimedCalls
  EventKinds = {"submit", "runtime", "lifecycle", "session_close", "malformed", "bad_lifecycle"}
  BatchSize = 2
  MaxEvents = 3
  MaxCalls = 3
  Faulty = TRUE
  NoThread = NoThread
  NoOp = NoOp
INVARIANTS EventsOnceInOrder AcceptedStaysBound
PROPERTIES WaitKeepsRetained CloseReturns
CHECK_DEADLOCK FALSE
