SPECIFICATION Spec
CONSTANTS
  t1 = t1
  t2 = t2
  o1 = o1
  o2 = o2
  Threads = {t1, t2}
  Ops = {o1}
  Calls <- SubmitCalls
  EventKinds = {"submit", "runtime", "bad_lifecycle"}
  BatchSize = 2
  MaxEvents = 2
  MaxCalls = 1
  Faulty = FALSE
  NoThread = NoThread
  NoOp = NoOp
INVARIANTS NoGoodEventLost
CHECK_DEADLOCK FALSE
