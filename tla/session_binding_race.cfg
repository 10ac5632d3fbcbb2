SPECIFICATION Spec
CONSTANTS
  t1 = t1
  t2 = t2
  o1 = o1
  o2 = o2
  Threads = {t1, t2}
  Ops = {o1}
  FrameOf <- MCFrameOf
  PollCalls <- BindingCalls
  EventKinds = {"result_push", "control"}
  FrameBatch = 2
  MaxEvents = 1
  RareKinds = {}
  MaxRare = 0
  Faulty = FALSE
  NoThread = NoThread
  NoOp = NoOp
INVARIANTS BindingReleased
CHECK_DEADLOCK FALSE
