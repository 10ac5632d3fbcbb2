SPECIFICATION Spec
CONSTANTS
  t1 = t1
  t2 = t2
  o1 = o1
  o2 = o2
  Threads = {t1, t2}
  Ops = {o1}
  FrameOf <- MCFrameOf
  PollCalls <- CallShapes
  EventKinds = {"result_push", "bare_result", "error", "peer_cancel", "session_close", "lifecycle", "lifecycle_terminal", "malformed", "bad_lifecycle", "stray_lifecycle"}
  FrameBatch = 2
  MaxEvents = 3
  RareKinds = {"peer_cancel", "session_close", "bare_result", "error", "stray_lifecycle", "malformed", "bad_lifecycle"}
  MaxRare = 1
  Faulty = TRUE
  NoThread = NoThread
  NoOp = NoOp
INVARIANTS EventsOnceInOrder LiveBindingKept
PROPERTIES ReleasedOnEvidence
SYMMETRY ThreadSymmetry
CHECK_DEADLOCK FALSE
