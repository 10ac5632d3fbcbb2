SPECIFICATION BufferSpec
CONSTANTS
  BufferedFrames = {1, 2}
  NextFrame = NextFrame
  Waiters = {t1}
  Wraps = TRUE
  MaxAdds = 2
INVARIANTS WaitersSeeArrivals
CHECK_DEADLOCK FALSE
