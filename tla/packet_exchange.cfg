SPECIFICATION FairSpec
CONSTANTS
  Callers <- MCCallers
  f1 = f1
  f2 = f2
  r1 = r1
  Frames = {f1, f2}
  Receivers = {r1}
  FrameFor <- MCFrameFor
  Resolved = {2}
  Requested = 1
  PeerSends = {"flow", "bad_result", "garbage"}
  MaxSubmits = 1
  MaxSends = 2
  Sentinel = Sentinel
  NoPacket = NoPacket
INVARIANTS ResultsInOrder SubmitsAccepted
PROPERTIES DeliveryKept ReceiversWake CloseEnds
CHECK_DEADLOCK FALSE
