SPECIFICATION FairSessionSpec
CONSTANTS
  k1 = k1
  early = early
  silent = silent
  capture = capture
  Sessions = {capture}
  Captures = {capture}
  Keys = {k1}
  Options <- MCOneSlot
  MaxSequence = 1
  MaxFrames = 2
  SocketCapacity = 1
  PeerMayClose = FALSE
PROPERTIES
  CaptureEndsByDeadline
CHECK_DEADLOCK FALSE
