SPECIFICATION SessionSpec
CONSTANTS
  k1 = k1
  early = early
  silent = silent
  capture = capture
  Sessions = {early, silent, capture}
  Captures = {capture}
  Keys = {k1}
  Options <- MCOneSlotOrSilent
  MaxSequence = 4
  MaxFrames = 2
  SocketCapacity = 1
  PeerMayClose = FALSE
INVARIANTS
  CaptureWithoutGaps
CONSTRAINT Scenario
CHECK_DEADLOCK FALSE
