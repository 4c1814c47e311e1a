SPECIFICATION SessionSpec
CONSTANTS
  k1 = k1
  early = early
  silent = silent
  capture = capture
  Sessions = {capture, monitor}
  Captures = {capture}
  Keys = {k1}
  Options <- MCOneSlot
  MaxSequence = 3
  MaxFrames = 2
  SocketCapacity = 1
  PeerMayClose = TRUE
INVARIANTS
  SessionTypeOK
  LossAnnouncedFirst
  DiagnosticsHonest
CHECK_DEADLOCK FALSE
