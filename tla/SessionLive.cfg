SPECIFICATION FairSessionSpec
CONSTANTS
  k1 = k1
  early = early
  silent = silent
  capture = capture
  Sessions = {monitor}
  Captures = {}
  Keys = {k1}
  Options <- MCOptions
  MaxSequence = 5
  MaxFrames = 2
  SocketCapacity = 1
  PeerMayClose = FALSE
PROPERTIES
  DropsShown
CHECK_DEADLOCK FALSE
