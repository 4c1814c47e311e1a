CONSTANTS
  MaxFrames = 3
  MaxConnects = 2
  MaxKept = 2
SPECIFICATION FairAdapterSpec
INVARIANTS
  AdapterTypeOK
  NoFrameMissing
  VersionPutsInStep
PROPERTIES
  StopHeeded
  DeviceLeftClosed
CHECK_DEADLOCK FALSE
