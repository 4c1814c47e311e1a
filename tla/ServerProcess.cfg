SPECIFICATION FairGuiSpec
CONSTANTS
  Buses = {b1}
  MaxSpawns = 2
INVARIANTS
  ServerTypeOK
  NoChildLost
  ExitTold
PROPERTIES
  DisconnectReaches
  StartReturns
  ServerShown
CHECK_DEADLOCK FALSE
