SPECIFICATION FairGuiStreamSpec
CONSTANTS
  Limit = 1
  MaxFrames = 3
  MaxDrops = 1
  MaxConnections = 2
  MaxEffects = 2
  MaxClears = 1
INVARIANTS
  GuiStreamTypeOK
  PlotAccounts
  RateExact
PROPERTIES
  PausedViewHolds
  ViewCatchesUp
CHECK_DEADLOCK FALSE
