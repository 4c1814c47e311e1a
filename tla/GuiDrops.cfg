SPECIFICATION GuiStreamSpec
CONSTANTS
  Limit = 1
  MaxFrames = 2
  MaxDrops = 2
  MaxConnections = 2
  MaxEffects = 1
  MaxClears = 0
PROPERTIES
  DropsShownInFull
CHECK_DEADLOCK FALSE
