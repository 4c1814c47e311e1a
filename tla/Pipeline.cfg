SPECIFICATION PipelineSpec
CONSTANTS
  WordBits = 16
  MantissaBits = 12
  Sent <- MCSent
  BusNames <- MCBusNames
  Times <- MCTimes
  Arguments <- MCArguments
  Configs <- MCConfigs
  Layouts <- MCLayouts
  Sources <- MCSources
  MaxFrames = 2
INVARIANTS
  LinesReadBack
  ModesAgree
  StreamKeepsFrames
  CaptureReadsBack
  ExtractionMatchesReference
  PlotsAgree
CHECK_DEADLOCK FALSE
