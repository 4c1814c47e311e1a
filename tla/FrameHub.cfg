SPECIFICATION HubSpec
CONSTANTS
  k1 = k1
  k2 = k2
  Sessions = {s1, s2, s3}
  Keys = {k1, k2}
  Options <- MCOptions
  MaxSequence = 2
SYMMETRY Symmetry
INVARIANTS
  HubTypeOK
  DeliveryInOrder
  NothingUncounted
  LatestMatchesHistory
  OwnEntry
PROPERTIES
  ImplementsBroadcast
CHECK_DEADLOCK FALSE
