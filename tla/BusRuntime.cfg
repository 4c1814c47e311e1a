SPECIFICATION BusSpec
CONSTANTS
  Requests = {r1, r2, r3}
  Buses = {b1, b2}
  NoWorker = NoWorker
  MaxReceived = 1
SYMMETRY Symmetry
INVARIANTS
  BusTypeOK
  ExclusiveHolder
  NoOrphan
  OneReceiverPerBus
  LastAnswerHolds
  DeadWorkerExplained
CHECK_DEADLOCK FALSE
