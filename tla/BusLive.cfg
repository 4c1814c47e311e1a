SPECIFICATION FairBusSpec
CONSTANTS
  Requests = {r1, r2}
  Buses = {b1}
  NoWorker = NoWorker
  MaxReceived = 1
PROPERTIES
  RequestAnswered
  ServerExits
CHECK_DEADLOCK FALSE
