SPECIFICATION FairSpec
CONSTANTS
  http = http
  ws = ws
  Requests <- MCRequests
  HttpRequests <- MCHttpRequests
  Ui = Ui
  Callback = Callback
  QueueCapacity = 3
CHECK_DEADLOCK FALSE
INVARIANTS
  TypeOK
  OneCommandPerCall
PROPERTIES
  CallsReturn
  SelectDeviceReturns
  ProcessEnds
