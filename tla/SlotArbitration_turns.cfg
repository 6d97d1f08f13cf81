SPECIFICATION FairSpecHistory
CONSTANTS
  Source = {ap}
  Device = {d1, d2}
  Call = {c1, c2}
  AnyDevice = AnyDevice
  NoCall = NoCall
  Handler = {}
  Request <- WaitingRequests
  Slots = 1
  Named = {TRUE}
  MaxBatch = 1
  MaxWire = 1
  SilentLoss = FALSE
INVARIANTS
  SlotsRespected
PROPERTIES
  ActionsKeepLine
  CallsEnd
\* every call is made once
CHECK_DEADLOCK FALSE
