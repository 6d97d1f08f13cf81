SPECIFICATION Spec
CONSTANTS
  Source = {ap}
  Device = {d1}
  Call = {c1, c2}
  AnyDevice = AnyDevice
  NoCall = NoCall
  Handler = {}
  Request <- WaitingRequests
  Slots = 1
  Named = {TRUE}
  MaxBatch = 1
  MaxWire = 1
  SilentLoss = FALSE
INVARIANTS
  CancelLeavesNothing
\* every call is made once
CHECK_DEADLOCK FALSE
