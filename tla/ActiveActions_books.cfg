SPECIFICATION Spec
CONSTANTS
  Source = {ap}
  Device = {d1}
  Call = {c1, c2}
  AnyDevice = AnyDevice
  NoCall = NoCall
  Handler = {h1}
  Request <- AllRequests
  Slots = 1
  Named = {TRUE, FALSE}
  MaxBatch = 2
  MaxWire = 2
  SilentLoss = TRUE
SYMMETRY CallAndDeviceSymmetry
INVARIANTS
  RegistrationsAccountedFor
  BooksFollowRoutes
  ActiveIsLinked
PROPERTIES
  AnswersMatchBooks
\* every call is made once
CHECK_DEADLOCK FALSE
