SPECIFICATION Spec
CONSTANTS
  Conn = {w1, w2, w3}
  Source = {ap1, ap2, ap3}
  Send = {m1}
  None = None
  MaxConnections = 2
  MaxSources = 2
  MaxTextMessages = 1
  MaxDecodeErrors = 1
SYMMETRY ReceiverSymmetry
INVARIANTS
  RoutesConsistent
  NoRouteToFinished
  RuntimeToldOfLosses
  PlacesAccountedFor
  LimitsHold
\* every connection and every send ends once
CHECK_DEADLOCK FALSE
