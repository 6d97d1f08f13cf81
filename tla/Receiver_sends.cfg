SPECIFICATION FairSpec
CONSTANTS
  Conn = {w1, w2}
  Source = {ap1}
  Send = {m1, m2, m3}
  None = None
  MaxConnections = 2
  MaxSources = 1
  MaxTextMessages = 1
  MaxDecodeErrors = 1
INVARIANTS
  SendsDoNotOverlap
PROPERTIES
  SendsEnd
\* every connection and every send ends once
CHECK_DEADLOCK FALSE
