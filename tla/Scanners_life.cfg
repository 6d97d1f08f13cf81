SPECIFICATION Spec
CONSTANTS
  ap1 = ap1
  ap2 = ap2
  c1 = c1
  c2 = c2
  c3 = c3
  Source <- Sources
  Conn <- Conns
  SourceOf <- SourcesOf
  Model = {m}
  DefaultModel = DefaultModel
  None = None
  MaxLeft = 1
SYMMETRY Alike
INVARIANTS
  RegisteredAreKnown
  CleanUnload
  LearntModelIsSaved
  ActiveHasRoute
\* an entry that is removed or cannot be unloaded does nothing more
CHECK_DEADLOCK FALSE
