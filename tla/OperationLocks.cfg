SPECIFICATION FairSpec
CONSTANTS
  Call = {c1, c2, c3, c4}
  Source = {ap}
  Device = {d1, d2}
  NoSlot = NoSlot
  AnyDevice = AnyDevice
INVARIANTS
  MutualExclusion
  SlotIffInUse
PROPERTIES
  ImplementsKeyedQueue
  QueuedIsServed
\* every call ends once
CHECK_DEADLOCK FALSE
