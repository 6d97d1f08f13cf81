SPECIFICATION Spec
CONSTANTS
  c1 = c1
  c2 = c2
  c3 = c3
  d1 = d1
  d2 = d2
  Client <- Clients
  Device <- Devices
  DeviceOf <- Addresses
  Slots = 1
SYMMETRY Alike
INVARIANTS
  PermitsConserved
  SlotsNotLeaked
  SessionsHoldSlots
  LossEndsSession
PROPERTY
  ToldOfLosses
