SPECIFICATION ServicesSpec
CONSTANTS
  Payload <- Payloads
  NoName = NoName
  NoPower = NoPower
  Advertiser = {d1, d2}
  Nobody = Nobody
  AdvertisedLimit = 1
  Report <- Reports
  TriggerUuid <- Fd3d
  CommandService <- VendorService
  CommandChars <- Commands
INVARIANTS
  FieldsFollowStructures
  AskedAsReported
PROPERTY
  NothingIsUnlearnt
