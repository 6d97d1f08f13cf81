---------------------------- MODULE GattServices ----------------------------
(***************************************************************************)
(* The services a Bleak client offers for a device: what its connect finds *)
(* (active_client.py), what build_service_collection makes of the AP's     *)
(* report, and what the compatibility override adds for devices that have  *)
(* advertised a certain service (aruba_iot_ble/compatibility.py).  The     *)
(* runtime remembers what devices advertise, as Advertisement parses it.   *)
(*                                                                         *)
(* One client; the devices differ in what they have advertised.  The link  *)
(* and its failures are in Sessions, the wait for the report in Discovery: *)
(* here it gives what the AP reports.  Properties of characteristics are   *)
(* left out.                                                               *)
(* Initial states and steps have names of their own beside those of        *)
(* Sessions, whose clients offer these services.                           *)
(***************************************************************************)
EXTENDS Advertisement, Subsequences

CONSTANTS
  Advertiser,         \* devices
  Nobody,             \* no device
  AdvertisedLimit,    \* DEVICE_ADVERTISED_SERVICE_UUIDS_LIMIT
  Report,             \* lists of characteristics that an AP may report of a device,
                      \* each with the octets of its two UUIDs, or none
  TriggerUuid,        \* the override: SWITCHBOT_ADV_SERVICE_UUID,
  CommandService,     \* SWITCHBOT_COMMAND_SERVICE_UUID and
  CommandChars        \* its characteristics, in order

ASSUME LimitAssumption == AdvertisedLimit \in Nat \ {0}
ASSUME NobodyAssumption == Nobody \notin Advertiser
ASSUME ReportAssumption == Report \subseteq Seq([service : Seq(Octet), char : Seq(Octet)])
ASSUME OverrideAssumption == CommandChars \in Seq(Seq(Octet))

VARIABLES
  hearing,       \* the device whose payload is parsed
  advertised,    \* _device_advertised_service_uuids, oldest first
  stage,         \* of the client: none, guessing, waiting, listing, offered
  client,        \* its device
  seen,          \* the advertised UUIDs its connect has looked up
  report,        \* what the AP reports of the device over this link
  todo,          \* characteristics still to be added
  services,      \* of the collection: handles and UUIDs,
  chars          \* handles, services, UUIDs and the report each is from

collection == << services, chars >>
connecting == << stage, client, seen, report, todo, collection >>
servicesVars == << parsing, hearing, advertised, connecting >>

ServicesInit ==
  /\ AdvertisementInit
  /\ hearing = Nobody /\ advertised = << >>
  /\ stage = "none" /\ client = Nobody /\ seen = {} /\ report = << >>
  /\ todo = << >> /\ services = << >> /\ chars = << >>

NoReport == << >>

-----------------------------------------------------------------------------
(* Advertisements: _event_from_pb, and _update_stats *)

(* A frame without a payload is skipped, so there is always one.  Bound:   *)
(* none comes while services are offered, which look nothing up.           *)
Frame(d, p) ==
  /\ stage \in {"none", "waiting"}
  /\ Receives(p)
  /\ hearing' = d
  /\ UNCHANGED << advertised, connecting >>

Parse == ReadsStructure /\ UNCHANGED << hearing, advertised, connecting >>

UuidsOf(d) == UNION {e.uuids : e \in {x \in ToSet(advertised) : x.device = d}}

(* Slip: what a device advertised before is forgotten. *)
RememberedLatest(d, uuids) ==
  LET others == Kept(advertised, {i \in DOMAIN advertised : advertised[i].device # d})
      all == Append(others, [device |-> d, uuids |-> uuids]) IN
  IF Len(all) > AdvertisedLimit THEN Tail(all) ELSE all

(* The device becomes the youngest; the oldest goes when there are too many. *)
Remembered(d, uuids) ==
  LET others == Kept(advertised, {i \in DOMAIN advertised : advertised[i].device # d})
      all == Append(others, [device |-> d, uuids |-> UuidsOf(d) \cup uuids]) IN
  IF Len(all) > AdvertisedLimit THEN Tail(all) ELSE all

Heard ==
  LET uuids == ToSet(fields.uuids) \cup DOMAIN fields.service IN
  /\ Parsed /\ Taken
  /\ advertised' = IF uuids = {} THEN advertised ELSE Remembered(hearing, uuids)
  /\ hearing' = Nobody
  /\ UNCHANGED connecting

-----------------------------------------------------------------------------
(* UUIDs between the AP and the client *)

(* _format_uuid *)
FormatUuid(raw) == IF Len(raw) = 2 THEN << 0, 0 >> \o raw \o BaseUuid ELSE raw

Invalid == << >>

(* Slip: any UUID that starts with zeros is shortened. *)
UuidToBytesLoose(uuid) ==
  CASE Len(uuid) = 2 -> uuid
    [] Len(uuid) = 16 /\ SubSeq(uuid, 1, 2) = << 0, 0 >> -> SubSeq(uuid, 3, 4)
    [] Len(uuid) = 16 /\ SubSeq(uuid, 1, 2) # << 0, 0 >> -> uuid
    [] OTHER -> Invalid

HasBase(uuid) == SubSeq(uuid, 1, 2) = << 0, 0 >> /\ SubSeq(uuid, 5, Len(uuid)) = BaseUuid

(* uuid_to_bytes; for other lengths it raises. *)
UuidToBytes(uuid) ==
  CASE Len(uuid) = 2 -> uuid
    [] Len(uuid) = 16 /\ HasBase(uuid) -> SubSeq(uuid, 3, 4)
    [] Len(uuid) = 16 /\ ~ HasBase(uuid) -> uuid
    [] OTHER -> Invalid

-----------------------------------------------------------------------------
(* Collections *)

Handles == {s.handle : s \in ToSet(services)} \cup {c.handle : c \in ToSet(chars)}

(* The local counter of build_service_collection *)
NextHandle == Cardinality(Handles) + 1

HandleOf(uuid, next) ==
  IF \E s \in ToSet(services) : s.uuid = uuid
    THEN (CHOOSE s \in ToSet(services) : s.uuid = uuid).handle ELSE next

(* Adds a service if it is new. *)
ServicesWith(uuid, handle) ==
  IF \E s \in ToSet(services) : s.handle = handle THEN services
  ELSE Append(services, [handle |-> handle, uuid |-> uuid])

(* get_service of Bleak's collection, for a service that is in it, may     *)
(* fail if its UUID is of neither length.                                  *)
Finds(uuid) == IF Len(uuid) = 16 THEN {TRUE} ELSE BOOLEAN

(* One turn of the loop of build_service_collection; a characteristic that *)
(* lacks a UUID, or whose service is not found, is skipped.                *)
AddReported ==
  LET r == Head(todo)
      uuid == FormatUuid(r.service)
      handle == HandleOf(uuid, NextHandle)
      added == ServicesWith(uuid, handle) IN
  /\ stage = "listing" /\ todo # << >>
  /\ todo' = Tail(todo)
  /\ IF r.service = << >> \/ r.char = << >> THEN UNCHANGED collection
     ELSE /\ services' = added
          /\ \E found \in Finds(uuid) :
               chars' = IF ~ found THEN chars
                        ELSE Append(chars, [handle |-> NextHandle + Len(added) - Len(services),
                                            service |-> handle, uuid |-> FormatUuid(r.char),
                                            from |-> r])
  /\ UNCHANGED << parsing, hearing, advertised, stage, client, seen, report >>

Known == {c.uuid : c \in ToSet(chars)}

(* _next_handle: after the characteristics, or the services if there are none *)
NextFreeHandle ==
  IF chars # << >> THEN Max({c.handle : c \in ToSet(chars)}) + 1
  ELSE IF services # << >> THEN Max({s.handle : s \in ToSet(services)}) + 1 ELSE 1

(* matches, of the only override there is *)
Matches == TriggerUuid \in seen /\ \E u \in ToSet(CommandChars) : u \notin Known

(* CompatibilityOverrideRegistry.apply.  The service is new or, if its     *)
(* handle is taken, not found.                                             *)
Overridden ==
  LET missing == Kept(CommandChars, {i \in DOMAIN CommandChars : CommandChars[i] \notin Known})
      handle == HandleOf(CommandService, NextFreeHandle)
      added == ServicesWith(CommandService, handle)
      first == NextFreeHandle + Len(added) - Len(services) IN
  IF Matches /\ \E s \in ToSet(added) : s.uuid = CommandService
    THEN /\ services' = added
         /\ chars' = chars \o [i \in DOMAIN missing |->
                       [handle |-> first + i - 1, service |-> handle, uuid |-> missing[i], from |-> NoReport]]
    ELSE UNCHANGED collection

-----------------------------------------------------------------------------
(* connect, from the AP's answer on *)

(* Services that the client still has from an earlier connect are kept;    *)
(* what has been advertised is looked up once.                             *)
LooksUp(d) ==
  /\ stage = "none" /\ payload = << >>
  /\ stage' = "guessing" /\ client' = d /\ seen' = UuidsOf(d)
  /\ UNCHANGED << parsing, hearing, advertised, report, todo, collection >>

(* A collection is built of nothing first: if the override gives some      *)
(* characteristics, the AP's report is not waited for, whatever it is.     *)
Guesses ==
  /\ stage = "guessing"
  /\ Overridden
  /\ IF chars' # << >> THEN stage' = "offered" /\ report' \in Report
     ELSE stage' = "waiting" /\ UNCHANGED report
  /\ UNCHANGED << parsing, hearing, advertised, client, seen, todo >>

Reported(list) ==
  /\ stage = "waiting" /\ payload = << >>
  /\ report' = list /\ todo' = list
  /\ stage' = "listing"
  /\ services' = << >> /\ chars' = << >>
  /\ UNCHANGED << parsing, hearing, advertised, client, seen >>

Offers ==
  /\ stage = "listing" /\ todo = << >>
  /\ Overridden
  /\ stage' = "offered"
  /\ UNCHANGED << parsing, hearing, advertised, client, seen, report, todo >>

(* clear_cache, after which the next connect looks anew; or that connect   *)
(* finds that no service was given.                                        *)
Forgets ==
  /\ stage = "offered"
  /\ stage' = "none" /\ client' = Nobody /\ seen' = {} /\ report' = << >>
  /\ services' = << >> /\ chars' = << >>
  /\ UNCHANGED << parsing, hearing, advertised, todo >>

ServicesNext ==
  \/ \E d \in Advertiser : LooksUp(d) \/ \E p \in Payload : Frame(d, p)
  \/ Parse \/ Heard
  \/ Guesses \/ \E list \in Report : Reported(list)
  \/ AddReported \/ Offers \/ Forgets

ServicesSpec == ServicesInit /\ [][ServicesNext]_servicesVars

-----------------------------------------------------------------------------
(* Properties *)

ServiceOf(c) == (CHOOSE s \in ToSet(services) : s.handle = c.service).uuid

(* One UUID to the AP: as reported, or the long form of a short one       *)
Means(octets, raw) == octets = raw \/ raw = << 0, 0 >> \o octets \o BaseUuid

(* A request for a reported characteristic names it to the AP by the UUIDs *)
(* that the AP has reported, if they are of 16 or 128 bits.                *)
AskedAsReported ==
  \A c \in ToSet(chars) : c.from # NoReport =>
    /\ Len(c.from.char) \in {2, 16} => Means(UuidToBytes(c.uuid), c.from.char)
    /\ Len(c.from.service) \in {2, 16} => Means(UuidToBytes(ServiceOf(c)), c.from.service)

MadeUp == {c \in ToSet(chars) : c.from = NoReport}

(* A characteristic is made up only where the AP does not report it: the   *)
(* fallback is for devices "when Aruba does not report the known command   *)
(* characteristics" (SPEC.md:40-41).                                       *)
FallbackFillsGaps ==
  \A c \in MadeUp : \A r \in ToSet(report) : FormatUuid(r.char) # c.uuid

(* A frame takes nothing from what its device has advertised, nor from     *)
(* others' while there is room; and no more devices than AdvertisedLimit,  *)
(* each once, are remembered.                                              *)
NothingUnlearnt ==
  /\ Cardinality({e.device : e \in ToSet(advertised')}) = Len(advertised')
  /\ Len(advertised') <= AdvertisedLimit
  /\ \A d \in Advertiser :
       (d = hearing \/ Len(advertised) < AdvertisedLimit) =>
         UuidsOf(d) \subseteq UNION {e.uuids : e \in {x \in ToSet(advertised') : x.device = d}}
NothingIsUnlearnt == [][NothingUnlearnt]_servicesVars

=============================================================================
