---------------------------- MODULE Advertisement ----------------------------
(***************************************************************************)
(* parse_advertisement_data (aruba_iot_ble/ble_parser.py): a BLE payload   *)
(* is a row of AD structures, each a length octet, a type octet and data.  *)
(* The parser takes one structure after the other; a step of this module   *)
(* is one structure.  The caller takes the fields when it is done.         *)
(*                                                                         *)
(* A UUID is its sixteen octets in the order in which they are written; a  *)
(* name is the octets of its text.                                         *)
(***************************************************************************)
EXTENDS Naturals, Integers, Sequences, FiniteSets, SequencesExt

CONSTANTS
  Payload,     \* payloads that may be received
  NoName,      \* local_name None
  NoPower      \* tx_power None

Octet == 0 .. 255
ASSUME PayloadAssumption == Payload \subseteq Seq(Octet) \ {<< >>}

VARIABLES
  payload,     \* what is being parsed, empty if nothing is
  offset,      \* octets read
  fields       \* what they have given

parsing == << payload, offset, fields >>

NoFields == [name |-> NoName, power |-> NoPower, uuids |-> << >>,
             company |-> << >>, service |-> << >>, structures |-> << >>]

AdvertisementInit == payload = << >> /\ offset = 0 /\ fields = NoFields

-----------------------------------------------------------------------------
(* Conversions *)

NameTypes == {8, 9}
PowerType == 10
ManufacturerType == 255
UuidListTypes == {2, 3} \cup {4, 5} \cup {6, 7}
ServiceDataTypes == {22, 32, 33}

(* Octets of a UUID in a structure *)
Width(type) == IF type \in {2, 3, 22} THEN 2 ELSE IF type \in {4, 5, 32} THEN 4 ELSE 16

(* -0000-1000-8000-00805f9b34fb *)
BaseUuid == << 0, 0, 16, 0, 128, 0, 0, 128, 95, 155, 52, 251 >>

(* _uuid16_to_str, _uuid32_to_str, and _uuid128_to_str: UUID(bytes_le=raw) *)
(* turns the first three fields around, and only them.                     *)
Uuid(raw) ==
  CASE Len(raw) = 2 -> << 0, 0, raw[2], raw[1] >> \o BaseUuid
    [] Len(raw) = 4 -> Reverse(raw) \o BaseUuid
    [] OTHER -> Reverse(SubSeq(raw, 1, 4)) \o Reverse(SubSeq(raw, 5, 6))
                \o Reverse(SubSeq(raw, 7, 8)) \o SubSeq(raw, 9, 16)

(* Slip: the last UUID of a full list is not read. *)
UuidsWithoutLast(data, width) ==
  [i \in 1 .. ((Len(data) - 1) \div width) |-> Uuid(SubSeq(data, width * (i - 1) + 1, width * i))]

(* The UUIDs of a list; what is too short for one at its end is dropped. *)
Uuids(data, width) ==
  [i \in 1 .. (Len(data) \div width) |-> Uuid(SubSeq(data, width * (i - 1) + 1, width * i))]

Signed(octet) == IF octet > 127 THEN octet - 256 ELSE octet
CompanyOf(data) == data[1] + 256 * data[2]
From(data, i) == SubSeq(data, i, Len(data))

-----------------------------------------------------------------------------
(* The parser *)

Receives(p) ==
  /\ payload = << >>
  /\ payload' = p /\ offset' = 0 /\ fields' = NoFields

(* Neither a zero length nor one that reaches past the payload is read. *)
HasStructure ==
  /\ offset < Len(payload)
  /\ payload[offset + 1] # 0
  /\ offset + 1 + payload[offset + 1] <= Len(payload)

(* d[k] = v of a dictionary *)
Put(d, k, v) == [x \in DOMAIN d \cup {k} |-> IF x = k THEN v ELSE d[x]]

(* What a structure adds to the fields; one that is too short adds nothing.*)
With(f, type, data) ==
  CASE type \in NameTypes -> [f EXCEPT !.name = data]
    [] type = PowerType /\ Len(data) >= 1 -> [f EXCEPT !.power = Signed(data[1])]
    [] type \in UuidListTypes -> [f EXCEPT !.uuids = @ \o Uuids(data, Width(type))]
    [] type = ManufacturerType /\ Len(data) >= 2 ->
         [f EXCEPT !.company = Put(@, CompanyOf(data), From(data, 3))]
    [] type \in ServiceDataTypes /\ Len(data) >= Width(type) ->
         [f EXCEPT !.service = Put(@, Uuid(SubSeq(data, 1, Width(type))), From(data, Width(type) + 1))]
    [] OTHER -> f

(* One turn of the loop over iter_ad_structures. *)
ReadsStructure ==
  LET length == payload[offset + 1]
      type == payload[offset + 2]
      data == SubSeq(payload, offset + 3, offset + 1 + length) IN
  /\ HasStructure
  /\ offset' = offset + 1 + length
  /\ fields' = [With(fields, type, data) EXCEPT
                  !.structures = Append(@, [type |-> type, data |-> data])]
  /\ UNCHANGED payload

Parsed == payload # << >> /\ ~ HasStructure

(* The caller has taken the fields. *)
Taken == payload' = << >> /\ offset' = 0 /\ fields' = NoFields

-----------------------------------------------------------------------------
(* Properties *)

Structures == fields.structures
Encoded(s) == << Len(s.data) + 1, s.type >> \o s.data

OfType(types) == {i \in DOMAIN Structures : Structures[i].type \in types}
AtLeast(n, I) == {i \in I : Len(Structures[i].data) >= n}

Service(s) == Uuid(SubSeq(s.data, 1, Width(s.type)))
Rest(s) == From(s.data, Width(s.type) + 1)
ServiceStructures == {i \in OfType(ServiceDataTypes) : Len(Structures[i].data) >= Width(Structures[i].type)}
CompanyStructures == AtLeast(2, OfType({ManufacturerType}))

LastOf(I, same(_, _)) == {i \in I : \A j \in I : j > i => ~ same(Structures[i], Structures[j])}

SameService(s, t) == Service(s) = Service(t)
SameCompany(s, t) == CompanyOf(s.data) = CompanyOf(t.data)

(* The UUIDs of a list, each a whole number of widths from its start *)
Listed(s) ==
  LET w == Width(s.type) IN
  {Uuid(SubSeq(s.data, k + 1, k + w)) : k \in {n \in 0 .. Len(s.data) - w : n % w = 0}}

(* The structures read are the payload up to the offset: no octet is left  *)
(* out, read twice or taken from behind the end.  The fields are what the  *)
(* structures say, taken together: the last name, power, and data of each  *)
(* company and service, and every whole UUID of every list.                *)
FieldsFollowStructures ==
  LET names == OfType(NameTypes)
      powers == AtLeast(1, OfType({PowerType})) IN
  /\ FlattenSeq([i \in DOMAIN Structures |-> Encoded(Structures[i])]) = SubSeq(payload, 1, offset)
  /\ fields.name = IF names = {} THEN NoName ELSE Structures[Max(names)].data
  /\ fields.power = IF powers = {} THEN NoPower ELSE Signed(Structures[Max(powers)].data[1])
  /\ ToSet(fields.uuids) = UNION {Listed(Structures[i]) : i \in OfType(UuidListTypes)}
  /\ DOMAIN fields.company = {CompanyOf(Structures[i].data) : i \in CompanyStructures}
  /\ \A i \in LastOf(CompanyStructures, SameCompany) :
       fields.company[CompanyOf(Structures[i].data)] = From(Structures[i].data, 3)
  /\ DOMAIN fields.service = {Service(Structures[i]) : i \in ServiceStructures}
  /\ \A i \in LastOf(ServiceStructures, SameService) :
       fields.service[Service(Structures[i])] = Rest(Structures[i])

=============================================================================
