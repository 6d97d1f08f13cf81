--------------------------- MODULE MCGattServices ---------------------------
(***************************************************************************)
(* GattServices for TLC: payloads of at most two of the fragments below,   *)
(* well-formed and not; reports of at most three characteristics.          *)
(***************************************************************************)
EXTENDS GattServices

Sixteen == << 1, 2, 3, 4, 5, 6, 7, 8, 9, 10, 11, 12, 13, 14, 15, 16 >>

Fragments ==
  { << 3, 3, 61, 253 >>, << 4, 2, 61, 253, 15 >>,       \* 16-bit lists, FD3D in them
    << 9, 5, 61, 253, 0, 0, 15, 24, 0, 0 >>,            \* a 32-bit list, FD3D in it
    << 17, 7 >> \o Sixteen,                             \* a 128-bit list
    << 4, 22, 61, 253, 7 >>, << 4, 22, 15, 24, 7 >>,    \* data of a service
    << 6, 32, 61, 253, 0, 0, 8 >>, << 2, 22, 61 >>, << 18, 33 >> \o Sixteen \o << 9 >>,
    << 3, 9, 65, 66 >>, << 1, 8 >>,                     \* names, one of them empty
    << 2, 10, 200 >>, << 1, 10 >>,                      \* powers, one of them missing
    << 4, 255, 1, 2, 9 >>, << 3, 255, 1, 2 >>,          \* data of a company
    << 2, 1, 6 >>,                                      \* a type that is not looked at
    << 0 >>, << 9, 9, 65 >>, << 6 >> }                  \* no length, more than there is

Payloads == Fragments \cup {f \o g : f, g \in Fragments}

Fd3d == << 0, 0, 253, 61 >> \o BaseUuid
Vendor(octet) == << 203, 162, 0, octet, 34, 77, 17, 230, 159, 184, 0, 2, 165, 213, 197, 27 >>

Characteristics ==
  { [service |-> << 24, 15 >>, char |-> << 42, 25 >>],
    [service |-> << 0, 0, 24, 15 >> \o BaseUuid, char |-> << 0, 0, 0, 1 >> \o SubSeq(Sixteen, 5, 16)],
    [service |-> << >>, char |-> << 42, 25 >>],
    [service |-> Vendor(13), char |-> Vendor(2)],
    [service |-> << 1, 2, 3, 4 >>, char |-> << 42, 25 >>] }

Reports == UNION {[1 .. n -> Characteristics] : n \in 0 .. 2}
  \cup {r \in [1 .. 3 -> Characteristics] : Cardinality({r[1], r[2], r[3]}) = 3}

Commands == << Vendor(2), Vendor(3) >>
VendorService == Vendor(13)

=============================================================================
