----------------------------- MODULE MCSessions -----------------------------
(***************************************************************************)
(* Sessions for TLC: two clients of one device and one of another.         *)
(***************************************************************************)
EXTENDS Sessions, TLC

CONSTANTS c1, c2, c3, d1, d2

Clients == {c1, c2, c3}
Devices == {d1, d2}
Addresses == (c1 :> d1) @@ (c2 :> d1) @@ (c3 :> d2)
Alike == Permutations({c1, c2})

=============================================================================
