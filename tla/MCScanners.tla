----------------------------- MODULE MCScanners -----------------------------
(***************************************************************************)
(* Scanners for TLC: two APs, one of them with two connections.            *)
(***************************************************************************)
EXTENDS Scanners, TLC

CONSTANTS ap1, ap2, c1, c2, c3

Sources == {ap1, ap2}
Conns == {c1, c2, c3}
SourcesOf == (c1 :> ap1) @@ (c2 :> ap1) @@ (c3 :> ap2)
Alike == Permutations({c1, c2})

=============================================================================
