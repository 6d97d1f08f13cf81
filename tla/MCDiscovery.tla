---------------------------- MODULE MCDiscovery ----------------------------
(***************************************************************************)
(* Discovery for TLC: sources, characteristics and callers are alike.      *)
(***************************************************************************)
EXTENDS Discovery, TLC

Alike ==
  Permutations(Source) \cup Permutations(Char) \cup Permutations(Wait) \cup Permutations(Read)

(* A bound: no read begins while a wait is under way, and no wait while a  *)
(* read is.  They have nothing in common but the cache, which neither      *)
(* changes, and the loss of a link, which answers both.                    *)
Apart == (\A w \in Wait : wait[w] = NoWait) \/ (\A r \in Read : read[r] = NoRead)

=============================================================================
