---------------------------- MODULE Subsequences ----------------------------
(***************************************************************************)
(* What a loop that drops elements leaves of a sequence.  SelectSeq says   *)
(* the same, by recursion; this says it by places, which can be reasoned   *)
(* about.                                                                  *)
(***************************************************************************)
EXTENDS Naturals, Sequences, FiniteSets

Rank(i, I) == Cardinality({j \in I : j <= i})

(* The elements of w at the places in I, in their order *)
Kept(w, I) ==
  [n \in 1 .. Cardinality(I) |-> w[CHOOSE i \in I : Rank(i, I) = n]]

=============================================================================
