----------------------------- MODULE MCReceiver -----------------------------
(***************************************************************************)
(* Receiver for TLC: connections, sources and sends are alike.             *)
(***************************************************************************)
EXTENDS Receiver, TLC

ReceiverSymmetry ==
  Permutations(Conn) \cup Permutations(Source) \cup Permutations(Send)

=============================================================================
