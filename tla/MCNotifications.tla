-------------------------- MODULE MCNotifications --------------------------
(***************************************************************************)
(* Notifications for TLC: clients, services and timers are alike.          *)
(***************************************************************************)
EXTENDS Notifications, TLC

Alike == Permutations(Client) \cup Permutations(Service) \cup Permutations(Timer)

=============================================================================
