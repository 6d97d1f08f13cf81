-------------------------- MODULE MCActiveActions --------------------------
(***************************************************************************)
(* ActiveActions for TLC: one AP; calls are alike and devices are alike.   *)
(***************************************************************************)
EXTENDS ActiveActions, TLC

Ask(types, waits) == [type : types, source : Source, device : Device, wait : waits]

AllRequests     == Ask(ActionType, BOOLEAN)
WaitingRequests == Ask(ActionType, {TRUE})

CallAndDeviceSymmetry == Permutations(Call) \cup Permutations(Device)

=============================================================================
