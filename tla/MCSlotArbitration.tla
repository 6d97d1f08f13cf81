------------------------- MODULE MCSlotArbitration -------------------------
(***************************************************************************)
(* SlotArbitration for TLC: two calls meet two devices and one slot.       *)
(***************************************************************************)
EXTENDS SlotArbitration, TLC

WaitingRequests == [type : ActionType, source : Source, device : Device, wait : {TRUE}]

=============================================================================
