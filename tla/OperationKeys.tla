--------------------------- MODULE OperationKeys ---------------------------
(***************************************************************************)
(* _operation_lock_key: which operations of the runtime exclude each other.*)
(***************************************************************************)

CONSTANTS
  Source,     \* normalized AP MACs
  Device,     \* normalized device MACs
  AnyDevice   \* the "*" of _source_operation_key

ASSUME AnyDeviceAssumption == AnyDevice \notin Device

ActionType == {"connect", "disconnect", "gatt"}

(* Connect and disconnect compete for an AP's slots and share one lock per *)
(* AP; GATT operations lock the device on its AP.                          *)
PerSourceLockActions == {"connect", "disconnect"}

OperationLockKey(source, device, action) ==
  IF action \in PerSourceLockActions
    THEN << source, AnyDevice >>
    ELSE << source, device >>

Key == Source \X (Device \cup {AnyDevice})

=============================================================================
