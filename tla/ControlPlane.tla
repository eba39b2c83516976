---------------------------- MODULE ControlPlane -----------------------------
(* What the parts of the control plane share: the devices of one account. *)

CONSTANTS
    None,          \* an absent value
    Devices        \* the device ids of the account

ASSUME DevicesAssumption == None \notin Devices
=============================================================================
