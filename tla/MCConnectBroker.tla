--------------------------- MODULE MCConnectBroker ---------------------------
(* ConnectBroker with two devices and two approvals. *)
EXTENDS ConnectBroker, TLC

Alike == Permutations(Devices) \cup Permutations(Calls) \cup Permutations(Requests)
=============================================================================
