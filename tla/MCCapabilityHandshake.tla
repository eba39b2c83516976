------------------------ MODULE MCCapabilityHandshake ------------------------
(* CapabilityHandshake with the bounds of its .cfg files. *)
EXTENDS CapabilityHandshake
=============================================================================
