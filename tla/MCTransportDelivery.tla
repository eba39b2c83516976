------------------------- MODULE MCTransportDelivery -------------------------
(* TransportDelivery for TLC; the bounds are in the configurations. *)
EXTENDS TransportDelivery
=============================================================================
