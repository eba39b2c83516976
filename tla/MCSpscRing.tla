----------------------------- MODULE MCSpscRing -----------------------------
(* Small rings for TLC. *)
EXTENDS SpscRing
=============================================================================
