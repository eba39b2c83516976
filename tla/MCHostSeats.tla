----------------------------- MODULE MCHostSeats -----------------------------
(* HostSeats for TLC: guests, seats and slots are interchangeable. *)
EXTENDS HostSeats, TLC

Symmetry == Permutations(Guests) \cup Permutations(Seats) \cup Permutations(Slots)
=============================================================================
