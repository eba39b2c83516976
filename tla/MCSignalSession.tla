--------------------------- MODULE MCSignalSession ---------------------------
(* SignalSession with two guests. *)
EXTENDS SignalSession, TLC

Reconnects(p) == IF p \in Primaries THEN 2 ELSE 1

SocketBound == [p \in Principals |-> Reconnects(p)]

GuestSymmetry == Permutations(Guests)
=============================================================================
