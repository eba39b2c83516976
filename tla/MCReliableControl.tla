-------------------------- MODULE MCReliableControl --------------------------
(* ReliableControl with traffic in both directions, one of them past the wrap *)
(* of the sequence numbers.                                                   *)
EXTENDS ReliableControl

Lopsided == [p \in Peers |-> IF p = "Client" THEN 4 ELSE 1]
=============================================================================
