------------------------- MODULE MCOutboundScheduler -------------------------
(* OutboundScheduler for TLC: two packets per class, a disabled, a slow and *)
(* a fast rate.                                                             *)
EXTENDS OutboundScheduler

MCQueueCapacity == [c \in Classes |-> 2]
=============================================================================
