---------------------------- MODULE BoundedQueue ----------------------------
(***************************************************************************)
(* What a bounded ring promises its two threads: a first-in first-out      *)
(* queue of at most N values.  The values are numbered in the order they   *)
(* are pushed, so the queue is the interval popped .. pushed - 1 and a pop *)
(* hands out its least element.                                            *)
(***************************************************************************)
EXTENDS Naturals

CONSTANT N

VARIABLES pushed, popped

Init == pushed = 0 /\ popped = 0

(* A push that succeeds. *)
Push ==
    /\ pushed - popped < N
    /\ pushed' = pushed + 1
    /\ UNCHANGED popped

(* A pop that returns the value numbered popped. *)
Pop ==
    /\ popped < pushed
    /\ popped' = popped + 1
    /\ UNCHANGED pushed

(* Dropping the queue releases what is left. *)
Clear ==
    /\ popped' = pushed
    /\ UNCHANGED pushed

Next == Push \/ Pop \/ Clear

Spec == Init /\ [][Next]_<<pushed, popped>>
=============================================================================
