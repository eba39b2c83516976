------------------------------ MODULE SpscRing ------------------------------
(***************************************************************************)
(* The bounded single-producer single-consumer ring of lowlat-common.      *)
(* A push or a pop is three steps, as its atomics and its slot access can  *)
(* be interleaved with the other thread's: load the counters, touch the    *)
(* slot, store the own counter.  The acquire load of the other thread's    *)
(* counter may return any value that thread has stored since the one last  *)
(* observed.                                                               *)
(*                                                                         *)
(* pushes and pops are the true numbers of stores; tail and head are their *)
(* residues in the counters' width.  The n-th value pushed is the number n.*)
(***************************************************************************)
EXTENDS Integers

CONSTANTS
    N,               \* the ring's capacity
    CounterSpace,    \* 2^w for the w bits of AtomicUsize
    MaxPushes,       \* bound: values pushed
    None             \* an uninitialised slot

ASSUME RingAssumption ==
    /\ N \in Nat \ {0}
    /\ CounterSpace \in Nat \ {0}
    /\ N < CounterSpace
    /\ MaxPushes \in Nat
    /\ None \notin Nat

VARIABLES
    pushes, pops,    \* stores to tail and to head so far
    slots,           \* slots
    producer,        \* "idle", "write" or "publish": where push stands
    consumer,        \* "idle", "read" or "release": where pop stands
    seenPops,        \* the head the producer last loaded, as a number of pops
    seenPushes,      \* the tail the consumer last loaded, as a number of pushes
    held,            \* the value pop has taken out of the slot
    dropped          \* Drop has run

vars == <<pushes, pops, slots, producer, consumer, seenPops, seenPushes, held, dropped>>

Wrap(count) == count % CounterSpace

(* usize::wrapping_sub. *)
WrappingSub(a, b) == Wrap(a + CounterSpace - b)

(* tail % N and head % N, of the wrapped counter. *)
Index(count) == Wrap(count) % N

Init ==
    /\ pushes = 0 /\ pops = 0
    /\ slots = [i \in 0 .. N - 1 |-> None]
    /\ producer = "idle" /\ consumer = "idle"
    /\ seenPops = 0 /\ seenPushes = 0
    /\ held = None
    /\ dropped = FALSE

-----------------------------------------------------------------------------
(* push *)

FullByOne(head) == WrappingSub(Wrap(pushes), Wrap(head)) > N

(* tail.wrapping_sub(head) >= N. *)
Full(head) == WrappingSub(Wrap(pushes), Wrap(head)) >= N

PushLoad ==
    /\ producer = "idle" /\ ~dropped
    /\ pushes < MaxPushes
    /\ \E head \in seenPops .. pops :
          /\ seenPops' = head
          /\ producer' = IF Full(head) THEN "idle" ELSE "write"
    /\ UNCHANGED <<pushes, pops, slots, consumer, seenPushes, held, dropped>>

PushWrite ==
    /\ producer = "write"
    /\ slots' = [slots EXCEPT ![Index(pushes)] = pushes]
    /\ producer' = "publish"
    /\ UNCHANGED <<pushes, pops, consumer, seenPops, seenPushes, held, dropped>>

PushPublish ==
    /\ producer = "publish"
    /\ pushes' = pushes + 1
    /\ producer' = "idle"
    /\ UNCHANGED <<pops, slots, consumer, seenPops, seenPushes, held, dropped>>

-----------------------------------------------------------------------------
(* pop *)

PopLoad ==
    /\ consumer = "idle" /\ ~dropped
    /\ \E tail \in seenPushes .. pushes :
          /\ seenPushes' = tail
          /\ consumer' = IF Wrap(pops) = Wrap(tail) THEN "idle" ELSE "read"
    /\ UNCHANGED <<pushes, pops, slots, producer, seenPops, held, dropped>>

(* assume_init_read moves the value out of the slot. *)
PopRead ==
    /\ consumer = "read"
    /\ held' = slots[Index(pops)]
    /\ slots' = [slots EXCEPT ![Index(pops)] = None]
    /\ consumer' = "release"
    /\ UNCHANGED <<pushes, pops, producer, seenPops, seenPushes, dropped>>

PopRelease ==
    /\ consumer = "release"
    /\ pops' = pops + 1
    /\ held' = None
    /\ consumer' = "idle"
    /\ UNCHANGED <<pushes, slots, producer, seenPops, seenPushes, dropped>>

-----------------------------------------------------------------------------

DropOne ==
    /\ producer = "idle" /\ consumer = "idle" /\ ~dropped
    /\ slots' = [slots EXCEPT ![Index(pops)] = None]
    /\ pops' = pushes /\ seenPops' = pushes /\ seenPushes' = pushes
    /\ dropped' = TRUE
    /\ UNCHANGED <<pushes, producer, consumer, held>>

(* Drop, by the last owner: pop until the ring is empty. *)
Drop ==
    /\ producer = "idle" /\ consumer = "idle" /\ ~dropped
    /\ LET left == {Index(k) : k \in pops .. pushes - 1}
       IN  slots' = [i \in DOMAIN slots |-> IF i \in left THEN None ELSE slots[i]]
    /\ pops' = pushes /\ seenPops' = pushes /\ seenPushes' = pushes
    /\ dropped' = TRUE
    /\ UNCHANGED <<pushes, producer, consumer, held>>

Next ==
    \/ PushLoad \/ PushWrite \/ PushPublish
    \/ PopLoad \/ PopRead \/ PopRelease
    \/ Drop

Spec == Init /\ [][Next]_vars

-----------------------------------------------------------------------------
(* Properties *)

(* Every variable has its type, and neither thread runs ahead of the other. *)
TypeOK ==
    /\ pushes \in 0 .. MaxPushes /\ pops \in 0 .. pushes
    /\ seenPops \in 0 .. pops /\ seenPushes \in 0 .. pushes
    /\ slots \in [0 .. N - 1 -> Nat \cup {None}]
    /\ producer \in {"idle", "write", "publish"}
    /\ consumer \in {"idle", "read", "release"}
    /\ held \in Nat \cup {None}
    /\ dropped \in BOOLEAN

(***************************************************************************)
(* "The slot is free": the slot push is about to write holds no value that *)
(* pop has not taken, and is not the slot a concurrent pop is reading.  So *)
(* the two unsafe accesses never race and no value is overwritten, however *)
(* stale the head was on which push decided.                               *)
(***************************************************************************)
WritesFreeSlot ==
    producer = "write" =>
        /\ slots[Index(pushes)] = None
        /\ consumer = "read" => Index(pops) # Index(pushes)

(***************************************************************************)
(* "Tail has passed this slot, so the producer initialised it": what pop   *)
(* takes out is the oldest value not yet popped; none is skipped, repeated *)
(* or read before it was written.                                          *)
(***************************************************************************)
ReadsOldest ==
    /\ consumer = "read" => slots[Index(pops)] = pops
    /\ consumer = "release" => held = pops

(* A slot has one owner at a time, handed over by the two counters: push     *)
(* writes only what pop has left, pop reads only what push has published.    *)
SlotsHandedOver == WritesFreeSlot /\ ReadsOldest

(* After Drop no slot still owns a value: "dropped ring leaked items". *)
NothingLeaks == dropped => \A i \in DOMAIN slots : slots[i] = None

(* The ring is a bounded first-in first-out queue. *)
Queue == INSTANCE BoundedQueue WITH pushed <- pushes, popped <- pops

IsBoundedQueue == Queue!Spec
=============================================================================
