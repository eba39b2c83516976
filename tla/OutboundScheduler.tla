-------------------------- MODULE OutboundScheduler --------------------------
(***************************************************************************)
(* The bounded output scheduler of a session: three class queues, a token  *)
(* bucket that paces video, and the byte debts that make critical and      *)
(* audio traffic yield to due work of a lower class.                       *)
(*                                                                         *)
(* Lengths are in units of which a full datagram has Datagram; a queue     *)
(* holds the wire lengths of its packets.  The bucket is refilled on every *)
(* tick instead of lazily at the next query, which is the same for every   *)
(* query.                                                                  *)
(***************************************************************************)
EXTENDS Integers, Sequences, FiniteSetsExt

CONSTANTS
    Datagram,        \* PORTABLE_WIRE_DATAGRAM_BYTES, in units
    BurstDatagrams,  \* MAX_BURST_DATAGRAMS
    BurstTicks,      \* MAX_BURST_TIME_MS
    QuantumTicks,    \* the 2 ms of priority_quantum_bytes
    Rates,           \* wire rates in units per tick that callers set; 0 disables pacing
    QueueCapacity    \* CRITICAL_, AUDIO_ and VIDEO_QUEUE_CAPACITY

Classes == {"Critical", "Audio", "Video"}

Lengths == 1 .. Datagram

ASSUME SchedulerAssumption ==
    /\ {Datagram, BurstDatagrams, BurstTicks, QuantumTicks} \subseteq Nat \ {0}
    /\ Rates \subseteq Nat /\ Rates # {}
    /\ QueueCapacity \in [Classes -> Nat \ {0}]

VARIABLES
    queue,           \* each class's packets, oldest first
    debt,            \* critical_debt_bytes and audio_debt_bytes
    tokens,          \* Pacer::tokens_bytes
    rate,            \* Pacer::rate_mbps
    passed           \* history: units served ahead of a class that had due work

vars == <<queue, debt, tokens, rate, passed>>

-----------------------------------------------------------------------------
(* Pacer *)

CapacityOfTime(r) == IF r = 0 THEN 0 ELSE Min({r * BurstTicks, Datagram * BurstDatagrams})

(* Pacer::capacity. *)
Capacity(r) ==
    IF r = 0 THEN 0
    ELSE Min({Max({r * BurstTicks, Datagram}), Datagram * BurstDatagrams})

(* Pacer::can_consume. *)
CanConsume(length) == rate = 0 \/ tokens >= length

(* Pacer::try_consume. *)
Consume(length) == IF rate = 0 THEN tokens ELSE tokens - length

-----------------------------------------------------------------------------
(* Selection *)

Quantum(r) == Min({Max({r * QuantumTicks, Datagram}), Datagram * BurstDatagrams})

VideoDue == queue["Video"] # <<>> /\ CanConsume(Head(queue["Video"]))

(* Work that a class must not starve. *)
LowerDue(class) ==
    CASE class = "Critical" -> queue["Audio"] # <<>> \/ VideoDue
      [] class = "Audio" -> VideoDue
      [] class = "Video" -> FALSE

(* priority_must_yield. *)
MustYield(class) == LowerDue(class) /\ debt[class] >= Quantum(rate)

SelectClassInOrder ==
    CASE queue["Critical"] # <<>> -> {"Critical"}
      [] queue["Critical"] = <<>> /\ queue["Audio"] # <<>> -> {"Audio"}
      [] OTHER -> IF VideoDue THEN {"Video"} ELSE {}

(* select_class: a set of at most one class. *)
SelectClass ==
    LET ready(class) == queue[class] # <<>> /\ ~MustYield(class)
    IN  CASE ready("Critical") -> {"Critical"}
          [] ~ready("Critical") /\ ready("Audio") -> {"Audio"}
          [] OTHER -> IF VideoDue THEN {"Video"} ELSE {}

(* record_service. *)
RecordService(class, length) ==
    CASE class = "Critical" ->
            [debt EXCEPT !["Critical"] = Min({@ + length, Quantum(rate)})]
      [] class = "Audio" ->
            [debt EXCEPT !["Critical"] = 0,
                         !["Audio"] = Min({@ + length, Quantum(rate)})]
      [] class = "Video" -> [debt EXCEPT !["Critical"] = 0, !["Audio"] = 0]

-----------------------------------------------------------------------------
(* The scheduler *)

NoDebt == [c \in {"Critical", "Audio"} |-> 0]

NothingPassed == [c \in {"Audio", "Video"} |-> 0]

Due(class) == IF class = "Video" THEN VideoDue ELSE queue[class] # <<>>

Init ==
    /\ queue = [c \in Classes |-> <<>>]
    /\ debt = NoDebt
    /\ rate \in Rates
    /\ tokens = Capacity(rate)
    /\ passed = NothingPassed

(* A class without due work is not being passed by anyone. *)
Waiting(count) == passed' = [c \in {"Audio", "Video"} |-> IF Due(c)' THEN count[c] ELSE 0]

(* queue_with_id: a full critical queue refuses, the others drop their oldest. *)
QueuePacket(class, length) ==
    /\ \/ /\ Len(queue[class]) < QueueCapacity[class]
          /\ queue' = [queue EXCEPT ![class] = Append(@, length)]
       \/ /\ Len(queue[class]) = QueueCapacity[class]
          /\ class # "Critical"
          /\ queue' = [queue EXCEPT ![class] = Append(Tail(@), length)]
    /\ UNCHANGED <<debt, tokens, rate>>
    /\ Waiting(passed)

(* pop_due when the delivery history admits the packet. *)
PopDue(class) ==
    LET length == Head(queue[class])
        ahead == [c \in {"Audio", "Video"} |->
                    IF c = class THEN 0
                    ELSE IF class = "Video" THEN passed[c] ELSE passed[c] + length]
    IN  /\ class \in SelectClass
        /\ queue' = [queue EXCEPT ![class] = Tail(@)]
        /\ tokens' = IF class = "Video" THEN Consume(length) ELSE tokens
        /\ debt' = RecordService(class, length)
        /\ UNCHANGED rate
        /\ Waiting(ahead)

(* Pacer::refill over one tick. *)
Tick ==
    /\ tokens' = Min({tokens + rate, Capacity(rate)})
    /\ UNCHANGED <<queue, debt, rate>>
    /\ Waiting(passed)

(* clamp_debt. *)
ClampDebt(r) == [c \in DOMAIN debt |-> Min({debt[c], Quantum(r)})]

(* set_wire_rate_mbps. *)
SetWireRate(r) ==
    /\ rate' = r
    /\ tokens' = IF rate = 0 THEN Capacity(r) ELSE Min({tokens, Capacity(r)})
    /\ debt' = ClampDebt(r)
    /\ passed' = NothingPassed
    /\ UNCHANGED queue

(* reset_generation: the queues survive a path migration. *)
ResetGeneration ==
    /\ tokens' = Capacity(rate)
    /\ debt' = NoDebt
    /\ passed' = NothingPassed
    /\ UNCHANGED <<queue, rate>>

Next ==
    \/ \E class \in Classes, length \in Lengths : QueuePacket(class, length)
    \/ \E class \in Classes : PopDue(class)
    \/ Tick
    \/ \E r \in Rates : SetWireRate(r)
    \/ ResetGeneration

Spec == Init /\ [][Next]_vars

-----------------------------------------------------------------------------
(* Properties *)

(* Queues, debts and credit stay within their bounds at every rate. *)
TypeOK ==
    /\ \A c \in Classes : /\ queue[c] \in Seq(Lengths)
                          /\ Len(queue[c]) <= QueueCapacity[c]
    /\ \A c \in DOMAIN debt : debt[c] \in 0 .. Quantum(rate)
    /\ tokens \in 0 .. Capacity(rate)
    /\ rate \in Rates

(***************************************************************************)
(* Queued work is serviceable at once or after a finite refill: yielding   *)
(* classes never wait for each other, and no rate makes the bucket too     *)
(* small for the packet at the head of the video queue.                    *)
(***************************************************************************)
NothingStranded ==
    (\E c \in Classes : queue[c] # <<>>) =>
        \/ SelectClass # {}
        \/ queue["Critical"] = <<>> /\ queue["Audio"] = <<>>
           /\ Head(queue["Video"]) <= Capacity(rate)

(* What a class may send before it has spent a quantum. *)
Run == Quantum(rate) + Datagram - 1

(***************************************************************************)
(* "Priority service is bounded": critical traffic passes a waiting audio  *)
(* packet by two runs at most, one before and one after a video packet     *)
(* that audio itself has to let go first; and "continuous priority traffic *)
(* cannot starve video": a due video packet is passed by one run of audio  *)
(* and, because each audio packet restarts the critical quantum, by a      *)
(* critical run before each of its packets and one before the video packet *)
(* itself.  The count starts again when the rate changes: clamping to a    *)
(* lower quantum and raising the rate again forgives debt.                 *)
(***************************************************************************)
PriorityIsBounded ==
    /\ passed["Audio"] <= 2 * Run
    /\ passed["Video"] <= Run + (Quantum(rate) + 1) * Run
=============================================================================
