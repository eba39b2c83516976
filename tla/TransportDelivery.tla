-------------------------- MODULE TransportDelivery --------------------------
(***************************************************************************)
(* One direction of a session's packet-delivery accounting: the sender's   *)
(* DeliveryEstimator, whose fixed ring remembers the packets in flight,    *)
(* and the receiver's TransportAckWindow, which coalesces acknowledgements *)
(* of outer counters.  Outer counters number everything the sender seals,  *)
(* tracked or not.  Both structures are replaced when their own peer       *)
(* activates a path generation; the order of those activations is that of  *)
(* PathHandoff, which the two migration controllers implement.             *)
(*                                                                         *)
(* A datagram arrives at most once (Session::open refuses replays), late,  *)
(* in any order or not at all.  Time is counted in ticks of one clock.     *)
(***************************************************************************)
EXTENDS Integers, FiniteSets, FiniteSetsExt

CONSTANTS
    None,            \* an absent value
    Capacity,        \* DELIVERY_HISTORY_CAPACITY
    Window,          \* ACK_BITMAP_BITS
    StaleAfter,      \* STALE_AFTER_MS
    Threshold,       \* TransportAckConfig::packet_threshold
    MaxDelay,        \* TransportAckConfig::max_delay
    MaxAckDelay,     \* MAX_ACK_DELAY_US
    MaxGeneration,   \* bound: path generations
    MaxCounter,      \* bound: packets the sender seals
    MaxTime          \* bound: clock ticks

Peers == {"Host", "Client"}

ASSUME DeliveryAssumption ==
    /\ {Capacity, Window, StaleAfter, Threshold, MaxDelay, MaxGeneration} \subseteq Nat \ {0}
    /\ {MaxAckDelay, MaxCounter, MaxTime} \subseteq Nat
    /\ MaxDelay <= MaxAckDelay
    /\ None \notin Int

VARIABLES
    sender,          \* the peer whose packets are tracked, fixed by Init
    hostGeneration, clientGeneration, host,   \* the path handoff
    enabled,         \* the receiver's migration_enabled
    now,             \* the clock
    counter,         \* Session::next_tx_counter of the sender
    estimator,       \* the sender's DeliveryEstimator
    window,          \* the receiver's TransportAckWindow
    wire,            \* datagrams in flight, both ways
    failed,          \* the error a call on authentic input has returned, if any
    got,             \* history: packets the receiver has observed
    retired,         \* history: packets the estimator counted as delivered
    sample           \* history: the last RTT sample and what it measured

handoff == <<hostGeneration, clientGeneration, host>>

receiver == CHOOSE p \in Peers : p # sender

vars == <<sender, handoff, enabled, now, counter, estimator, window, wire, failed,
          got, retired, sample>>

Handoff == INSTANCE PathHandoff

Generation(p) == IF p = "Host" THEN hostGeneration ELSE clientGeneration

(* application_slot() is Ok: the host is silent while its commit is out. *)
MaySend(p) == p = "Client" \/ host = "sending"

(* recv() ends with CommitUnconfirmed once the host has given up. *)
Receiving(p) == p = "Client" \/ host # "unconfirmed"

-----------------------------------------------------------------------------
(* DeliveryEstimator *)

NewEstimator(generation) ==
    [generation |-> generation,
     history |-> [i \in 0 .. Capacity - 1 |-> None],
     highestSent |-> None,
     sent |-> 0, acknowledged |-> 0, inFlight |-> 0, stale |-> 0]

SlotIndex(c) == c % Capacity

(* The entry that remembers packet c, if any: a set of at most one. *)
EntryOfSlot(est, c) == {est.history[SlotIndex(c)]} \ {None}

EntryOf(est, generation, c) ==
    {e \in EntryOfSlot(est, c) : e.generation = generation /\ e.counter = c}

(* can_record of a counter above every recorded one. *)
CanRecord(est, generation, c) ==
    /\ generation = est.generation
    /\ \A e \in EntryOfSlot(est, c) : now - e.sentAt >= StaleAfter

(* record_sent of an ack-eliciting packet: the error, or the estimator after. *)
RecordSent(est, generation, c) ==
    LET aged == EntryOfSlot(est, c)
        error ==
            IF generation < est.generation THEN "StaleGeneration"
            ELSE IF generation > est.generation THEN "FutureGeneration"
            ELSE IF est.highestSent # None /\ c <= est.highestSent THEN "CounterReuse"
            ELSE IF \E e \in aged : now - e.sentAt < StaleAfter THEN "HistoryFull"
            ELSE None
    IN  [error |-> error,
         estimator |->
            IF error # None THEN est
            ELSE [est EXCEPT
                    !.history[SlotIndex(c)] =
                        [generation |-> generation, counter |-> c, sentAt |-> now],
                    !.highestSent = c,
                    !.sent = @ + 1,
                    !.stale = @ + Cardinality(aged),
                    !.inFlight = @ + 1 - Cardinality(aged)]]

(* The checks acknowledge makes before it changes anything. *)
AckError(est, ack) ==
    IF ack.generation > est.generation THEN "FutureGeneration"
    ELSE IF ack.delay > MaxAckDelay THEN "AckDelayTooLarge"
    ELSE IF est.highestSent = None \/ ack.largest > est.highestSent THEN "FutureCounter"
    ELSE IF \E o \in ack.received : o > ack.largest THEN "CounterUnderflow"
    ELSE None

AckedEntriesOfSlot(est, ack) ==
    UNION {EntryOfSlot(est, ack.largest - o) : o \in ack.received}

(* The history entries an acknowledgement retires. *)
AckedEntries(est, ack) ==
    UNION {EntryOf(est, ack.generation, ack.largest - o) : o \in ack.received}

(* acknowledge of the estimator's own generation, checks passed. *)
Retire(est, entries) ==
    [est EXCEPT
        !.history = [i \in DOMAIN @ |-> IF @[i] \in entries THEN None ELSE @[i]],
        !.acknowledged = @ + Cardinality(entries),
        !.inFlight = @ - Cardinality(entries)]

(* The RTT sample, taken only when the largest counter is newly retired. *)
RttSample(est, ack) ==
    {Max({(now - e.sentAt) - ack.delay, 0}) : e \in EntryOf(est, ack.generation, ack.largest)}

-----------------------------------------------------------------------------
(* TransportAckWindow; masks are sets of offsets below the largest counter *)

NewWindow(generation) ==
    [generation |-> generation, largest |-> None, received |-> {}, pending |-> {},
     largestAt |-> 0, pendingSince |-> None, force |-> FALSE]

Shift(mask, delta) == {0} \cup {o + delta : o \in {q \in mask : q + delta < Window}}

MarkPending(w, gap) ==
    [w EXCEPT !.pendingSince = IF @ = None THEN now ELSE @,
              !.force = @ \/ gap]

ObserveNoShift(w, c) ==
    IF w.largest = None \/ c > w.largest
    THEN MarkPending([w EXCEPT !.largest = c, !.received = @ \cup {0},
                               !.pending = @ \cup {0}, !.largestAt = now], FALSE)
    ELSE w

(* observe. *)
Observe(w, c) ==
    LET offset == w.largest - c
    IN  CASE w.largest = None ->
                [w EXCEPT !.largest = c, !.received = {0}, !.pending = {0},
                          !.largestAt = now, !.pendingSince = now]
          [] w.largest # None /\ c > w.largest ->
                MarkPending([w EXCEPT !.largest = c,
                                      !.received = Shift(@, c - w.largest),
                                      !.pending = Shift(@, c - w.largest),
                                      !.largestAt = now],
                            c - w.largest > 1)
          [] w.largest # None /\ c <= w.largest
             /\ offset < Window /\ offset \notin w.received ->
                MarkPending([w EXCEPT !.received = @ \cup {offset},
                                      !.pending = @ \cup {offset}], TRUE)
          [] OTHER -> w

(* due. *)
Due(w) ==
    /\ w.pendingSince # None
    /\ w.force \/ Cardinality(w.pending) >= Threshold \/ now - w.pendingSince >= MaxDelay

AckDelayOfPending(w) == Min({now - w.pendingSince, MaxAckDelay})

AckDelay(w) == Min({now - w.largestAt, MaxAckDelay})

(* The acknowledgement take returns, with the time it leaves (not on the wire). *)
TransportAck(w) ==
    [kind |-> "Ack", slot |-> Generation(receiver), generation |-> w.generation,
     largest |-> w.largest, received |-> w.received, delay |-> AckDelay(w),
     takenAt |-> now]

(* What take leaves. *)
Taken(w) == [w EXCEPT !.pending = {}, !.pendingSince = None, !.force = FALSE]

TakeIfDue(w, flying) ==
    IF Due(w) /\ w.generation = Generation(receiver)
    THEN window' = Taken(w) /\ wire' = flying \cup {TransportAck(w)}
    ELSE window' = w /\ wire' = flying

-----------------------------------------------------------------------------
(* The session *)

Init ==
    /\ Handoff!Init
    /\ sender \in Peers
    /\ enabled \in BOOLEAN   \* which of the two negotiations returned first
    /\ now = 0
    /\ counter = 0
    /\ estimator = NewEstimator(1)
    /\ window = NewWindow(1)
    /\ wire = {}
    /\ failed = None
    /\ got = {}
    /\ retired = {}
    /\ sample = None

Sealed(kind) ==
    [kind |-> kind, slot |-> Generation(sender), counter |-> counter, sentAt |-> now]

(* One packet of flush_outbound_inner: admit, seal, write, record. *)
SendApplication ==
    LET generation == Generation(sender)
        r == RecordSent(estimator, generation, counter)
    IN  /\ counter < MaxCounter
        /\ MaySend(sender)
        /\ CanRecord(estimator, generation, counter)
        /\ counter' = counter + 1
        /\ wire' = wire \cup {Sealed("Application")}
        /\ estimator' = r.estimator
        /\ failed' = r.error
        /\ UNCHANGED <<handoff, enabled, now, window, got, retired, sample>>

(***************************************************************************)
(* send_immediate_on of a keepalive, a probe or an acknowledgement, or a   *)
(* write_sealed_on that fails: the counter is spent and nothing is tracked.*)
(***************************************************************************)
SealUntracked ==
    /\ counter < MaxCounter
    /\ counter' = counter + 1
    /\ UNCHANGED <<handoff, enabled, now, estimator, window, wire, failed,
                   got, retired, sample>>

(* send_path_control: Prepare may follow the sender's negotiation at once. *)
SendPathControl ==
    /\ counter < MaxCounter
    /\ counter' = counter + 1
    /\ wire' = wire \cup {Sealed("PathControl")}
    /\ UNCHANGED <<handoff, enabled, now, estimator, window, failed,
                   got, retired, sample>>

TrackedOnAnySlot(packet) == packet.kind = "Application" \/ ~enabled

(* The packet passes recv_step's filters and reaches observe. *)
Tracked(packet) ==
    /\ packet.kind = "Application" \/ ~enabled
    /\ packet.slot = Generation(receiver)

(* recv_step of a datagram from the sender. *)
ReceivePacket(packet) ==
    /\ packet.kind # "Ack"
    /\ Receiving(receiver)
    /\ \/ /\ Tracked(packet)
          /\ TakeIfDue(Observe(window, packet.counter), wire \ {packet})
          /\ got' = got \cup {[generation |-> window.generation, kind |-> packet.kind,
                               counter |-> packet.counter, sentAt |-> packet.sentAt,
                               at |-> now]}
       \/ /\ ~Tracked(packet)
          /\ wire' = wire \ {packet}
          /\ UNCHANGED <<window, got>>
    /\ UNCHANGED <<handoff, enabled, now, counter, estimator, failed, retired, sample>>

(* send_due_transport_ack, from recv_step's timer. *)
SendDueAck ==
    /\ Receiving(receiver)
    /\ Due(window)
    /\ TakeIfDue(window, wire)
    /\ UNCHANGED <<handoff, enabled, now, counter, estimator, failed, got, retired, sample>>

(* What the two transits of an acknowledged packet took, and how long the *)
(* receiver held it.                                                       *)
Measured(ack, value) ==
    LET g == CHOOSE x \in got : x.generation = ack.generation /\ x.counter = ack.largest
    IN  [value |-> value,
         transit |-> (g.at - g.sentAt) + (now - ack.takenAt),
         held |-> ack.takenAt - g.at]

(* acknowledge of the estimator's generation. *)
Acknowledge(ack) ==
    LET entries == AckedEntries(estimator, ack)
    IN  /\ estimator' = Retire(estimator, entries)
        /\ retired' = retired \cup {[generation |-> ack.generation, counter |-> e.counter] :
                                      e \in entries}
        /\ \/ /\ RttSample(estimator, ack) = {}
              /\ UNCHANGED sample
           \/ \E value \in RttSample(estimator, ack) : sample' = Measured(ack, value)

(* recv_step of a transport acknowledgement. *)
ReceiveAck(ack) ==
    /\ ack.kind = "Ack"
    /\ Receiving(sender)
    /\ wire' = wire \ {ack}
    /\ \/ /\ ack.slot # Generation(sender) \/ ack.generation < estimator.generation
          /\ UNCHANGED <<estimator, failed, retired, sample>>
       \/ /\ ack.slot = Generation(sender) /\ ack.generation >= estimator.generation
          /\ AckError(estimator, ack) # None
          /\ failed' = AckError(estimator, ack)
          /\ UNCHANGED <<estimator, retired, sample>>
       \/ /\ ack.slot = Generation(sender) /\ ack.generation >= estimator.generation
          /\ AckError(estimator, ack) = None
          /\ Acknowledge(ack)
          /\ UNCHANGED failed
    /\ UNCHANGED <<handoff, enabled, now, counter, window, got>>

(* MigrationAction::Activate at one peer. *)
Activate(p) ==
    /\ IF p = "Host" THEN Handoff!HostFollows ELSE Handoff!ClientMoves
    /\ estimator' = IF p = sender THEN NewEstimator(Generation(p)') ELSE estimator
    /\ window' = IF p = sender THEN window ELSE NewWindow(Generation(p)')
    /\ UNCHANGED <<enabled, now, counter, wire, failed, got, retired, sample>>

(* The host commits, or gives up waiting for the acknowledgement. *)
HostDecides ==
    /\ enabled
    /\ Handoff!Silence \/ Handoff!GiveUp
    /\ UNCHANGED <<enabled, now, counter, estimator, window, wire, failed,
                   got, retired, sample>>

(* negotiate_host or negotiate_client returns at the receiver. *)
Enable ==
    /\ ~enabled
    /\ enabled' = TRUE
    /\ UNCHANGED <<handoff, now, counter, estimator, window, wire, failed,
                   got, retired, sample>>

Lose(packet) ==
    /\ wire' = wire \ {packet}
    /\ UNCHANGED <<handoff, enabled, now, counter, estimator, window, failed,
                   got, retired, sample>>

Tick ==
    /\ now < MaxTime
    /\ now' = now + 1
    /\ UNCHANGED <<handoff, enabled, counter, estimator, window, wire, failed,
                   got, retired, sample>>

Next ==
    /\ failed = None
    /\ UNCHANGED sender
    /\ \/ SendApplication
       \/ SealUntracked
       \/ SendPathControl
       \/ SendDueAck
       \/ HostDecides
       \/ Enable
       \/ Tick
       \/ \E p \in Peers : Activate(p)
       \/ \E packet \in wire : ReceivePacket(packet) \/ ReceiveAck(packet) \/ Lose(packet)

Spec == Init /\ [][Next]_vars

-----------------------------------------------------------------------------
(* Properties *)

Entries == {estimator.history[i] : i \in DOMAIN estimator.history} \ {None}

(* Ring, window and counters have their types; ring entries sit in the slot *)
(* of their counter.                                                        *)
TypeOK ==
    /\ estimator.generation = Generation(sender)
    /\ window.generation = Generation(receiver)
    /\ \A i \in DOMAIN estimator.history : estimator.history[i] # None =>
          SlotIndex(estimator.history[i].counter) = i
    /\ window.received \subseteq 0 .. Window - 1
    /\ window.pending \subseteq window.received
    /\ window.pending # {} <=> window.pendingSince # None
    /\ now \in 0 .. MaxTime /\ counter \in 0 .. MaxCounter

(***************************************************************************)
(* "The receiver tracks only authenticated, active-generation,             *)
(* ack-eliciting application packets. It does not track transport-meta     *)
(* ACKs, path-control records, path probes, or keepalive records."         *)
(***************************************************************************)
TracksOnlyApplication == \A g \in got : g.kind = "Application"

(***************************************************************************)
(* Neither recording a packet that can_record admitted nor an              *)
(* acknowledgement of the real peer is ever an error, whatever happens to  *)
(* the two activations and to the packets around them: recv() ends the     *)
(* session on such an error.  (A tracked path-control record is the one    *)
(* exception, and TracksOnlyApplication is about it.)                      *)
(***************************************************************************)
HonestPeerAccepted == TracksOnlyApplication => failed = None

(***************************************************************************)
(* A packet counted as delivered was observed by the receiver on that very *)
(* generation: reuse of a ring slot, of the bitmap's offsets or of         *)
(* counters across generations never credits another packet.               *)
(***************************************************************************)
DeliveredWasObserved ==
    \A r \in retired : \E g \in got : g.generation = r.generation /\ g.counter = r.counter

(***************************************************************************)
(* The bitmap is exactly the set of observed counters in the window below  *)
(* the largest one, after any sequence of gaps, fills, shifts and resets.  *)
(***************************************************************************)
WindowIsExact ==
    LET observed == {g.counter : g \in {x \in got : x.generation = window.generation}}
    IN  IF window.largest = None
        THEN observed = {}
        ELSE /\ window.largest = Max(observed)
             /\ {window.largest - o : o \in window.received} =
                    {c \in observed : c > window.largest - Window}

(***************************************************************************)
(* An RTT sample is the time the packet and its acknowledgement spent on   *)
(* the network, whatever coalescing, loss or repetition of the             *)
(* acknowledgement came before; it may only exceed it by the part of the   *)
(* receiver's holding time that the wire format cannot carry.              *)
(***************************************************************************)
RttIsTransit ==
    sample # None =>
        sample.value = sample.transit + Max({sample.held - MaxAckDelay, 0})
=============================================================================
