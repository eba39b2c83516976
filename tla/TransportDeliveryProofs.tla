----------------------- MODULE TransportDeliveryProofs -----------------------
(***************************************************************************)
(* Proofs about TransportDelivery, for every ring size, window, threshold, *)
(* delay, number of generations and schedule of loss and reordering.       *)
(*                                                                         *)
(* Outer counters are never reused, so a counter stands for one datagram   *)
(* on the wire or one observation; whatever an acknowledgement names has   *)
(* been observed on its generation, and whatever was observed on the       *)
(* sender's generation has been recorded in its estimator.                 *)
(***************************************************************************)
EXTENDS TransportDelivery, TLAPS

Kinds == {"Application", "PathControl"}

Entry == [generation : Nat, counter : Nat, sentAt : Nat]

Packet == [kind : Kinds, slot : Nat, counter : Nat, sentAt : Nat]

Ack == [kind : {"Ack"}, slot : Nat, generation : Nat, largest : Nat,
        received : SUBSET Nat, delay : Nat, takenAt : Nat]

Observation == [generation : Nat, kind : Kinds, counter : Nat, sentAt : Nat, at : Nat]

Packets == {p \in wire : p.kind # "Ack"}

Acks == {a \in wire : a.kind = "Ack"}

\* An estimator: what its counters count does not matter here.
IsEstimator(est) ==
  /\ est = [generation |-> est.generation, history |-> est.history,
            highestSent |-> est.highestSent, sent |-> est.sent,
            acknowledged |-> est.acknowledged, inFlight |-> est.inFlight,
            stale |-> est.stale]
  /\ est.generation \in Nat
  /\ est.history \in [0 .. Capacity - 1 -> Entry \cup {None}]
  /\ est.highestSent \in Nat \cup {None}

IsWindow(w) ==
  /\ w \in [generation : Nat, largest : Nat \cup {None}, received : SUBSET (0 .. Window - 1),
            pending : SUBSET (0 .. Window - 1), largestAt : Nat,
            pendingSince : Nat \cup {None}, force : BOOLEAN]
  /\ w.pending \subseteq w.received
  /\ w.pending # {} <=> w.pendingSince # None
  /\ w.largest = None => w.received = {}

Types ==
  /\ sender \in Peers /\ hostGeneration \in Nat /\ clientGeneration \in Nat
  /\ now \in 0 .. MaxTime /\ counter \in 0 .. MaxCounter
  /\ IsEstimator(estimator) /\ estimator.generation = Generation(sender)
  /\ IsWindow(window) /\ window.generation = Generation(receiver)
  /\ wire \in SUBSET (Packet \cup Ack)
  /\ got \in SUBSET Observation

\* Packet c, sent as kind on this generation at time t, is known to the
\* estimator: by its highest counter, and with its time while it is in flight.
Recorded(est, generation, kind, c, t) ==
  /\ generation <= est.generation
  /\ kind = "Application" /\ generation = est.generation =>
        est.highestSent # None /\ c <= est.highestSent
  /\ \A i \in 0 .. Capacity - 1 :
        est.history[i] # None /\ est.history[i].counter = c => est.history[i].sentAt = t

\* The estimator knows of no counter that has not been sealed.
Sealing(est, next) ==
  /\ est.highestSent # None => est.highestSent < next
  /\ \A i \in 0 .. Capacity - 1 : est.history[i] # None =>
        est.history[i].counter < next /\ SlotIndex(est.history[i].counter) = i

Sending ==
  /\ Sealing(estimator, counter)
  /\ \A p \in Packets : /\ p.sentAt <= now /\ p.counter < counter
                        /\ Recorded(estimator, p.slot, p.kind, p.counter, p.sentAt)
  /\ \A g \in got : /\ g.sentAt <= g.at /\ g.at <= now /\ g.counter < counter
                    /\ Recorded(estimator, g.generation, g.kind, g.counter, g.sentAt)

\* A counter stands for one datagram in flight or one observation.
Unique ==
  /\ \A p, q \in Packets : p.counter = q.counter => p = q
  /\ \A p \in Packets, g \in got : p.counter # g.counter
  /\ \A g, h \in got : g.counter = h.counter => g = h

\* The observation of a counter on a generation.
Saw(g, generation, c) == g.generation = generation /\ g.counter = c

\* The bitmap and the observations on the window's generation are the same.
Observing(w, seen) ==
  /\ \A g \in seen : g.generation <= w.generation
  /\ \A g \in seen : g.generation = w.generation =>
        /\ w.largest # None /\ g.counter <= w.largest
        /\ g.counter > w.largest - Window => w.largest - g.counter \in w.received
  /\ w.largest # None =>
        /\ \A o \in w.received : \E g \in seen : Saw(g, w.generation, w.largest - o)
        /\ \E g \in seen : Saw(g, w.generation, w.largest) /\ g.at = w.largestAt

\* An acknowledgement names observations of its generation, and tells how
\* long the largest was held.
Names(a, seen) ==
  /\ a.slot = a.generation
  /\ \A o \in a.received : \E g \in seen : Saw(g, a.generation, a.largest - o)
  /\ \E g \in seen : /\ Saw(g, a.generation, a.largest) /\ g.at <= a.takenAt
                     /\ a.delay = Min({a.takenAt - g.at, MaxAckDelay})

Acking == \A a \in Acks : a.takenAt <= now /\ Names(a, got)

DeliveryInv ==
  /\ Types /\ Sending /\ Unique /\ Observing(window, got) /\ Acking
  /\ HonestPeerAccepted /\ DeliveredWasObserved /\ RttIsTransit

-----------------------------------------------------------------------------
(* Arithmetic and the peers. *)

\* The smaller of two numbers.
LEMMA MinOfTwo ==
  ASSUME NEW a \in Int, NEW b \in Int
  PROVE  Min({a, b}) = IF a <= b THEN a ELSE b
BY DEF Min

\* The larger of two numbers.
LEMMA MaxOfTwo ==
  ASSUME NEW a \in Int, NEW b \in Int
  PROVE  Max({a, b}) = IF a >= b THEN a ELSE b
BY DEF Max

\* The constants are numbers, and None is not.
LEMMA ConstantFacts ==
  /\ Capacity \in Nat /\ Capacity > 0 /\ Window \in Nat /\ Window > 0
  /\ MaxAckDelay \in Nat /\ MaxTime \in Nat /\ MaxCounter \in Nat
  /\ MaxTime >= 0 /\ MaxCounter >= 0
  /\ None \notin Int /\ None \notin Nat
BY DeliveryAssumption

\* The receiver is the other peer.
LEMMA ReceiverFacts ==
  ASSUME sender \in Peers
  PROVE  receiver \in Peers /\ receiver # sender
         /\ \A p \in Peers : p = sender \/ p = receiver
BY DEF receiver, Peers

\* A slot of the ring.
LEMMA SlotIndexFacts ==
  ASSUME NEW c \in Nat
  PROVE  SlotIndex(c) \in 0 .. Capacity - 1
BY ConstantFacts DEF SlotIndex

-----------------------------------------------------------------------------
(* The estimator. *)

\* A new estimator remembers nothing.
LEMMA NewEstimatorFacts ==
  ASSUME NEW generation \in Nat
  PROVE  /\ IsEstimator(NewEstimator(generation))
         /\ NewEstimator(generation).generation = generation
         /\ NewEstimator(generation).highestSent = None
         /\ \A i \in 0 .. Capacity - 1 : NewEstimator(generation).history[i] = None
BY DEF NewEstimator, IsEstimator

\* What record_sent leaves.
AfterRecord(est, new, c) ==
  /\ IsEstimator(new) /\ new.generation = est.generation /\ new.highestSent = c
  /\ \A i \in 0 .. Capacity - 1 :
        new.history[i] = IF i = SlotIndex(c)
                         THEN [generation |-> est.generation, counter |-> c, sentAt |-> now]
                         ELSE est.history[i]

\* record_sent of a packet that can_record admitted is no error.
LEMMA RecordSentFacts ==
  ASSUME NEW est, IsEstimator(est), NEW c \in Nat, now \in Nat,
         NEW generation, CanRecord(est, generation, c), Sealing(est, c)
  PROVE  /\ RecordSent(est, generation, c).error = None
         /\ AfterRecord(est, RecordSent(est, generation, c).estimator, c)
<1> DEFINE aged == EntryOfSlot(est, c)
           entry == [generation |-> generation, counter |-> c, sentAt |-> now]
           new == [est EXCEPT !.history[SlotIndex(c)] = entry,
                              !.highestSent = c,
                              !.sent = @ + 1,
                              !.stale = @ + Cardinality(aged),
                              !.inFlight = @ + 1 - Cardinality(aged)]
           r == RecordSent(est, generation, c)
<1>1. generation = est.generation /\ generation \in Nat /\ est.highestSent \in Nat \cup {None}
  BY DEF CanRecord, IsEstimator
<1>2. ~ (generation < est.generation) /\ ~ (generation > est.generation)
  BY <1>1
<1>3. ~ (est.highestSent # None /\ c <= est.highestSent)
  BY <1>1 DEF Sealing
<1>4. ~ (\E e \in aged : now - e.sentAt < StaleAfter)
  <2>1. \A e \in aged : e \in Entry
    BY SlotIndexFacts DEF IsEstimator, EntryOfSlot
  <2>2. \A e \in aged : now - e.sentAt >= StaleAfter /\ now - e.sentAt \in Int
    BY <2>1 DEF CanRecord, Entry
  <2>3. StaleAfter \in Int
    BY DeliveryAssumption
  <2> QED BY <2>2, <2>3
<1>5. r.error = None /\ r.estimator = new
  BY <1>2, <1>3, <1>4 DEF RecordSent
<1> HIDE DEF aged
<1>6. /\ new = [generation |-> est.generation, history |-> [est.history EXCEPT ![SlotIndex(c)] = entry],
                highestSent |-> c, sent |-> est.sent + 1, acknowledged |-> est.acknowledged,
                inFlight |-> est.inFlight + 1 - Cardinality(aged),
                stale |-> est.stale + Cardinality(aged)]
  <2> DEFINE h == est.history
             k == Cardinality(aged)
             i == SlotIndex(c)
  <2>1. est = [generation |-> est.generation, history |-> h,
               highestSent |-> est.highestSent, sent |-> est.sent,
               acknowledged |-> est.acknowledged, inFlight |-> est.inFlight,
               stale |-> est.stale]
    BY DEF IsEstimator
  <2>2. new = [est EXCEPT !.history = [h EXCEPT ![i] = entry], !.highestSent = c,
                          !.sent = est.sent + 1, !.stale = est.stale + k,
                          !.inFlight = est.inFlight + 1 - k]
    OBVIOUS
  <2> HIDE DEF h, k, i, entry, new
  <2>3. new = [generation |-> est.generation, history |-> [h EXCEPT ![i] = entry],
               highestSent |-> c, sent |-> est.sent + 1, acknowledged |-> est.acknowledged,
               inFlight |-> est.inFlight + 1 - k, stale |-> est.stale + k]
    BY <2>1, <2>2
  <2> QED BY <2>3 DEF h, k, i
<1>7. entry \in Entry
  BY <1>1 DEF Entry
<1>8. /\ new.history = [est.history EXCEPT ![SlotIndex(c)] = entry]
      /\ new.generation = est.generation /\ new.highestSent = c
  BY <1>6
<1>9. est.history \in [0 .. Capacity - 1 -> Entry \cup {None}]
  BY DEF IsEstimator
<1>10. new.history \in [0 .. Capacity - 1 -> Entry \cup {None}]
  BY <1>7, <1>8, <1>9
<1>11. IsEstimator(new)
  <2> DEFINE h == [est.history EXCEPT ![SlotIndex(c)] = entry]
  <2>1. new = [generation |-> new.generation, history |-> new.history,
               highestSent |-> new.highestSent, sent |-> new.sent,
               acknowledged |-> new.acknowledged, inFlight |-> new.inFlight,
               stale |-> new.stale]
    <3> HIDE DEF h, entry
    <3> QED BY <1>6
  <2> HIDE DEF new
  <2> QED BY <1>1, <1>8, <1>10, <2>1 DEF IsEstimator
<1>12. \A i \in 0 .. Capacity - 1 :
          new.history[i] = IF i = SlotIndex(c) THEN entry ELSE est.history[i]
  <2> HIDE DEF new, entry
  <2> QED BY <1>8, <1>9
<1> HIDE DEF new
<1> QED BY <1>1, <1>5, <1>8, <1>11, <1>12 DEF AfterRecord

\* acknowledge only empties slots.
LEMMA RetireFacts ==
  ASSUME NEW est, IsEstimator(est), NEW entries
  PROVE  /\ IsEstimator(Retire(est, entries))
         /\ Retire(est, entries).generation = est.generation
         /\ Retire(est, entries).highestSent = est.highestSent
         /\ \A i \in 0 .. Capacity - 1 : Retire(est, entries).history[i] \in {None, est.history[i]}
<1> DEFINE h == [i \in DOMAIN est.history |->
                   IF est.history[i] \in entries THEN None ELSE est.history[i]]
           new == Retire(est, entries)
<1>1. new = [est EXCEPT !.history = h, !.acknowledged = @ + Cardinality(entries),
                        !.inFlight = @ - Cardinality(entries)]
  BY DEF Retire
<1>2. h \in [0 .. Capacity - 1 -> Entry \cup {None}]
      /\ \A i \in 0 .. Capacity - 1 : h[i] \in {None, est.history[i]}
  BY DEF IsEstimator
<1> HIDE DEF h, new
<1>3. new = [generation |-> est.generation, history |-> h, highestSent |-> est.highestSent,
             sent |-> est.sent, acknowledged |-> est.acknowledged + Cardinality(entries),
             inFlight |-> est.inFlight - Cardinality(entries), stale |-> est.stale]
  BY <1>1 DEF IsEstimator
<1>4. new.generation = est.generation /\ new.history = h /\ new.highestSent = est.highestSent
      /\ new = [generation |-> new.generation, history |-> new.history,
                highestSent |-> new.highestSent, sent |-> new.sent,
                acknowledged |-> new.acknowledged, inFlight |-> new.inFlight,
                stale |-> new.stale]
  BY <1>3
<1> QED BY <1>2, <1>4 DEF IsEstimator, new

-----------------------------------------------------------------------------
(* The acknowledgement window. *)

\* A new window has seen nothing.
LEMMA NewWindowFacts ==
  ASSUME NEW generation \in Nat
  PROVE  /\ IsWindow(NewWindow(generation)) /\ NewWindow(generation).generation = generation
         /\ NewWindow(generation).largest = None
BY DEF NewWindow, IsWindow

\* What mark_pending leaves of a window whose pending set is not empty.
LEMMA MarkPendingFacts ==
  ASSUME NEW w, NEW gap \in BOOLEAN, now \in Nat,
         w \in [generation : Nat, largest : Nat \cup {None}, received : SUBSET (0 .. Window - 1),
                pending : SUBSET (0 .. Window - 1), largestAt : Nat,
                pendingSince : Nat \cup {None}, force : BOOLEAN],
         w.pending \subseteq w.received, w.pending # {}, w.largest # None
  PROVE  /\ IsWindow(MarkPending(w, gap))
         /\ MarkPending(w, gap).generation = w.generation
         /\ MarkPending(w, gap).largest = w.largest
         /\ MarkPending(w, gap).received = w.received
         /\ MarkPending(w, gap).largestAt = w.largestAt
BY ConstantFacts DEF MarkPending, IsWindow

\* The counters of a shifted bitmap are those before, as far as they fit.
LEMMA ShiftFacts ==
  ASSUME NEW mask, mask \subseteq 0 .. Window - 1, NEW delta \in Nat, delta > 0
  PROVE  /\ Shift(mask, delta) \subseteq 0 .. Window - 1 /\ 0 \in Shift(mask, delta)
         /\ \A o \in mask : o + delta < Window => o + delta \in Shift(mask, delta)
         /\ \A o \in Shift(mask, delta) : o = 0 \/ \E q \in mask : o = q + delta
BY ConstantFacts DEF Shift

\* observe adds one counter to the window, unless it is too old or known.
LEMMA ObserveFacts ==
  ASSUME NEW w, IsWindow(w), NEW c \in Nat, now \in Nat
  PROVE  LET v == Observe(w, c)
         IN  /\ IsWindow(v) /\ v.generation = w.generation
             /\ \/ /\ w.largest = None
                   /\ v.largest = c /\ v.received = {0} /\ v.largestAt = now
                \/ /\ w.largest # None /\ c > w.largest
                   /\ v.largest = c /\ v.received = Shift(w.received, c - w.largest)
                   /\ v.largestAt = now
                \/ /\ w.largest # None /\ c <= w.largest
                   /\ v.largest = w.largest /\ v.largestAt = w.largestAt
                   /\ v.received = w.received \cup ({w.largest - c} \cap (0 .. Window - 1))
<1> DEFINE v == Observe(w, c)
           Shape == [generation : Nat, largest : Nat \cup {None},
                     received : SUBSET (0 .. Window - 1), pending : SUBSET (0 .. Window - 1),
                     largestAt : Nat, pendingSince : Nat \cup {None}, force : BOOLEAN]
<1>1. w \in Shape /\ w.pending \subseteq w.received /\ (w.pending # {} <=> w.pendingSince # None)
  BY DEF IsWindow
<1>2. 0 \in 0 .. Window - 1 /\ None \notin Int
  BY ConstantFacts
<1>3. CASE w.largest = None
  <2>1. v = [w EXCEPT !.largest = c, !.received = {0}, !.pending = {0},
                      !.largestAt = now, !.pendingSince = now]
    BY <1>3 DEF Observe
  <2>2. /\ v.largest = c /\ v.received = {0} /\ v.pending = {0} /\ v.largestAt = now
        /\ v.pendingSince = now /\ v.generation = w.generation /\ v.force = w.force
        /\ v \in Shape
    <3> HIDE DEF v
    <3> QED BY <1>1, <1>2, <2>1
  <2>3. IsWindow(v)
    <3> HIDE DEF v
    <3> QED BY <1>2, <2>2 DEF IsWindow
  <2> QED BY <1>3, <2>2, <2>3
<1>4. CASE w.largest # None /\ c > w.largest
  <2> DEFINE delta == c - w.largest
             u == [w EXCEPT !.largest = c, !.received = Shift(@, delta),
                            !.pending = Shift(@, delta), !.largestAt = now]
  <2>1. v = MarkPending(u, delta > 1)
    <3>1. w.largest \in Int /\ ~ (c <= w.largest)
      BY <1>1, <1>4
    <3> QED BY <1>4, <3>1, Zenon DEF Observe
  <2>2. delta \in Nat /\ delta > 0 /\ w.received \subseteq 0 .. Window - 1
        /\ w.pending \subseteq 0 .. Window - 1 /\ w.pending \subseteq w.received
    BY <1>1, <1>4
  <2>3. /\ Shift(w.received, delta) \subseteq 0 .. Window - 1
        /\ Shift(w.pending, delta) \subseteq 0 .. Window - 1 /\ 0 \in Shift(w.pending, delta)
    BY <2>2, ShiftFacts
  <2>4. Shift(w.pending, delta) \subseteq Shift(w.received, delta)
    BY <2>2 DEF Shift
  <2> DEFINE r == Shift(w.received, delta)
             p == Shift(w.pending, delta)
  <2>5. /\ u = [w EXCEPT !.largest = c, !.received = r, !.pending = p, !.largestAt = now]
        /\ r \in SUBSET (0 .. Window - 1) /\ p \in SUBSET (0 .. Window - 1)
        /\ p \subseteq r /\ p # {}
    BY <2>3, <2>4
  <2> HIDE DEF r, p, u
  <2>6. /\ u \in Shape /\ u.generation = w.generation /\ u.largest = c /\ u.received = r
        /\ u.pending = p /\ u.largestAt = now
    BY <1>1, <2>5
  <2>7. /\ IsWindow(v) /\ v.generation = w.generation /\ v.largest = c /\ v.received = r
        /\ v.largestAt = now
    <3> DEFINE gap == delta > 1
    <3>1. gap \in BOOLEAN /\ v = MarkPending(u, gap)
      BY <2>1
    <3> HIDE DEF v, gap
    <3>2. u.pending \subseteq u.received /\ u.pending # {} /\ u.largest # None
      BY <1>2, <2>5, <2>6
    <3> QED BY <2>6, <3>1, <3>2, MarkPendingFacts
  <2> QED BY <1>4, <2>7 DEF r
<1>5. CASE /\ w.largest # None /\ c <= w.largest
           /\ w.largest - c < Window /\ w.largest - c \notin w.received
  <2> DEFINE o == w.largest - c
             u == [w EXCEPT !.received = @ \cup {o}, !.pending = @ \cup {o}]
  <2>1. v = MarkPending(u, TRUE)
    <3>1. w.largest \in Int /\ ~ (c > w.largest)
      BY <1>1, <1>5
    <3> QED BY <1>5, <3>1, Zenon DEF Observe
  <2>2. o \in 0 .. Window - 1
    BY <1>1, <1>2, <1>5, ConstantFacts
  <2> HIDE DEF o
  <2>3. /\ u \in Shape /\ u.generation = w.generation /\ u.largest = w.largest
        /\ u.received = w.received \cup {o} /\ u.pending = w.pending \cup {o}
        /\ u.largestAt = w.largestAt
    BY <1>1, <2>2
  <2> HIDE DEF u
  <2>4. u.pending \subseteq u.received /\ u.pending # {} /\ u.largest # None
    BY <1>1, <1>5, <2>3
  <2>5. /\ IsWindow(v) /\ v.generation = w.generation /\ v.largest = w.largest
        /\ v.received = w.received \cup {o} /\ v.largestAt = w.largestAt
    <3> HIDE DEF v
    <3> QED BY <2>1, <2>3, <2>4, MarkPendingFacts
  <2>6. {o} \cap (0 .. Window - 1) = {o}
    BY <2>2
  <2> QED BY <1>5, <2>5, <2>6 DEF o
<1>6. CASE /\ w.largest # None /\ c <= w.largest
           /\ ~ (w.largest - c < Window /\ w.largest - c \notin w.received)
  <2>1. v = w
    <3>1. w.largest \in Int /\ ~ (c > w.largest)
      BY <1>1, <1>6
    <3> QED BY <1>6, <3>1, Zenon DEF Observe
  <2>2. {w.largest - c} \cap (0 .. Window - 1) \subseteq w.received
    BY <1>1, <1>2, <1>6, ConstantFacts
  <2>3. w.received = w.received \cup ({w.largest - c} \cap (0 .. Window - 1))
    BY <2>2
  <2> QED BY <1>6, <2>1, <2>3
<1>7. w.largest # None => c > w.largest \/ c <= w.largest
  BY <1>1
<1> QED BY <1>3, <1>4, <1>5, <1>6, <1>7

\* A window that observes the counter of g has g among its observations.
LEMMA ObserveKeeps ==
  ASSUME NEW w, IsWindow(w), NEW seen, seen \subseteq Observation, Observing(w, seen),
         NEW g \in Observation, g.generation = w.generation, g.at = now, now \in Nat
  PROVE  Observing(Observe(w, g.counter), seen \cup {g})
<1> DEFINE c == g.counter
           v == Observe(w, c)
           all == seen \cup {g}
<1>1. /\ c \in Nat /\ w.generation \in Nat /\ w.largest \in Nat \cup {None}
      /\ w.received \subseteq 0 .. Window - 1
  BY DEF Observation, IsWindow
<1>2. /\ v.generation = w.generation
      /\ \/ /\ w.largest = None
            /\ v.largest = c /\ v.received = {0} /\ v.largestAt = now
         \/ /\ w.largest # None /\ c > w.largest
            /\ v.largest = c /\ v.received = Shift(w.received, c - w.largest)
            /\ v.largestAt = now
         \/ /\ w.largest # None /\ c <= w.largest
            /\ v.largest = w.largest /\ v.largestAt = w.largestAt
            /\ v.received = w.received \cup ({w.largest - c} \cap (0 .. Window - 1))
  BY <1>1, ObserveFacts, Zenon
<1>3. /\ Window \in Nat /\ Window > 0 /\ None \notin Nat
      /\ \A h \in seen : h.counter \in Nat /\ h.generation \in Nat
  BY ConstantFacts DEF Observation
<1>4. Saw(g, v.generation, c) /\ g \in all /\ g.counter = c /\ g.generation = v.generation
  BY <1>2 DEF Saw
<1>5. \A h \in seen : h.generation <= w.generation
  BY DEF Observing
<1>6. \A h \in seen : h.generation = w.generation =>
         /\ w.largest # None /\ h.counter <= w.largest
         /\ h.counter > w.largest - Window => w.largest - h.counter \in w.received
  BY DEF Observing
<1>7. w.largest # None =>
         /\ \A o \in w.received : \E h \in seen : Saw(h, w.generation, w.largest - o)
         /\ \E h \in seen : Saw(h, w.generation, w.largest) /\ h.at = w.largestAt
  BY DEF Observing
<1> HIDE DEF c, v, all
<1>8. \A h \in all : h \in seen \/ h = g
  BY DEF all
<1>9. \A h \in all : h.generation <= v.generation
  BY <1>1, <1>2, <1>5, <1>8
<1> SUFFICES /\ \A h \in all : h.generation = v.generation =>
                  /\ v.largest # None /\ h.counter <= v.largest
                  /\ h.counter > v.largest - Window => v.largest - h.counter \in v.received
             /\ \A o \in v.received : \E h \in all : Saw(h, v.generation, v.largest - o)
             /\ \E h \in all : Saw(h, v.generation, v.largest) /\ h.at = v.largestAt
  BY <1>9 DEF Observing, v, c, all
<1>10. CASE w.largest = None /\ v.largest = c /\ v.received = {0} /\ v.largestAt = now
  <2>1. \A h \in all : h.generation = v.generation => h = g
    BY <1>2, <1>6, <1>8, <1>10
  <2>2. c - 0 = c /\ c - c = 0 /\ c <= c /\ c # None
    BY <1>1, <1>3
  <2> QED BY <1>4, <1>10, <2>1, <2>2
<1>11. CASE /\ w.largest # None /\ c > w.largest
            /\ v.largest = c /\ v.received = Shift(w.received, c - w.largest)
            /\ v.largestAt = now
  <2> DEFINE delta == c - w.largest
             shifted == Shift(w.received, delta)
  <2>1. delta \in Nat /\ delta > 0 /\ w.largest \in Nat /\ c # None
    BY <1>1, <1>3, <1>11
  <2>2. /\ 0 \in shifted
        /\ \A o \in w.received : o + delta < Window => o + delta \in shifted
        /\ \A o \in shifted : o = 0 \/ \E q \in w.received : o = q + delta
    <3> DEFINE mask == w.received
    <3>1. mask \subseteq 0 .. Window - 1 /\ delta \in Nat /\ delta > 0
      BY <1>1, <2>1
    <3> HIDE DEF mask, delta
    <3>2. /\ 0 \in Shift(mask, delta)
          /\ \A o \in mask : o + delta < Window => o + delta \in Shift(mask, delta)
          /\ \A o \in Shift(mask, delta) : o = 0 \/ \E q \in mask : o = q + delta
      BY <3>1, ShiftFacts, Zenon
    <3> QED BY <3>2 DEF mask
  <2>3. v.received = shifted
    BY <1>11
  <2> HIDE DEF shifted
  <2>4. ASSUME NEW h \in all, h.generation = v.generation
        PROVE  h.counter <= c /\ (h.counter > c - Window => c - h.counter \in shifted)
    <3>1. CASE h = g
      BY <1>1, <1>4, <2>2, <3>1
    <3>2. CASE h \in seen
      <4>1. h.counter \in Nat /\ h.counter <= w.largest
            /\ (h.counter > w.largest - Window => w.largest - h.counter \in w.received)
        BY <1>2, <1>3, <1>6, <2>4, <3>2
      <4>2. h.counter <= c
        BY <1>1, <1>11, <2>1, <4>1
      <4>3. ASSUME h.counter > c - Window PROVE c - h.counter \in shifted
        <5>1. w.largest - h.counter \in w.received
          BY <1>1, <1>3, <2>1, <4>1, <4>3
        <5>2. /\ (w.largest - h.counter) + delta = c - h.counter
              /\ (w.largest - h.counter) + delta < Window
          BY <1>1, <1>3, <2>1, <4>1, <4>3
        <5> QED BY <2>2, <5>1, <5>2
      <4> QED BY <4>2, <4>3
    <3> QED BY <1>8, <3>1, <3>2
  <2>5. ASSUME NEW o \in shifted PROVE \E h \in all : Saw(h, v.generation, c - o)
    <3>1. CASE o = 0
      BY <1>1, <1>4, <3>1
    <3>2. ASSUME NEW q \in w.received, o = q + delta PROVE \E h \in all : Saw(h, v.generation, c - o)
      <4>1. c - o = w.largest - q
        BY <1>1, <2>1, <3>2
      <4>2. \E h \in seen : Saw(h, w.generation, w.largest - q)
        BY <1>7, <1>11
      <4> QED BY <1>2, <4>1, <4>2 DEF all
    <3> QED BY <2>2, <3>1, <3>2
  <2>6. \E h \in all : Saw(h, v.generation, c) /\ h.at = now
    BY <1>4
  <2> QED BY <1>11, <2>1, <2>3, <2>4, <2>5, <2>6
<1>12. CASE /\ w.largest # None /\ c <= w.largest
            /\ v.largest = w.largest /\ v.largestAt = w.largestAt
            /\ v.received = w.received \cup ({w.largest - c} \cap (0 .. Window - 1))
  <2>1. w.largest \in Nat
    BY <1>1, <1>12
  <2>2. ASSUME NEW h \in all, h.generation = v.generation
        PROVE  /\ h.counter <= w.largest
               /\ h.counter > w.largest - Window => w.largest - h.counter \in v.received
    <3>1. CASE h = g
      <4>1. c > w.largest - Window => w.largest - c \in 0 .. Window - 1
        BY <1>1, <1>3, <1>12, <2>1
      <4> QED BY <1>4, <1>12, <3>1, <4>1
    <3>2. CASE h \in seen
      BY <1>2, <1>6, <1>12, <2>2, <3>2
    <3> QED BY <1>8, <3>1, <3>2
  <2>3. ASSUME NEW o \in v.received PROVE \E h \in all : Saw(h, v.generation, w.largest - o)
    <3>1. CASE o \in w.received
      BY <1>2, <1>7, <1>12, <3>1 DEF all
    <3>2. CASE o = w.largest - c
      <4>1. w.largest - o = c
        BY <1>1, <2>1, <3>2
      <4> QED BY <1>4, <4>1
    <3> QED BY <1>12, <3>1, <3>2
  <2>4. \E h \in all : Saw(h, v.generation, w.largest) /\ h.at = w.largestAt
    BY <1>2, <1>7, <1>12 DEF all
  <2> QED BY <1>12, <2>2, <2>3, <2>4
<1> QED BY <1>2, <1>10, <1>11, <1>12

\* What the receiver puts on the wire when it takes an acknowledgement.
LEMMA TransportAckFacts ==
  ASSUME NEW w, IsWindow(w), NEW seen, seen \subseteq Observation, Observing(w, seen),
         \A g \in seen : g.at <= now, now \in Nat, Due(w), w.generation = Generation(receiver)
  PROVE  /\ TransportAck(w) \in Ack /\ TransportAck(w).kind = "Ack"
         /\ TransportAck(w).takenAt <= now /\ Names(TransportAck(w), seen)
<1> DEFINE a == TransportAck(w)
<1>1. /\ w.pendingSince # None /\ w.pending # {} /\ w.pending \subseteq w.received
      /\ w.largest # None /\ w.largest \in Nat \cup {None} /\ w.received \in SUBSET (0 .. Window - 1)
      /\ w.generation \in Nat
  BY DEF Due, IsWindow
<1>2. PICK g \in seen : Saw(g, w.generation, w.largest) /\ g.at = w.largestAt
  BY <1>1 DEF Observing
<1>3. g.at \in Nat /\ g.at <= now /\ MaxAckDelay \in Nat
  BY ConstantFacts DEF Observation
<1> DEFINE delay == Min({now - g.at, MaxAckDelay})
<1>4. delay \in Nat
  <2>1. delay = IF now - g.at <= MaxAckDelay THEN now - g.at ELSE MaxAckDelay
    BY <1>3, MinOfTwo
  <2> QED BY <1>3, <2>1
<1>5. a = [kind |-> "Ack", slot |-> w.generation, generation |-> w.generation,
           largest |-> w.largest, received |-> w.received, delay |-> delay, takenAt |-> now]
  BY <1>2 DEF TransportAck, AckDelay
<1> HIDE DEF delay, a
<1>6. /\ a.slot = a.generation /\ a.generation = w.generation /\ a.largest = w.largest
      /\ a.received = w.received /\ a.delay = delay /\ a.takenAt = now /\ a.kind = "Ack"
  BY <1>5
<1>7. a \in Ack
  <2>1. w.received \in SUBSET Nat /\ w.largest \in Nat
    BY <1>1
  <2> QED BY <1>1, <1>4, <1>5, <2>1 DEF Ack
<1>8. \A o \in a.received : \E h \in seen : Saw(h, a.generation, a.largest - o)
  BY <1>1, <1>6 DEF Observing
<1>9. g \in seen /\ Saw(g, a.generation, a.largest) /\ g.at <= a.takenAt
      /\ a.delay = Min({a.takenAt - g.at, MaxAckDelay})
  BY <1>2, <1>3, <1>6 DEF delay
<1>10. Names(a, seen)
  BY <1>6, <1>8, <1>9 DEF Names
<1> QED BY <1>6, <1>7, <1>10 DEF a

\* take leaves the bitmap alone.
LEMMA TakenFacts ==
  ASSUME NEW w, IsWindow(w), NEW seen, Observing(w, seen)
  PROVE  /\ IsWindow(Taken(w)) /\ Observing(Taken(w), seen)
         /\ Taken(w).generation = w.generation
<1>1. /\ Taken(w).generation = w.generation /\ Taken(w).largest = w.largest
      /\ Taken(w).received = w.received /\ Taken(w).largestAt = w.largestAt
      /\ Taken(w).pending = {} /\ Taken(w).pendingSince = None
      /\ Taken(w) \in [generation : Nat, largest : Nat \cup {None},
                       received : SUBSET (0 .. Window - 1), pending : SUBSET (0 .. Window - 1),
                       largestAt : Nat, pendingSince : Nat \cup {None}, force : BOOLEAN]
  BY DEF Taken, IsWindow
<1>2. IsWindow(Taken(w))
  BY <1>1 DEF IsWindow
<1>3. Observing(Taken(w), seen)
  BY <1>1 DEF Observing
<1> QED BY <1>1, <1>2, <1>3

\* An acknowledgement that is due names what the window has observed.
LEMMA TakeIfDueFacts ==
  ASSUME NEW w, IsWindow(w), NEW seen, seen \subseteq Observation, Observing(w, seen),
         \A g \in seen : g.at <= now, now \in Nat, NEW flying, TakeIfDue(w, flying)
  PROVE  /\ IsWindow(window') /\ Observing(window', seen) /\ window'.generation = w.generation
         /\ \A d \in wire' : d \in flying \/ (/\ d \in Ack /\ d.kind = "Ack" /\ d.takenAt <= now
                                              /\ Names(d, seen))
<1>1. CASE Due(w) /\ w.generation = Generation(receiver)
  <2>1. window' = Taken(w) /\ wire' = flying \cup {TransportAck(w)}
    BY <1>1 DEF TakeIfDue
  <2>2. /\ TransportAck(w) \in Ack /\ TransportAck(w).kind = "Ack"
        /\ TransportAck(w).takenAt <= now /\ Names(TransportAck(w), seen)
    BY <1>1, TransportAckFacts
  <2>3. \A d \in wire' : d \in flying \/ d = TransportAck(w)
    BY <2>1
  <2> QED BY <2>1, <2>2, <2>3, TakenFacts
<1>2. CASE ~ (Due(w) /\ w.generation = Generation(receiver))
  BY <1>2 DEF TakeIfDue
<1> QED BY <1>1, <1>2

-----------------------------------------------------------------------------
(* Invariance. *)

\* The session starts with two new structures and nothing on the wire.
LEMMA InitDeliveryInv == Init => DeliveryInv
<1> SUFFICES ASSUME Init PROVE DeliveryInv
  OBVIOUS
<1>1. /\ sender \in Peers /\ hostGeneration = 1 /\ clientGeneration = 1 /\ now = 0 /\ counter = 0
      /\ estimator = NewEstimator(1) /\ window = NewWindow(1)
      /\ wire = {} /\ got = {} /\ retired = {} /\ sample = None /\ failed = None
  BY DEF Init, Handoff!Init
<1>2. Generation(sender) = 1 /\ Generation(receiver) = 1 /\ 1 \in Nat
  BY <1>1 DEF Generation
<1>3. Types
  BY <1>1, <1>2, NewEstimatorFacts, NewWindowFacts, ConstantFacts DEF Types
<1>4. Sending
  <2>1. Sealing(estimator, counter)
    BY <1>1, <1>2, NewEstimatorFacts DEF Sealing
  <2> QED BY <1>1, <2>1 DEF Sending, Packets
<1>5. Unique
  BY <1>1 DEF Unique, Packets
<1>6. Observing(window, got)
  BY <1>1, <1>2, NewWindowFacts DEF Observing
<1>7. Acking
  BY <1>1 DEF Acking, Acks
<1>8. HonestPeerAccepted /\ DeliveredWasObserved /\ RttIsTransit
  BY <1>1 DEF HonestPeerAccepted, DeliveredWasObserved, RttIsTransit
<1> QED BY <1>3, <1>4, <1>5, <1>6, <1>7, <1>8 DEF DeliveryInv

\* Time passes, counters are spent and datagrams disappear.
LEMMA FrameKeeps ==
  ASSUME DeliveryInv, HonestPeerAccepted',
         UNCHANGED <<sender, hostGeneration, clientGeneration, estimator, window,
                     got, retired, sample>>,
         wire' \subseteq wire, now' \in 0 .. MaxTime, now <= now',
         counter' \in 0 .. MaxCounter, counter <= counter'
  PROVE  DeliveryInv'
<1>1. Types /\ Sending /\ Unique /\ Observing(window, got) /\ Acking
  BY DEF DeliveryInv
<1>2. /\ now \in Nat /\ now' \in Nat /\ counter \in Nat /\ counter' \in Nat
      /\ got \subseteq Observation /\ wire \subseteq Packet \cup Ack
  BY <1>1, ConstantFacts DEF Types
<1>3. Types'
  BY <1>1 DEF Types, Generation, receiver
<1>4. Packets' \subseteq Packets /\ Acks' \subseteq Acks
  BY DEF Packets, Acks
<1>5. Sending'
  <2>1. Sealing(estimator, counter')
    <3>1. Sealing(estimator, counter) /\ IsEstimator(estimator)
      BY <1>1 DEF Sending, Types
    <3>2. /\ estimator.highestSent \in Nat \cup {None}
          /\ \A i \in 0 .. Capacity - 1 : estimator.history[i] \in Entry \cup {None}
      BY <3>1 DEF IsEstimator
    <3>3. estimator.highestSent # None => estimator.highestSent < counter'
      BY <1>2, <3>1, <3>2 DEF Sealing
    <3>4. ASSUME NEW i \in 0 .. Capacity - 1, estimator.history[i] # None
          PROVE  estimator.history[i].counter < counter' /\ SlotIndex(estimator.history[i].counter) = i
      <4>1. estimator.history[i].counter \in Nat
        BY <3>2, <3>4 DEF Entry
      <4> QED BY <1>2, <3>1, <3>4, <4>1 DEF Sealing
    <3> QED BY <3>3, <3>4 DEF Sealing
  <2>2. ASSUME NEW p \in Packets'
        PROVE  /\ p.sentAt <= now' /\ p.counter < counter'
               /\ Recorded(estimator, p.slot, p.kind, p.counter, p.sentAt)
    <3>1. p \in Packets /\ p.sentAt \in Nat /\ p.counter \in Nat
      BY <1>2, <1>4 DEF Packets, Packet, Ack
    <3> QED BY <1>1, <1>2, <3>1 DEF Sending
  <2>3. ASSUME NEW g \in got
        PROVE  /\ g.sentAt <= g.at /\ g.at <= now' /\ g.counter < counter'
               /\ Recorded(estimator, g.generation, g.kind, g.counter, g.sentAt)
    <3>1. g.at \in Nat /\ g.counter \in Nat
      BY <1>2 DEF Observation
    <3> QED BY <1>1, <1>2, <3>1 DEF Sending
  <2> QED BY <2>1, <2>2, <2>3 DEF Sending
<1>6. Unique'
  BY <1>1, <1>4 DEF Unique
<1>7. Acking'
  <2>1. ASSUME NEW a \in Acks' PROVE a.takenAt <= now' /\ Names(a, got)
    <3>1. a \in Acks /\ a.takenAt \in Nat
      BY <1>2, <1>4 DEF Acks, Packet, Ack, Kinds
    <3> QED BY <1>1, <1>2, <3>1 DEF Acking
  <2> QED BY <2>1 DEF Acking
<1>8. DeliveredWasObserved' /\ RttIsTransit'
  BY DEF DeliveryInv, DeliveredWasObserved, RttIsTransit
<1> QED BY <1>1, <1>3, <1>5, <1>6, <1>7, <1>8 DEF DeliveryInv

\* Recording packet c forgets no earlier packet.
LEMMA RecordedKeeps ==
  ASSUME NEW est, NEW new, NEW c \in Nat, AfterRecord(est, new, c), est.generation \in Nat,
         NEW generation \in Nat, NEW kind, NEW b \in Nat, b < c, NEW t,
         Recorded(est, generation, kind, b, t)
  PROVE  Recorded(new, generation, kind, b, t)
<1>1. generation <= new.generation
  BY DEF AfterRecord, Recorded
<1>2. new.highestSent # None /\ b <= new.highestSent
  BY ConstantFacts DEF AfterRecord
<1>3. ASSUME NEW i \in 0 .. Capacity - 1, new.history[i] # None, new.history[i].counter = b
      PROVE  new.history[i].sentAt = t
  <2>1. CASE i = SlotIndex(c)
    <3>1. new.history[i].counter = c
      BY <2>1 DEF AfterRecord
    <3> QED BY <1>3, <3>1
  <2>2. CASE i # SlotIndex(c)
    BY <1>3, <2>2 DEF AfterRecord, Recorded
  <2> QED BY <2>1, <2>2
<1> QED BY <1>1, <1>2, <1>3 DEF Recorded

\* The packet that has just been sealed is known to the estimator, and to no
\* other entry of it.
LEMMA SealedIsRecorded ==
  ASSUME NEW est, IsEstimator(est), NEW new, NEW c \in Nat, Sealing(est, c), now \in Nat,
         NEW kind \in Kinds,
         \/ kind = "PathControl" /\ new = est
         \/ AfterRecord(est, new, c)
  PROVE  /\ IsEstimator(new) /\ new.generation = est.generation /\ Sealing(new, c + 1)
         /\ Recorded(new, est.generation, kind, c, now)
<1>1. est.generation \in Nat /\ est.highestSent \in Nat \cup {None} /\ None \notin Nat
  BY ConstantFacts DEF IsEstimator
<1>2. \A i \in 0 .. Capacity - 1 : est.history[i] # None =>
         /\ est.history[i].counter \in Nat /\ est.history[i].counter < c
         /\ SlotIndex(est.history[i].counter) = i
  BY DEF IsEstimator, Entry, Sealing
<1>3. CASE kind = "PathControl" /\ new = est
  <2>1. Sealing(est, c + 1)
    BY <1>1, <1>2 DEF Sealing
  <2>2. Recorded(est, est.generation, kind, c, now)
    BY <1>1, <1>2, <1>3 DEF Recorded
  <2> QED BY <1>3, <2>1, <2>2
<1>4. CASE AfterRecord(est, new, c)
  <2>1. IsEstimator(new) /\ new.generation = est.generation /\ new.highestSent = c
    BY <1>4 DEF AfterRecord
  <2>2. ASSUME NEW i \in 0 .. Capacity - 1, new.history[i] # None
        PROVE  /\ new.history[i].counter \in Nat /\ new.history[i].counter < c + 1
               /\ SlotIndex(new.history[i].counter) = i
               /\ new.history[i].counter = c => new.history[i].sentAt = now
    <3>1. CASE i = SlotIndex(c)
      <4>1. new.history[i] = [generation |-> est.generation, counter |-> c, sentAt |-> now]
        BY <1>4, <3>1 DEF AfterRecord
      <4>2. new.history[i].counter = c /\ new.history[i].sentAt = now
        BY <4>1
      <4> QED BY <3>1, <4>2
    <3>2. CASE i # SlotIndex(c)
      <4>1. new.history[i] = est.history[i]
        BY <1>4, <3>2 DEF AfterRecord
      <4> QED BY <1>2, <2>2, <4>1
    <3> QED BY <3>1, <3>2
  <2>3. Sealing(new, c + 1)
    BY <2>1, <2>2 DEF Sealing
  <2>4. Recorded(new, est.generation, kind, c, now)
    BY <1>1, <2>1, <2>2 DEF Recorded
  <2> QED BY <2>1, <2>3, <2>4
<1> QED BY <1>3, <1>4

\* A packet is sealed and written, and recorded if it is application data.
LEMMA SendKeeps ==
  ASSUME DeliveryInv, NEW kind \in Kinds, counter < MaxCounter, counter' = counter + 1,
         wire' = wire \cup {Sealed(kind)},
         \/ kind = "PathControl" /\ estimator' = estimator
         \/ AfterRecord(estimator, estimator', counter),
         UNCHANGED <<sender, hostGeneration, clientGeneration, window, now, failed,
                     got, retired, sample>>
  PROVE  DeliveryInv'
<1>1. Types /\ Sending /\ Unique /\ Observing(window, got) /\ Acking
  BY DEF DeliveryInv
<1>2. /\ now \in Nat /\ counter \in Nat /\ counter' \in 0 .. MaxCounter
      /\ got \subseteq Observation /\ wire \subseteq Packet \cup Ack
      /\ IsEstimator(estimator) /\ estimator.generation \in Nat
      /\ estimator.generation = Generation(sender)
  BY <1>1, ConstantFacts DEF Types, IsEstimator
<1> DEFINE s == Sealed(kind)
<1>3. /\ s \in Packet /\ s.kind = kind /\ s.slot = estimator.generation
      /\ s.counter = counter /\ s.sentAt = now /\ s.kind # "Ack"
  BY <1>2 DEF Sealed, Packet, Kinds
<1>4. /\ IsEstimator(estimator') /\ estimator'.generation = estimator.generation
      /\ Sealing(estimator', counter')
      /\ Recorded(estimator', estimator.generation, kind, counter, now)
  <2>1. Sealing(estimator, counter)
    BY <1>1 DEF Sending
  <2> QED BY <1>2, <2>1, SealedIsRecorded
<1> HIDE DEF s
<1>5. wire' = wire \cup {s}
  BY DEF s
<1>6. Packets' = Packets \cup {s} /\ Acks' = Acks
  BY <1>3, <1>5 DEF Packets, Acks
<1>7. \A p \in Packets : p.counter \in Nat /\ p.counter < counter /\ p.slot \in Nat /\ p.sentAt <= now
  BY <1>1, <1>2 DEF Packets, Packet, Ack, Sending
<1>8. \A g \in got : /\ g.counter \in Nat /\ g.counter < counter /\ g.generation \in Nat
                     /\ g.sentAt <= g.at /\ g.at <= now
  BY <1>1, <1>2 DEF Observation, Sending
<1>9. Types'
  <2>1. wire' \in SUBSET (Packet \cup Ack)
    BY <1>2, <1>3, <1>5
  <2> QED BY <1>1, <1>2, <1>4, <2>1 DEF Types, Generation, receiver
<1>10. Sending'
  <2>1. ASSUME NEW p \in Packets
        PROVE  Recorded(estimator', p.slot, p.kind, p.counter, p.sentAt)
    <3>1. Recorded(estimator, p.slot, p.kind, p.counter, p.sentAt)
      BY <1>1 DEF Sending
    <3> QED BY <1>2, <1>7, <3>1, RecordedKeeps
  <2>2. ASSUME NEW g \in got
        PROVE  Recorded(estimator', g.generation, g.kind, g.counter, g.sentAt)
    <3>1. Recorded(estimator, g.generation, g.kind, g.counter, g.sentAt)
      BY <1>1 DEF Sending
    <3> QED BY <1>2, <1>8, <3>1, RecordedKeeps
  <2>3. ASSUME NEW p \in Packets'
        PROVE  /\ p.sentAt <= now /\ p.counter < counter'
               /\ Recorded(estimator', p.slot, p.kind, p.counter, p.sentAt)
    <3>1. CASE p \in Packets
      BY <1>2, <1>7, <2>1, <3>1
    <3>2. CASE p = s
      BY <1>2, <1>3, <1>4, <3>2
    <3> QED BY <1>6, <3>1, <3>2
  <2>4. ASSUME NEW g \in got
        PROVE  /\ g.sentAt <= g.at /\ g.at <= now /\ g.counter < counter'
               /\ Recorded(estimator', g.generation, g.kind, g.counter, g.sentAt)
    BY <1>2, <1>8, <2>2
  <2> QED BY <1>4, <2>3, <2>4 DEF Sending
<1>11. Unique'
  <2>1. \A p \in Packets : p.counter # s.counter
    BY <1>2, <1>3, <1>7
  <2>2. \A g \in got : g.counter # s.counter
    BY <1>2, <1>3, <1>8
  <2> QED BY <1>1, <1>6, <2>1, <2>2 DEF Unique
<1>12. Acking'
  BY <1>1, <1>6 DEF Acking
<1>13. HonestPeerAccepted' /\ DeliveredWasObserved' /\ RttIsTransit'
  BY DEF DeliveryInv, HonestPeerAccepted, TracksOnlyApplication, DeliveredWasObserved, RttIsTransit
<1> QED BY <1>1, <1>9, <1>10, <1>11, <1>12, <1>13 DEF DeliveryInv

\* Application data is recorded without an error.
LEMMA SendApplicationKeeps ==
  ASSUME DeliveryInv, failed = None, sender' = sender, SendApplication
  PROVE  DeliveryInv'
<1>1. /\ counter < MaxCounter /\ counter' = counter + 1
      /\ CanRecord(estimator, Generation(sender), counter)
      /\ wire' = wire \cup {Sealed("Application")}
      /\ estimator' = RecordSent(estimator, Generation(sender), counter).estimator
      /\ failed' = RecordSent(estimator, Generation(sender), counter).error
      /\ UNCHANGED <<hostGeneration, clientGeneration, window, now, got, retired, sample>>
  BY DEF SendApplication, handoff
<1>2. IsEstimator(estimator) /\ counter \in Nat /\ now \in Nat /\ Sealing(estimator, counter)
  BY ConstantFacts DEF DeliveryInv, Types, Sending
<1>3. failed' = None /\ AfterRecord(estimator, estimator', counter)
  BY <1>1, <1>2, RecordSentFacts
<1> QED BY <1>1, <1>3, SendKeeps DEF Kinds

\* A path-control record is sealed and not recorded.
LEMMA SendPathControlKeeps ==
  ASSUME DeliveryInv, sender' = sender, SendPathControl
  PROVE  DeliveryInv'
BY SendKeeps DEF SendPathControl, handoff, Kinds

\* A later acknowledgement window has more observations to name.
LEMMA NamesGrow ==
  ASSUME NEW a, NEW seen, NEW more, seen \subseteq more, Names(a, seen)
  PROVE  Names(a, more)
BY DEF Names

\* The receiver observes, and may put an acknowledgement on the wire.
LEMMA ReceiverKeeps ==
  ASSUME DeliveryInv, failed = None, NEW w, IsWindow(w), w.generation = window.generation,
         NEW flying, flying \subseteq wire, got \subseteq got', got' \subseteq Observation,
         Observing(w, got'), TakeIfDue(w, flying),
         \A g \in got' : /\ g.sentAt <= g.at /\ g.at <= now /\ g.counter < counter
                         /\ Recorded(estimator, g.generation, g.kind, g.counter, g.sentAt),
         \A p \in Packets, g \in got' : p \in flying => p.counter # g.counter,
         \A g, h \in got' : g.counter = h.counter => g = h,
         UNCHANGED <<sender, hostGeneration, clientGeneration, now, counter, estimator,
                     failed, retired, sample>>
  PROVE  DeliveryInv'
<1>1. Types /\ Sending /\ Unique /\ Acking
  BY DEF DeliveryInv
<1>2. now \in Nat /\ wire \subseteq Packet \cup Ack
  BY <1>1, ConstantFacts DEF Types
<1>3. /\ IsWindow(window') /\ Observing(window', got') /\ window'.generation = window.generation
      /\ \A d \in wire' : d \in flying \/ (/\ d \in Ack /\ d.kind = "Ack" /\ d.takenAt <= now
                                           /\ Names(d, got'))
  <2> DEFINE seen == got'
  <2>1. seen \subseteq Observation /\ Observing(w, seen) /\ \A g \in seen : g.at <= now
    OBVIOUS
  <2> HIDE DEF seen
  <2>2. /\ IsWindow(window') /\ Observing(window', seen) /\ window'.generation = w.generation
        /\ \A d \in wire' : d \in flying \/ (/\ d \in Ack /\ d.kind = "Ack" /\ d.takenAt <= now
                                             /\ Names(d, seen))
    BY <1>2, <2>1, TakeIfDueFacts
  <2> QED BY <2>2 DEF seen
<1>4. Types'
  <2>1. wire' \in SUBSET (Packet \cup Ack)
    BY <1>2, <1>3
  <2> QED BY <1>1, <1>3, <2>1 DEF Types, Generation, receiver
<1>5. \A p \in Packets' : p \in Packets /\ p \in flying
  BY <1>3 DEF Packets
<1>6. Sending'
  BY <1>1, <1>5 DEF Sending
<1>7. Unique'
  BY <1>1, <1>5 DEF Unique
<1>8. Acking'
  <2>1. ASSUME NEW a \in Acks' PROVE a.takenAt <= now /\ Names(a, got')
    <3>1. CASE a \in flying
      <4>1. a \in Acks
        BY <3>1 DEF Acks
      <4>2. a.takenAt <= now /\ Names(a, got)
        BY <1>1, <4>1 DEF Acking
      <4> QED BY <4>2, NamesGrow
    <3>2. CASE a \notin flying
      BY <1>3, <3>2 DEF Acks
    <3> QED BY <3>1, <3>2
  <2> QED BY <2>1 DEF Acking
<1>9. HonestPeerAccepted' /\ RttIsTransit'
  BY DEF DeliveryInv, HonestPeerAccepted, RttIsTransit
<1>10. DeliveredWasObserved'
  BY DEF DeliveryInv, DeliveredWasObserved
<1> QED BY <1>3, <1>4, <1>6, <1>7, <1>8, <1>9, <1>10 DEF DeliveryInv

\* A datagram of the sender is observed, or filtered out.
LEMMA ReceivePacketKeeps ==
  ASSUME DeliveryInv, failed = None, sender' = sender, NEW packet \in wire, ReceivePacket(packet)
  PROVE  DeliveryInv'
<1>1. /\ packet.kind # "Ack"
      /\ UNCHANGED <<hostGeneration, clientGeneration, now, counter, estimator, failed, retired, sample>>
  BY DEF ReceivePacket, handoff
<1>2. Types /\ Sending /\ Unique /\ Observing(window, got)
  BY DEF DeliveryInv
<1>3. /\ now \in Nat /\ now \in 0 .. MaxTime /\ counter \in 0 .. MaxCounter /\ counter \in Nat
      /\ IsWindow(window) /\ window.generation = Generation(receiver) /\ window.generation \in Nat
      /\ got \subseteq Observation /\ packet \in Packet \cup Ack
  BY <1>2, ConstantFacts DEF Types, IsWindow
<1>4. /\ packet \in Packets /\ packet.counter \in Nat /\ packet.sentAt \in Nat
      /\ packet.kind \in Kinds
  BY <1>1, <1>3 DEF Packets, Packet, Ack
<1>5. CASE Tracked(packet)
  <2> DEFINE g == [generation |-> window.generation, kind |-> packet.kind,
                   counter |-> packet.counter, sentAt |-> packet.sentAt, at |-> now]
             w == Observe(window, packet.counter)
             flying == wire \ {packet}
  <2>1. /\ packet.slot = window.generation /\ TakeIfDue(w, flying) /\ got' = got \cup {g}
    BY <1>3, <1>5 DEF ReceivePacket, Tracked
  <2>2. /\ g \in Observation /\ g.generation = window.generation /\ g.at = now
        /\ g.counter = packet.counter /\ g.sentAt = packet.sentAt /\ g.kind = packet.kind
    BY <1>3, <1>4 DEF Observation
  <2> HIDE DEF g
  <2>3. IsWindow(w) /\ w.generation = window.generation
    BY <1>3, <1>4, ObserveFacts, Zenon
  <2>4. Observing(w, got')
    <3>1. Observing(Observe(window, g.counter), got \cup {g})
      BY <1>2, <1>3, <2>2, ObserveKeeps
    <3> QED BY <2>1, <2>2, <3>1
  <2> HIDE DEF w
  <2>5. ASSUME NEW h \in got'
        PROVE  /\ h.sentAt <= h.at /\ h.at <= now /\ h.counter < counter
               /\ Recorded(estimator, h.generation, h.kind, h.counter, h.sentAt)
    <3>1. CASE h \in got
      BY <1>2, <3>1 DEF Sending
    <3>2. CASE h = g
      <4>1. /\ packet.sentAt <= now /\ packet.counter < counter
            /\ Recorded(estimator, packet.slot, packet.kind, packet.counter, packet.sentAt)
        BY <1>2, <1>4 DEF Sending
      <4> QED BY <1>3, <2>1, <2>2, <3>2, <4>1
    <3> QED BY <2>1, <3>1, <3>2
  <2>6. ASSUME NEW p \in Packets, NEW h \in got', p \in flying PROVE p.counter # h.counter
    <3>1. CASE h \in got
      BY <1>2, <3>1 DEF Unique
    <3>2. CASE h = g
      <4>1. p # packet
        BY <2>6
      <4> QED BY <1>2, <1>4, <2>2, <3>2, <4>1 DEF Unique
    <3> QED BY <2>1, <3>1, <3>2
  <2>7. ASSUME NEW h \in got', NEW k \in got', h.counter = k.counter PROVE h = k
    <3>1. \A x \in got : x.counter # g.counter
      BY <1>2, <1>4, <2>2 DEF Unique
    <3> QED BY <1>2, <2>1, <2>7, <3>1 DEF Unique
  <2>8. flying \subseteq wire /\ got \subseteq got' /\ got' \subseteq Observation
    BY <1>3, <2>1, <2>2
  <2> HIDE DEF flying
  <2> QED BY <1>1, <2>1, <2>3, <2>4, <2>5, <2>6, <2>7, <2>8, ReceiverKeeps
<1>6. CASE ~ Tracked(packet)
  <2>1. wire' = wire \ {packet} /\ window' = window /\ got' = got
    BY <1>6 DEF ReceivePacket
  <2>2. HonestPeerAccepted'
    BY <1>1 DEF HonestPeerAccepted
  <2>3. wire' \subseteq wire /\ now <= now' /\ counter <= counter'
    BY <1>1, <1>3, <2>1
  <2> QED BY <1>1, <1>3, <2>1, <2>2, <2>3, FrameKeeps
<1> QED BY <1>5, <1>6

\* The delay of an acknowledgement runs out.
LEMMA SendDueAckKeeps ==
  ASSUME DeliveryInv, failed = None, sender' = sender, SendDueAck
  PROVE  DeliveryInv'
<1>1. /\ TakeIfDue(window, wire)
      /\ UNCHANGED <<hostGeneration, clientGeneration, now, counter, estimator, failed,
                     got, retired, sample>>
  BY DEF SendDueAck, handoff
<1>2. /\ IsWindow(window) /\ got' \subseteq Observation /\ got \subseteq got'
      /\ Observing(window, got') /\ wire \subseteq wire
  BY <1>1 DEF DeliveryInv, Types
<1>3. \A g \in got' : /\ g.sentAt <= g.at /\ g.at <= now /\ g.counter < counter
                      /\ Recorded(estimator, g.generation, g.kind, g.counter, g.sentAt)
  BY <1>1 DEF DeliveryInv, Sending
<1>4. /\ \A p \in Packets, g \in got' : p \in wire => p.counter # g.counter
      /\ \A g, h \in got' : g.counter = h.counter => g = h
  BY <1>1 DEF DeliveryInv, Unique
<1> QED BY <1>1, <1>2, <1>3, <1>4, ReceiverKeeps

\* What is known of an acknowledgement on the wire, and of the observation of
\* its largest counter.
LEMMA AckFacts ==
  ASSUME DeliveryInv, NEW ack \in wire, ack.kind = "Ack"
  PROVE  /\ ack \in Acks /\ ack \in Ack /\ Names(ack, got) /\ ack.takenAt <= now
         /\ \E g \in got : /\ Saw(g, ack.generation, ack.largest) /\ g.at <= ack.takenAt
                           /\ ack.delay = Min({ack.takenAt - g.at, MaxAckDelay})
<1>1. ack \in Acks
  BY DEF Acks
<1>2. Names(ack, got) /\ ack.takenAt <= now
  BY <1>1 DEF DeliveryInv, Acking
<1>3. ack \in Ack
  BY DEF DeliveryInv, Types, Packet, Ack, Kinds
<1> QED BY <1>1, <1>2, <1>3 DEF Names

\* acknowledge finds no error in an acknowledgement of application packets
\* on the estimator's own generation.
LEMMA AckAccepted ==
  ASSUME DeliveryInv, TracksOnlyApplication, NEW ack \in wire, ack.kind = "Ack",
         ack.generation = estimator.generation
  PROVE  AckError(estimator, ack) = None
<1>1. /\ ack \in Ack /\ Names(ack, got) /\ estimator.generation \in Nat
      /\ estimator.highestSent \in Nat \cup {None}
  BY AckFacts DEF DeliveryInv, Types, IsEstimator
<1>2. PICK g \in got : /\ Saw(g, ack.generation, ack.largest) /\ g.at <= ack.takenAt
                       /\ ack.delay = Min({ack.takenAt - g.at, MaxAckDelay})
  BY AckFacts
<1>3. g \in Observation
  BY DEF DeliveryInv, Types
<1>4. ~ (ack.generation > estimator.generation)
  BY <1>1
<1>5. ~ (ack.delay > MaxAckDelay)
  <2>1. ack.takenAt - g.at \in Int /\ MaxAckDelay \in Int
    BY <1>1, <1>3, ConstantFacts DEF Ack, Observation
  <2> QED BY <1>2, <2>1, MinOfTwo
<1>6. ~ (estimator.highestSent = None \/ ack.largest > estimator.highestSent)
  <2>1. Recorded(estimator, g.generation, g.kind, g.counter, g.sentAt)
    BY DEF DeliveryInv, Sending
  <2>2. g.kind = "Application" /\ g.generation = estimator.generation /\ g.counter = ack.largest
    BY <1>2 DEF TracksOnlyApplication, Saw
  <2>3. estimator.highestSent # None /\ ack.largest <= estimator.highestSent
    BY <2>1, <2>2 DEF Recorded
  <2> QED BY <1>1, <2>3, ConstantFacts DEF Ack
<1>7. ~ (\E o \in ack.received : o > ack.largest)
  <2> SUFFICES ASSUME NEW o \in ack.received PROVE o <= ack.largest
    BY <1>1 DEF Ack
  <2>1. PICK h \in got : Saw(h, ack.generation, ack.largest - o)
    BY <1>1 DEF Names
  <2>2. h.counter \in Nat
    BY DEF DeliveryInv, Types, Observation
  <2>3. ack.largest \in Nat /\ o \in Nat
    BY <1>1 DEF Ack
  <2> QED BY <2>1, <2>2, <2>3 DEF Saw
<1> QED BY <1>4, <1>5, <1>6, <1>7 DEF AckError

\* A retired entry was observed on the generation of the acknowledgement.
LEMMA AckedEntriesFacts ==
  ASSUME DeliveryInv, NEW ack \in wire, ack.kind = "Ack", NEW e \in AckedEntries(estimator, ack)
  PROVE  \E g \in got : g.generation = ack.generation /\ g.counter = e.counter
<1>1. PICK o \in ack.received : e \in EntryOf(estimator, ack.generation, ack.largest - o)
  BY DEF AckedEntries
<1>2. e.counter = ack.largest - o
  BY <1>1 DEF EntryOf
<1>3. \E g \in got : Saw(g, ack.generation, ack.largest - o)
  BY AckFacts DEF Names
<1> QED BY <1>2, <1>3 DEF Saw

\* The sample of an acknowledgement is what its two transits took.
LEMMA SampleFacts ==
  ASSUME DeliveryInv, NEW ack \in wire, ack.kind = "Ack", NEW value \in RttSample(estimator, ack)
  PROVE  Measured(ack, value).value
            = Measured(ack, value).transit + Max({Measured(ack, value).held - MaxAckDelay, 0})
<1>1. ack \in Ack /\ ack.takenAt <= now /\ now \in Nat /\ MaxAckDelay \in Nat
      /\ got \subseteq Observation /\ IsEstimator(estimator) /\ Unique
  BY AckFacts, ConstantFacts DEF DeliveryInv, Types
<1>2. PICK g \in got : /\ Saw(g, ack.generation, ack.largest) /\ g.at <= ack.takenAt
                       /\ ack.delay = Min({ack.takenAt - g.at, MaxAckDelay})
  BY AckFacts
<1>3. PICK e \in EntryOf(estimator, ack.generation, ack.largest) :
         value = Max({(now - e.sentAt) - ack.delay, 0})
  BY DEF RttSample
<1>4. (CHOOSE x \in got : x.generation = ack.generation /\ x.counter = ack.largest) = g
  BY <1>1, <1>2 DEF Unique, Saw
<1>5. e.sentAt = g.sentAt
  <2>1. SlotIndex(ack.largest) \in 0 .. Capacity - 1
    BY <1>1, SlotIndexFacts DEF Ack
  <2>2. e = estimator.history[SlotIndex(ack.largest)] /\ e # None /\ e.counter = ack.largest
    BY <1>3 DEF EntryOf, EntryOfSlot
  <2>3. Recorded(estimator, g.generation, g.kind, g.counter, g.sentAt)
    BY DEF DeliveryInv, Sending
  <2>4. g.counter = ack.largest
    BY <1>2 DEF Saw
  <2> QED BY <2>1, <2>2, <2>3, <2>4 DEF Recorded
<1> DEFINE t == g.sentAt
           a == g.at
           k == ack.takenAt
           m == MaxAckDelay
           transit == (a - t) + (now - k)
           held == k - a
<1>6. /\ t \in Nat /\ a \in Nat /\ k \in Nat /\ m \in Nat /\ now \in Nat
      /\ t <= a /\ a <= k /\ k <= now
  BY <1>1, <1>2 DEF Observation, Ack, DeliveryInv, Sending
<1>7. Measured(ack, value) = [value |-> value, transit |-> transit, held |-> held]
  BY <1>4 DEF Measured
<1>8. value = Max({(now - t) - Min({k - a, m}), 0})
  BY <1>2, <1>3, <1>5
<1> HIDE DEF t, a, k, m
<1>9. value = transit + Max({held - m, 0})
  <2>1. Min({k - a, m}) = IF k - a <= m THEN k - a ELSE m
    BY <1>6, MinOfTwo
  <2> DEFINE d == Min({k - a, m})
  <2>2. d \in Int /\ value = Max({(now - t) - d, 0})
    BY <1>6, <1>8, <2>1
  <2>3. d = IF k - a <= m THEN k - a ELSE m
    BY <2>1
  <2> HIDE DEF d
  <2>4. value = IF (now - t) - d >= 0 THEN (now - t) - d ELSE 0
    BY <1>6, <2>2, MaxOfTwo
  <2>5. Max({held - m, 0}) = IF held - m >= 0 THEN held - m ELSE 0
    BY <1>6, MaxOfTwo
  <2> QED BY <1>6, <2>2, <2>3, <2>4, <2>5
<1> QED BY <1>7, <1>9 DEF m

\* An acknowledgement is applied, ignored or refused.
LEMMA ReceiveAckKeeps ==
  ASSUME DeliveryInv, failed = None, sender' = sender, NEW ack \in wire, ReceiveAck(ack)
  PROVE  DeliveryInv'
<1>1. /\ ack.kind = "Ack" /\ wire' = wire \ {ack}
      /\ UNCHANGED <<hostGeneration, clientGeneration, now, counter, window, got>>
  BY DEF ReceiveAck, handoff
<1>2. /\ Types /\ now \in 0 .. MaxTime /\ counter \in 0 .. MaxCounter /\ now \in Nat /\ counter \in Nat
  BY ConstantFacts DEF DeliveryInv, Types
<1>3. wire' \subseteq wire /\ now <= now' /\ counter <= counter'
  BY <1>1, <1>2
<1>4. CASE UNCHANGED <<estimator, failed, retired, sample>>
  <2>1. HonestPeerAccepted'
    BY <1>4 DEF HonestPeerAccepted
  <2> QED BY <1>1, <1>2, <1>3, <1>4, <2>1, FrameKeeps
<1> DEFINE ours == ack.slot = Generation(sender) /\ ack.generation >= estimator.generation
<1>5. ours => ack.generation = estimator.generation
  <2>1. ack.slot = ack.generation
    BY <1>1, AckFacts DEF Names
  <2> QED BY <1>2, <2>1 DEF Types
<1>6. CASE ours /\ AckError(estimator, ack) # None /\ UNCHANGED <<estimator, retired, sample>>
  <2>1. ~ TracksOnlyApplication
    BY <1>1, <1>5, <1>6, AckAccepted
  <2>2. HonestPeerAccepted'
    BY <1>1, <2>1 DEF HonestPeerAccepted, TracksOnlyApplication
  <2> QED BY <1>1, <1>2, <1>3, <1>6, <2>2, FrameKeeps
<1>7. CASE ours /\ Acknowledge(ack) /\ failed' = failed
  <2> DEFINE entries == AckedEntries(estimator, ack)
  <2>1. /\ estimator' = Retire(estimator, entries)
        /\ retired' = retired \cup {[generation |-> ack.generation, counter |-> e.counter] :
                                      e \in entries}
        /\ \/ sample' = sample
           \/ \E value \in RttSample(estimator, ack) : sample' = Measured(ack, value)
    BY <1>7 DEF Acknowledge
  <2>2. Sending /\ Unique /\ Observing(window, got) /\ Acking /\ DeliveredWasObserved /\ RttIsTransit
        /\ IsEstimator(estimator)
    BY <1>2 DEF DeliveryInv, Types
  <2>3. /\ IsEstimator(estimator') /\ estimator'.generation = estimator.generation
        /\ estimator'.highestSent = estimator.highestSent
        /\ \A i \in 0 .. Capacity - 1 : estimator'.history[i] \in {None, estimator.history[i]}
    BY <2>1, <2>2, RetireFacts
  <2>4. \A e \in entries : \E g \in got : g.generation = ack.generation /\ g.counter = e.counter
    BY <1>1, AckedEntriesFacts
  <2> HIDE DEF entries
  <2>5. Types'
    <3>1. wire' \in SUBSET (Packet \cup Ack)
      BY <1>1, <1>2 DEF Types
    <3> QED BY <1>1, <1>2, <2>3, <3>1 DEF Types, Generation, receiver
  <2>6. Packets' \subseteq Packets /\ Acks' \subseteq Acks
    BY <1>1 DEF Packets, Acks
  <2>7. Sending'
    <3>1. \A generation, kind, c, t :
             Recorded(estimator, generation, kind, c, t) => Recorded(estimator', generation, kind, c, t)
      BY <2>3 DEF Recorded
    <3>2. Sealing(estimator', counter)
      BY <2>2, <2>3 DEF Sending, Sealing
    <3> QED BY <1>1, <2>2, <2>6, <3>1, <3>2 DEF Sending
  <2>8. Unique'
    BY <1>1, <2>2, <2>6 DEF Unique
  <2>9. Acking'
    BY <1>1, <2>2, <2>6 DEF Acking
  <2>10. HonestPeerAccepted'
    BY <1>7 DEF HonestPeerAccepted
  <2>11. DeliveredWasObserved'
    BY <1>1, <2>1, <2>2, <2>4 DEF DeliveredWasObserved
  <2>12. RttIsTransit'
    <3>1. CASE sample' = sample
      BY <2>2, <3>1 DEF RttIsTransit
    <3>2. ASSUME NEW value \in RttSample(estimator, ack), sample' = Measured(ack, value)
          PROVE  RttIsTransit'
      BY <1>1, <3>2, SampleFacts DEF RttIsTransit
    <3> QED BY <2>1, <3>1, <3>2
  <2> QED BY <1>1, <2>2, <2>5, <2>7, <2>8, <2>9, <2>10, <2>11, <2>12 DEF DeliveryInv
<1> QED BY <1>4, <1>6, <1>7 DEF ReceiveAck

\* A peer activates its next generation and replaces its structure.
LEMMA ActivateKeeps ==
  ASSUME DeliveryInv, failed = None, sender' = sender, NEW p \in Peers, Activate(p)
  PROVE  DeliveryInv'
<1>1. UNCHANGED <<now, counter, wire, failed, got, retired, sample>>
  BY DEF Activate
<1>2. Types /\ Sending /\ Unique /\ Observing(window, got) /\ Acking
  BY DEF DeliveryInv
<1>3. /\ receiver \in Peers /\ receiver # sender /\ receiver' = receiver
      /\ hostGeneration \in Nat /\ clientGeneration \in Nat
      /\ got \subseteq Observation /\ wire \subseteq Packet \cup Ack
  BY <1>2, ReceiverFacts DEF Types, receiver
<1>4. /\ hostGeneration' \in Nat /\ clientGeneration' \in Nat
      /\ Generation(p)' = Generation(p) + 1 /\ Generation(p) \in Nat /\ Generation(p)' \in Nat
      /\ \A q \in Peers : q # p => Generation(q)' = Generation(q)
  BY <1>3 DEF Activate, Handoff!HostFollows, Handoff!ClientMoves, Generation, Peers
<1>5. Packets' = Packets /\ Acks' = Acks
  BY <1>1 DEF Packets, Acks
<1>6. HonestPeerAccepted' /\ DeliveredWasObserved' /\ RttIsTransit' /\ Acking' /\ Unique'
  BY <1>1, <1>2, <1>5 DEF DeliveryInv, HonestPeerAccepted, DeliveredWasObserved, RttIsTransit,
                          Acking, Unique
<1>7. CASE p = sender
  <2>1. estimator' = NewEstimator(Generation(p)') /\ window' = window
    BY <1>7 DEF Activate
  <2>2. /\ IsEstimator(estimator') /\ estimator'.generation = Generation(p)'
        /\ estimator'.highestSent = None
        /\ \A i \in 0 .. Capacity - 1 : estimator'.history[i] = None
    BY <1>4, <2>1, NewEstimatorFacts
  <2>3. Types'
    <3>1. Generation(receiver)' = Generation(receiver)
      <4>1. Generation(receiver) = (IF receiver = "Host" THEN hostGeneration ELSE clientGeneration)
            /\ Generation(receiver)' = IF receiver = "Host" THEN hostGeneration' ELSE clientGeneration'
        BY <1>3 DEF Generation
      <4>2. p = "Host" => clientGeneration' = clientGeneration
        BY DEF Activate, Handoff!HostFollows
      <4>3. p # "Host" => hostGeneration' = hostGeneration
        BY DEF Activate, Handoff!ClientMoves
      <4> QED BY <1>3, <1>7, <4>1, <4>2, <4>3 DEF Peers
    <3>2. Generation(sender)' = Generation(p)'
      BY <1>7 DEF Generation
    <3> QED BY <1>1, <1>2, <1>4, <2>1, <2>2, <3>1, <3>2 DEF Types
  <2>4. ASSUME NEW generation \in Nat, NEW kind, NEW c, NEW t,
               Recorded(estimator, generation, kind, c, t)
        PROVE  Recorded(estimator', generation, kind, c, t)
    <3>1. estimator.generation = Generation(p)
      BY <1>2, <1>7 DEF Types
    <3>2. generation < estimator'.generation
      BY <1>4, <2>2, <2>4, <3>1 DEF Recorded
    <3>3. generation <= estimator'.generation /\ generation # estimator'.generation
      BY <1>4, <2>2, <3>2
    <3> QED BY <2>2, <3>3 DEF Recorded
  <2>5. Sealing(estimator', counter)
    BY <2>2 DEF Sealing
  <2>6. \A d \in Packets : d.slot \in Nat
    BY <1>3 DEF Packets, Packet, Ack
  <2>7. \A g \in got : g.generation \in Nat
    BY <1>3 DEF Observation
  <2>8. Sending'
    BY <1>1, <1>2, <1>5, <2>4, <2>5, <2>6, <2>7 DEF Sending
  <2> QED BY <1>1, <1>2, <1>6, <2>1, <2>3, <2>8 DEF DeliveryInv
<1>8. CASE p # sender
  <2>1. estimator' = estimator /\ window' = NewWindow(Generation(p)')
    BY <1>8 DEF Activate
  <2>2. IsWindow(window') /\ window'.generation = Generation(p)' /\ window'.largest = None
    BY <1>4, <2>1, NewWindowFacts
  <2>3. p = receiver
    BY <1>2, <1>8, ReceiverFacts DEF Types
  <2>4. Types'
    <3>1. Generation(sender)' = Generation(sender)
      <4>1. Generation(sender) = (IF sender = "Host" THEN hostGeneration ELSE clientGeneration)
            /\ Generation(sender)' = IF sender = "Host" THEN hostGeneration' ELSE clientGeneration'
        BY DEF Generation
      <4>2. p = "Host" => clientGeneration' = clientGeneration
        BY DEF Activate, Handoff!HostFollows
      <4>3. p # "Host" => hostGeneration' = hostGeneration
        BY DEF Activate, Handoff!ClientMoves
      <4> QED BY <1>2, <1>8, <4>1, <4>2, <4>3 DEF Peers, Types
    <3>2. Generation(receiver)' = Generation(p)'
      BY <1>3, <2>3 DEF Generation
    <3> QED BY <1>1, <1>2, <1>4, <2>1, <2>2, <3>1, <3>2 DEF Types
  <2>5. Observing(window', got)
    <3>1. window.generation = Generation(p)
      BY <1>2, <2>3 DEF Types
    <3>2. \A g \in got : g.generation \in Nat /\ g.generation <= window.generation
      BY <1>2, <1>3 DEF Observing, Observation
    <3>3. \A g \in got : g.generation <= window'.generation /\ g.generation # window'.generation
      BY <1>4, <2>2, <3>1, <3>2
    <3> QED BY <2>2, <3>3 DEF Observing
  <2>6. Sending'
    BY <1>1, <1>2, <1>5, <2>1 DEF Sending
  <2> QED BY <1>1, <1>6, <2>4, <2>5, <2>6 DEF DeliveryInv
<1> QED BY <1>7, <1>8

\* Every step keeps the invariant.
LEMMA NextDeliveryInv == DeliveryInv /\ [Next]_vars => DeliveryInv'
<1> SUFFICES ASSUME DeliveryInv, [Next]_vars PROVE DeliveryInv'
  OBVIOUS
<1>1. now \in 0 .. MaxTime /\ counter \in 0 .. MaxCounter /\ now \in Nat /\ counter \in Nat
      /\ MaxTime \in Nat /\ MaxCounter \in Nat
  BY ConstantFacts DEF DeliveryInv, Types
<1>2. ASSUME UNCHANGED <<sender, hostGeneration, clientGeneration, estimator, window, failed,
                         got, retired, sample>>,
             wire' \subseteq wire,
             now' \in {now, now + 1}, now' <= MaxTime, counter' \in {counter, counter + 1},
             counter' <= MaxCounter
      PROVE  DeliveryInv'
  <2>1. HonestPeerAccepted'
    BY <1>2 DEF DeliveryInv, HonestPeerAccepted, TracksOnlyApplication
  <2>2. /\ now' \in 0 .. MaxTime /\ now <= now'
        /\ counter' \in 0 .. MaxCounter /\ counter <= counter'
    BY <1>1, <1>2
  <2> QED BY <1>2, <2>1, <2>2, FrameKeeps
<1>3. CASE Next
  <2>1. failed = None /\ sender' = sender
    BY <1>3 DEF Next
  <2>2. CASE SendApplication
    BY <2>1, <2>2, SendApplicationKeeps
  <2>3. CASE SealUntracked
    BY <1>1, <1>2, <2>1, <2>3 DEF SealUntracked, handoff
  <2>4. CASE SendPathControl
    BY <2>1, <2>4, SendPathControlKeeps
  <2>5. CASE SendDueAck
    BY <2>1, <2>5, SendDueAckKeeps
  <2>6. CASE HostDecides
    BY <1>1, <1>2, <2>1, <2>6 DEF HostDecides, Handoff!Silence, Handoff!GiveUp
  <2>7. CASE Enable
    BY <1>1, <1>2, <2>1, <2>7 DEF Enable, handoff
  <2>8. CASE Tick
    BY <1>1, <1>2, <2>1, <2>8 DEF Tick, handoff
  <2>9. ASSUME NEW p \in Peers, Activate(p) PROVE DeliveryInv'
    BY <2>1, <2>9, ActivateKeeps
  <2>10. ASSUME NEW packet \in wire, ReceivePacket(packet) PROVE DeliveryInv'
    BY <2>1, <2>10, ReceivePacketKeeps
  <2>11. ASSUME NEW packet \in wire, ReceiveAck(packet) PROVE DeliveryInv'
    BY <2>1, <2>11, ReceiveAckKeeps
  <2>12. ASSUME NEW packet \in wire, Lose(packet) PROVE DeliveryInv'
    BY <1>1, <1>2, <2>1, <2>12 DEF Lose, handoff
  <2> QED BY <1>3, <2>2, <2>3, <2>4, <2>5, <2>6, <2>7, <2>8, <2>9, <2>10, <2>11, <2>12 DEF Next
<1>4. CASE UNCHANGED vars
  BY <1>1, <1>2, <1>4 DEF vars, handoff
<1> QED BY <1>3, <1>4

-----------------------------------------------------------------------------
(* Theorems. *)

\* The invariant the theorems below follow from.
THEOREM DeliveryInvariance == Spec => []DeliveryInv
<1> QED BY InitDeliveryInv, NextDeliveryInv, PTL DEF Spec

\* Ring and window keep their shape, and each belongs to its peer's generation.
THEOREM TypeOKHolds == Spec => []TypeOK
<1>1. DeliveryInv => TypeOK
  <2> SUFFICES ASSUME DeliveryInv PROVE TypeOK
    OBVIOUS
  <2>1. Types /\ Sealing(estimator, counter) /\ IsWindow(window) /\ IsEstimator(estimator)
    BY DEF DeliveryInv, Types, Sending
  <2>2. \A i \in DOMAIN estimator.history : estimator.history[i] # None =>
           SlotIndex(estimator.history[i].counter) = i
    BY <2>1 DEF IsEstimator, Sealing
  <2>3. /\ window.received \subseteq 0 .. Window - 1 /\ window.pending \subseteq window.received
        /\ window.pending # {} <=> window.pendingSince # None
    BY <2>1 DEF IsWindow
  <2> QED BY <2>1, <2>2, <2>3 DEF TypeOK, Types
<1> QED BY <1>1, DeliveryInvariance, PTL

\* As long as the receiver tracks application packets only, neither
\* record_sent nor acknowledge ever reports an error.
THEOREM HonestPeerAcceptedHolds == Spec => []HonestPeerAccepted
<1>1. DeliveryInv => HonestPeerAccepted
  BY DEF DeliveryInv
<1> QED BY <1>1, DeliveryInvariance, PTL

\* No packet is credited that the receiver has not observed on its generation.
THEOREM DeliveredWasObservedHolds == Spec => []DeliveredWasObserved
<1>1. DeliveryInv => DeliveredWasObserved
  BY DEF DeliveryInv
<1> QED BY <1>1, DeliveryInvariance, PTL

\* The bitmap is the set of observed counters, whatever the shifts and gaps.
THEOREM WindowIsExactHolds == Spec => []WindowIsExact
<1>1. DeliveryInv => WindowIsExact
  <2> SUFFICES ASSUME DeliveryInv PROVE WindowIsExact
    OBVIOUS
  <2> DEFINE observed == {g.counter : g \in {x \in got : x.generation = window.generation}}
             l == window.largest
  <2>1. /\ Observing(window, got) /\ got \subseteq Observation
        /\ window.largest \in Nat \cup {None} /\ window.received \subseteq 0 .. Window - 1
        /\ Window \in Nat
    BY ConstantFacts DEF DeliveryInv, Types, IsWindow
  <2>2. \A c \in observed : \E g \in got : g.generation = window.generation /\ g.counter = c
    OBVIOUS
  <2>3. \A g \in got : g.generation = window.generation => g.counter \in observed
    OBVIOUS
  <2>4. observed \subseteq Nat
    BY <2>1 DEF Observation
  <2> HIDE DEF observed
  <2>5. ASSUME l = None PROVE observed = {}
    BY <2>1, <2>2, <2>5 DEF Observing
  <2>6. ASSUME l # None
        PROVE  l = Max(observed)
               /\ {l - o : o \in window.received} = {c \in observed : c > l - Window}
    <3>1. l \in Nat
      BY <2>1, <2>6
    <3>2. \A c \in observed : c <= l /\ (c > l - Window => l - c \in window.received)
      BY <2>1, <2>2 DEF Observing
    <3>3. l \in observed
      BY <2>1, <2>3, <2>6 DEF Observing, Saw
    <3>4. \A o \in window.received : l - o \in observed
      BY <2>1, <2>3, <2>6 DEF Observing, Saw
    <3>5. l = Max(observed)
      <4>1. \A c \in observed : l >= c
        BY <2>4, <3>1, <3>2
      <4>2. \A x \in observed : (\A y \in observed : x >= y) => x = l
        BY <2>4, <3>1, <3>2, <3>3
      <4> QED BY <3>3, <4>1, <4>2 DEF Max
    <3>6. \A o \in window.received : l - o > l - Window
      BY <2>1, <3>1
    <3>7. \A c \in observed : c > l - Window => \E o \in window.received : c = l - o
      <4>1. \A c \in observed : c = l - (l - c)
        BY <2>4, <3>1
      <4> QED BY <3>2, <4>1
    <3> QED BY <3>4, <3>5, <3>6, <3>7
  <2> QED BY <2>5, <2>6 DEF WindowIsExact, observed
<1> QED BY <1>1, DeliveryInvariance, PTL

\* A round-trip sample is the time on the network, up to the holding time
\* that does not fit the wire format.
THEOREM RttIsTransitHolds == Spec => []RttIsTransit
<1>1. DeliveryInv => RttIsTransit
  BY DEF DeliveryInv
<1> QED BY <1>1, DeliveryInvariance, PTL

=============================================================================
