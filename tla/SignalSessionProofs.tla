------------------------- MODULE SignalSessionProofs -------------------------
(***************************************************************************)
(* Proofs about SignalSession, for every set of guests, every number of    *)
(* reconnects and every pending queue.  Each operation on the session is   *)
(* first described by a lemma of its own, in terms of the fields it leaves *)
(* alone and of those it changes; the invariance proof uses only those.    *)
(***************************************************************************)
EXTENDS SignalSession, SequenceTheorems, WellFoundedInduction, TLAPS

SessionType ==
  [sender : [Principals -> Nat \cup {None}],
   generation : [Principals -> Nat],
   told : [Principals -> SUBSET Nat],
   closed : SUBSET Principals,
   establishment : Nat,
   ready : ReadyPair \cup {None},
   pending : [Primaries -> 0 .. MaxPending],
   relay : [Primaries -> RelaySlot \cup {None}],
   guests : Seq(Guests),
   active : SUBSET Guests]

\* The types of the session and of the tasks.
TaskTypes ==
  /\ task = [p \in Principals |-> task[p]]
  /\ \A p \in Principals : task[p] \in [Sockets(p) -> {None, "running", "leaving", "over"}]

Types == live \in BOOLEAN /\ session \in SessionType /\ TaskTypes

\* A published connection is the latest of its principal, and a guest's is
\* that of a guest still admitted.
SendersCurrent(s) ==
  /\ \A p \in Principals : s.sender[p] # None => s.sender[p] = s.generation[p] /\ s.sender[p] > 0
  /\ \A p \in Guests : s.sender[p] # None => p \in Admitted(s)

\* A ready pair is the published one.
ReadyIsPublished(s) ==
  s.ready # None => \A r \in Primaries : s.sender[r] = s.ready[r]

\* A published primary is in the epoch of the ready pair and in no other.
ToldIsReady(s) ==
  \A r \in Primaries :
    s.sender[r] # None => s.told[r] = IF s.ready = None THEN {} ELSE {s.ready.establishment}

\* One guest at most is bridged.
OneBridged(s) == \A g, h \in s.active : g = h

\* Every relay slot belongs to a current connection.
RelaysCurrent(s) ==
  \A r \in Primaries :
    s.relay[r] # None => TicketIsCurrent(s, s.relay[r].owner, s.relay[r].generation)

\* What holds of the session between two critical sections.
SessionInv(s) ==
  /\ SendersCurrent(s)
  /\ ReadyIsPublished(s)
  /\ ToldIsReady(s)
  /\ OneBridged(s)
  /\ s.active # {} => s.sender["client"] = None
  /\ RelaysCurrent(s)

\* A principal has no more connections than its bound, and what it has
\* published has a task.
PlaceServed(p) ==
  /\ session.generation[p] <= MaxSockets[p]
  /\ live => \A n \in Sockets(p) :
       /\ session.sender[p] = n => task[p][n] \in {"running", "leaving"}
       /\ n = session.generation[p] /\ task[p][n] = "running" /\ p \notin session.closed =>
             session.sender[p] = n

TasksInv == \A p \in Principals : PlaceServed(p)

SignalInv == Types /\ SessionInv(session) /\ TasksInv

-----------------------------------------------------------------------------
(* The operations on the session. *)

\* What neither a readiness, a reset nor the end of the pair touches.
SameAdmissions(s, t) ==
  /\ t.generation = s.generation
  /\ t.guests = s.guests
  /\ t.active = s.active

\* The pair of s is left as it was, or closed on both sides.
PairKept(s, t) ==
  /\ t.sender = s.sender
  /\ t.closed = s.closed
  /\ t.relay = s.relay

PairClosed(s, t) ==
  /\ t.sender = [p \in Principals |-> IF p \in Primaries THEN None ELSE s.sender[p]]
  /\ t.closed = s.closed \cup Primaries
  /\ \A r \in Primaries : \/ t.relay[r] = None
                          \/ t.relay[r] = s.relay[r] /\ s.relay[r].owner \notin Primaries

\* The two roles are opposites, and no principal or generation is None.
LEMMA PrimaryFacts ==
  /\ Primaries \subseteq Principals
  /\ Guests \subseteq Principals
  /\ "host" \in Primaries /\ "client" \in Primaries
  /\ "host" \notin Guests /\ "client" \notin Guests
  /\ \A r \in Primaries :
        /\ Opposite(r) \in Primaries
        /\ Opposite(r) # r
        /\ \A q \in Primaries : q = r \/ q = Opposite(r)
  /\ \A p \in Principals : RelayRole(p) \in Primaries
  /\ \A p \in Principals : p # None
  /\ \A n \in Nat : n # None
BY SignalAssumption DEF Primaries, Principals, Opposite, RelayRole

\* clear_relay_owner empties the slots of p and touches nothing else.
LEMMA ClearRelayOwnerFacts ==
  ASSUME NEW s \in SessionType, NEW p \in Principals, NEW t, t = ClearRelayOwner(s, p)
  PROVE  /\ t \in SessionType
         /\ t.sender = s.sender /\ t.generation = s.generation /\ t.told = s.told
         /\ t.closed = s.closed /\ t.establishment = s.establishment /\ t.ready = s.ready
         /\ t.pending = s.pending /\ t.guests = s.guests /\ t.active = s.active
         /\ \A r \in Primaries :
               \/ t.relay[r] = None
               \/ t.relay[r] = s.relay[r] /\ s.relay[r].owner # p
BY DEF ClearRelayOwner, SessionType

\* close_primary_pair ends both connections, their slots and the readiness.
LEMMA ClosePrimaryPairFacts ==
  ASSUME NEW s \in SessionType, NEW t, t = ClosePrimaryPair(s)
  PROVE  /\ t \in SessionType
         /\ SameAdmissions(s, t)
         /\ PairClosed(s, t)
         /\ t.ready = None /\ t.told = s.told /\ t.pending = s.pending
<1> DEFINE h == ClearRelayOwner(s, "host")
           c == ClearRelayOwner(h, "client")
<1>1. /\ h \in SessionType /\ c \in SessionType
      /\ c.sender = s.sender /\ c.generation = s.generation /\ c.told = s.told
      /\ c.closed = s.closed /\ c.establishment = s.establishment /\ c.pending = s.pending
      /\ c.guests = s.guests /\ c.active = s.active
      /\ \A r \in Primaries : \/ c.relay[r] = None
                              \/ c.relay[r] = s.relay[r] /\ s.relay[r].owner \notin Primaries
  <2>1. h \in SessionType /\ c \in SessionType
    BY ClearRelayOwnerFacts, PrimaryFacts
  <2>2. \A r \in Primaries : h.relay[r] = None \/ (h.relay[r] = s.relay[r] /\ s.relay[r].owner # "host")
    BY ClearRelayOwnerFacts, PrimaryFacts
  <2>3. \A r \in Primaries : c.relay[r] = None \/ (c.relay[r] = h.relay[r] /\ h.relay[r].owner # "client")
    BY <2>1, ClearRelayOwnerFacts, PrimaryFacts
  <2>4. \A r \in Primaries : \/ c.relay[r] = None
                             \/ c.relay[r] = s.relay[r] /\ s.relay[r].owner \notin Primaries
    <3> HIDE DEF h, c
    <3> SUFFICES ASSUME NEW r \in Primaries, c.relay[r] # None
                 PROVE  c.relay[r] = s.relay[r] /\ s.relay[r].owner \notin Primaries
      OBVIOUS
    <3>1. c.relay[r] = h.relay[r] /\ h.relay[r].owner # "client"
      BY <2>3
    <3>2. h.relay[r] = s.relay[r] /\ s.relay[r].owner # "host"
      BY <3>1, <2>2
    <3> QED BY <3>1, <3>2, Zenon DEF Primaries
  <2>5. /\ h.sender = s.sender /\ h.generation = s.generation /\ h.told = s.told
        /\ h.closed = s.closed /\ h.establishment = s.establishment /\ h.pending = s.pending
        /\ h.guests = s.guests /\ h.active = s.active
    BY ClearRelayOwnerFacts, PrimaryFacts
  <2>6. /\ c.sender = h.sender /\ c.generation = h.generation /\ c.told = h.told
        /\ c.closed = h.closed /\ c.establishment = h.establishment /\ c.pending = h.pending
        /\ c.guests = h.guests /\ c.active = h.active
    BY <2>1, ClearRelayOwnerFacts, PrimaryFacts
  <2> QED BY <2>1, <2>4, <2>5, <2>6
<1>2. t = [c EXCEPT
             !.sender = [p \in Principals |-> IF p \in Primaries THEN None ELSE @[p]],
             !.closed = @ \cup Primaries,
             !.ready = None]
  BY DEF ClosePrimaryPair
<1> HIDE DEF h, c
<1>3. t \in SessionType
  <2> DEFINE sender == [p \in Principals |-> IF p \in Primaries THEN None ELSE c.sender[p]]
             closed == c.closed \cup Primaries
  <2>1. sender \in [Principals -> Nat \cup {None}]
    BY <1>1 DEF SessionType
  <2>2. closed \in SUBSET Principals
    BY <1>1, PrimaryFacts DEF SessionType
  <2>3. t = [c EXCEPT !.sender = sender, !.closed = closed, !.ready = None]
    BY <1>2
  <2> HIDE DEF sender, closed
  <2> DEFINE x == [c EXCEPT !.sender = sender]
             y == [x EXCEPT !.closed = closed]
  <2>4. x \in SessionType
    BY <1>1, <2>1 DEF SessionType
  <2> HIDE DEF x
  <2>5. y \in SessionType
    BY <2>2, <2>4 DEF SessionType
  <2>6. t = [y EXCEPT !.ready = None]
    BY <1>1, <2>3 DEF x, SessionType
  <2> HIDE DEF y
  <2> QED BY <2>5, <2>6 DEF SessionType
<1>4. t.relay = c.relay /\ t.generation = c.generation /\ t.guests = c.guests /\ t.active = c.active
  BY <1>1, <1>2 DEF SessionType
<1>5. /\ t.sender = [p \in Principals |-> IF p \in Primaries THEN None ELSE s.sender[p]]
      /\ t.closed = s.closed \cup Primaries
      /\ t.ready = None /\ t.told = s.told /\ t.pending = s.pending
  BY <1>1, <1>2 DEF SessionType
<1> QED BY <1>1, <1>3, <1>4, <1>5 DEF SameAdmissions, PairClosed

\* The survivor q is out of the epoch of s.
IsReset(s, q, t) ==
  \A r \in Primaries :
    t.told[r] = IF r = q /\ s.ready # None /\ s.sender[q] # None
                THEN s.told[r] \ {s.ready.establishment} ELSE s.told[r]

\* invalidate_ready_epoch: the survivor is out of the epoch, or both are closed.
LEMMA InvalidateReadyFacts ==
  ASSUME NEW s \in SessionType, NEW q \in Primaries \cup {None}, NEW takes \in BOOLEAN,
         NEW t, t = InvalidateReady(s, q, takes)
  PROVE  /\ t \in SessionType
         /\ SameAdmissions(s, t)
         /\ t.ready = None
         /\ t.pending = s.pending
         /\ PairKept(s, t) \/ PairClosed(s, t)
         /\ ~ (q # None /\ ResetRefused(s, q, takes)) => PairKept(s, t)
         /\ PairKept(s, t) => IsReset(s, q, t)
         /\ q # None /\ ResetRefused(s, q, takes) => PairClosed(s, t)
<1> DEFINE next == [s EXCEPT !.ready = None]
<1>1. /\ next \in SessionType /\ next.ready = None /\ next.told = s.told
      /\ next.pending = s.pending
      /\ SameAdmissions(s, next) /\ PairKept(s, next)
  BY DEF SessionType, SameAdmissions, PairKept
<1>2. CASE s.ready = None \/ q = None \/ s.sender[q] = None
  <2>1. t = next
    BY <1>2 DEF InvalidateReady
  <2>2. ~ (q # None /\ ResetRefused(s, q, takes))
    BY <1>2 DEF ResetRefused
  <2> HIDE DEF next
  <2>3. IsReset(s, q, t)
    BY <1>1, <1>2, <2>1, PrimaryFacts DEF IsReset
  <2> QED BY <1>1, <2>1, <2>2, <2>3
<1>3. CASE s.ready # None /\ q # None /\ s.sender[q] # None /\ takes
  <2>1. t = [next EXCEPT !.told[q] = @ \ {s.ready.establishment}]
    BY <1>3 DEF InvalidateReady
  <2>2. s.ready.establishment \in Nat /\ q \in Principals
    BY <1>3, PrimaryFacts DEF SessionType, ReadyPair
  <2>3. ~ ResetRefused(s, q, takes)
    BY <1>3 DEF ResetRefused
  <2> HIDE DEF next
  <2> DEFINE told == [next.told EXCEPT ![q] = @ \ {s.ready.establishment}]
  <2>7. t = [next EXCEPT !.told = told]
    BY <2>1
  <2>8. told \in [Principals -> SUBSET Nat]
    BY <1>1, <2>2 DEF SessionType
  <2>9. \A r \in Primaries :
           told[r] = IF r = q THEN s.told[r] \ {s.ready.establishment} ELSE s.told[r]
    BY <1>1, <2>2, PrimaryFacts DEF SessionType
  <2> HIDE DEF told
  <2>4. t \in SessionType
    BY <1>1, <2>7, <2>8 DEF SessionType
  <2>5. /\ t.ready = None /\ t.pending = s.pending
        /\ SameAdmissions(s, t) /\ PairKept(s, t)
    BY <1>1, <2>7 DEF SessionType, SameAdmissions, PairKept
  <2>6. t.told = told
    BY <1>1, <2>7 DEF SessionType
  <2>10. IsReset(s, q, t)
    BY <1>3, <2>6, <2>9 DEF IsReset
  <2> QED BY <2>3, <2>4, <2>5, <2>10
<1>4. CASE s.ready # None /\ q # None /\ s.sender[q] # None /\ ~takes
  <2>1. t = ClosePrimaryPair(next)
    BY <1>4 DEF InvalidateReady
  <2>2. PairClosed(next, t) /\ SameAdmissions(next, t)
    BY <1>1, <2>1, ClosePrimaryPairFacts
  <2>3. t \in SessionType /\ t.ready = None /\ t.pending = next.pending
    BY <1>1, <2>1, ClosePrimaryPairFacts
  <2>4. PairClosed(s, t) /\ SameAdmissions(s, t)
    BY <1>1, <2>2 DEF PairClosed, SameAdmissions, PairKept
  <2>5. t.sender[q] = None
    BY <1>4, <2>4, PrimaryFacts DEF PairClosed
  <2>6. ~ PairKept(s, t)
    BY <1>4, <2>5 DEF PairKept
  <2>7. ResetRefused(s, q, takes)
    BY <1>4 DEF ResetRefused
  <2> QED BY <1>1, <1>4, <2>3, <2>4, <2>6, <2>7
<1> QED BY <1>2, <1>3, <1>4

\* A session whose primaries are in no epoch.
Unready(s) ==
  s.ready = None /\ \A r \in Primaries : s.sender[r] # None => s.told[r] = {}

\* publish_ready: both are in the new epoch and in no other, or both are closed.
LEMMA PublishReadyFacts ==
  ASSUME NEW s \in SessionType, NEW a \in BOOLEAN, NEW b \in BOOLEAN, Unready(s),
         \A r \in Primaries : s.sender[r] # None /\ s.sender[r] = s.generation[r],
         NEW t, t = PublishReady(s, a, b)
  PROVE  /\ t \in SessionType
         /\ SameAdmissions(s, t)
         /\ ReadyIsPublished(t)
         /\ ToldIsReady(t)
         /\ PairKept(s, t) \/ PairClosed(s, t)
         /\ a /\ b => PairKept(s, t)
<1> DEFINE epoch == s.establishment + 1
           next == [s EXCEPT !.establishment = epoch, !.ready = None]
           pair == [establishment |-> epoch, host |-> s.generation["host"],
                    client |-> s.generation["client"]]
           told == [p \in Principals |-> s.told[p] \cup IF p \in Primaries THEN {epoch} ELSE {}]
<1>1. epoch \in Nat
  BY DEF SessionType
<1>2. pair \in ReadyPair /\ \A r \in Primaries : pair[r] = s.generation[r]
  BY <1>1, PrimaryFacts DEF SessionType, ReadyPair, Primaries
<1>3. told \in [Principals -> SUBSET Nat]
  BY <1>1 DEF SessionType
<1>4. \A r \in Primaries : told[r] = {epoch}
  BY PrimaryFacts DEF Unready
<1>5. pair.establishment = epoch
  OBVIOUS
<1> HIDE DEF epoch, pair, told
<1>6. /\ next \in SessionType /\ next.ready = None /\ next.told = s.told
      /\ SameAdmissions(s, next) /\ PairKept(s, next)
  BY <1>1 DEF SessionType, SameAdmissions, PairKept
<1>7. CASE a /\ b
  <2>1. t = [next EXCEPT !.ready = pair, !.told = told]
    BY <1>7, <1>6 DEF PublishReady, epoch, pair, told
  <2> HIDE DEF next
  <2>2. t \in SessionType
    BY <1>2, <1>3, <1>6, <2>1 DEF SessionType
  <2>3. /\ t.ready = pair /\ t.told = told
        /\ SameAdmissions(s, t) /\ PairKept(s, t)
    BY <1>6, <2>1 DEF SessionType, SameAdmissions, PairKept
  <2>4. ReadyIsPublished(t)
    BY <1>2, <2>3 DEF ReadyIsPublished, PairKept
  <2>5. t.ready # None
    BY <1>2, <2>3, SignalAssumption
  <2>6. ToldIsReady(t)
    BY <1>4, <1>5, <2>3, <2>5 DEF ToldIsReady
  <2> QED BY <2>2, <2>3, <2>4, <2>6
<1>8. CASE ~ (a /\ b)
  <2>1. t = ClosePrimaryPair(next)
    BY <1>8 DEF PublishReady, epoch
  <2>2. t \in SessionType /\ SameAdmissions(next, t) /\ PairClosed(next, t) /\ t.ready = None
    BY <1>6, <2>1, ClosePrimaryPairFacts
  <2>3. SameAdmissions(s, t) /\ PairClosed(s, t)
    BY <1>6, <2>2 DEF PairClosed, SameAdmissions, PairKept
  <2>4. \A r \in Primaries : t.sender[r] = None
    BY <2>3, PrimaryFacts DEF PairClosed
  <2> QED BY <1>8, <2>2, <2>3, <2>4 DEF ReadyIsPublished, ToldIsReady
<1> QED BY <1>7, <1>8

\* t is s with a new connection of p: published, in no epoch, without a slot.
IsInstalled(s, p, t) ==
  /\ t.generation = [s.generation EXCEPT ![p] = s.generation[p] + 1]
  /\ t.sender = [s.sender EXCEPT ![p] = s.generation[p] + 1]
  /\ t.told = [s.told EXCEPT ![p] = {}]
  /\ t.closed = s.closed \ {p}
  /\ t.ready = s.ready /\ t.guests = s.guests /\ t.active = s.active
  /\ \A r \in Primaries : \/ t.relay[r] = None
                          \/ t.relay[r] = s.relay[r] /\ s.relay[r].owner # p

\* Every admission installs the connection it admits.
LEMMA InstalledFacts ==
  ASSUME NEW s \in SessionType, NEW p \in Principals, NEW t, t = Installed(s, p)
  PROVE  t \in SessionType /\ IsInstalled(s, p, t)
<1> DEFINE c == ClearRelayOwner(s, p)
           generation == [s.generation EXCEPT ![p] = s.generation[p] + 1]
           sender == [s.sender EXCEPT ![p] = s.generation[p] + 1]
           told == [s.told EXCEPT ![p] = {}]
           closed == s.closed \ {p}
<1>1. /\ c \in SessionType
      /\ c.sender = s.sender /\ c.generation = s.generation /\ c.told = s.told
      /\ c.closed = s.closed /\ c.ready = s.ready
      /\ c.guests = s.guests /\ c.active = s.active
  BY ClearRelayOwnerFacts
<1>2. \A r \in Primaries : \/ c.relay[r] = None
                           \/ c.relay[r] = s.relay[r] /\ s.relay[r].owner # p
  BY ClearRelayOwnerFacts
<1>3. t = [c EXCEPT !.generation[p] = @ + 1, !.sender[p] = s.generation[p] + 1,
                    !.told[p] = {}, !.closed = @ \ {p}]
  BY DEF Installed
<1> HIDE DEF c
<1>4. t = [c EXCEPT !.generation = generation, !.sender = sender, !.told = told,
                    !.closed = closed]
  BY <1>1, <1>3
<1>5. /\ generation \in [Principals -> Nat] /\ sender \in [Principals -> Nat \cup {None}]
      /\ told \in [Principals -> SUBSET Nat] /\ closed \in SUBSET Principals
  BY DEF SessionType
<1> HIDE DEF generation, sender, told, closed
<1>6. t \in SessionType
  <2> DEFINE x == [c EXCEPT !.generation = generation, !.sender = sender]
  <2>1. x \in SessionType
    BY <1>1, <1>5 DEF SessionType
  <2>2. t = [x EXCEPT !.told = told, !.closed = closed]
    BY <1>4
  <2> HIDE DEF x
  <2> QED BY <1>5, <2>1, <2>2 DEF SessionType
<1>7. /\ t.generation = generation /\ t.sender = sender /\ t.told = told
      /\ t.closed = closed /\ t.ready = c.ready /\ t.guests = c.guests
      /\ t.active = c.active /\ t.relay = c.relay
  BY <1>1, <1>4 DEF SessionType
<1> QED BY <1>1, <1>2, <1>6, <1>7 DEF IsInstalled, generation, sender, told, closed

\* From s to t, principals outside X keep their places, and those in X their
\* slots no longer.
PlacesKept(s, t, X) ==
  /\ \A r \in Primaries : \/ t.relay[r] = None
                          \/ t.relay[r] = s.relay[r] /\ s.relay[r].owner \notin X
  /\ \A p \in Principals : p \notin X =>
        /\ t.sender[p] = s.sender[p] /\ t.generation[p] = s.generation[p]
        /\ p \in s.active => p \in t.active

\* A slot survives a step that takes nothing from its owner.
LEMMA RelaysStay ==
  ASSUME NEW s \in SessionType, NEW t \in SessionType, NEW X, RelaysCurrent(s), PlacesKept(s, t, X)
  PROVE  RelaysCurrent(t)
<1> SUFFICES ASSUME NEW r \in Primaries, t.relay[r] # None
             PROVE  TicketIsCurrent(t, t.relay[r].owner, t.relay[r].generation)
  BY DEF RelaysCurrent
<1>1. t.relay[r] = s.relay[r] /\ s.relay[r].owner \notin X
  BY DEF PlacesKept
<1>2. s.relay[r].owner \in Principals
  BY <1>1 DEF SessionType, RelaySlot
<1>3. TicketIsCurrent(s, s.relay[r].owner, s.relay[r].generation)
  BY <1>1 DEF RelaysCurrent
<1> QED BY <1>1, <1>2, <1>3 DEF TicketIsCurrent, PlacesKept

\* The welcome of a connection just installed: its queue always has room, so
\* that the pair is closed only for the other end's queue.
LEMMA WelcomedFacts ==
  ASSUME NEW s \in SessionType, NEW r \in Primaries, NEW b \in BOOLEAN,
         Unready(s), SendersCurrent(s), s.sender[r] # None,
         NEW t, t = Welcomed(s, r, b)
  PROVE  /\ t \in SessionType
         /\ SameAdmissions(s, t)
         /\ ReadyIsPublished(t)
         /\ ToldIsReady(t)
         /\ PairKept(s, t) \/ PairClosed(s, t)
         /\ b => PairKept(s, t)
<1> DEFINE room == OutboundCapacity - 1 - s.pending[r]
           drained == [s EXCEPT !.pending[r] = 0]
<1>1. room >= 2 /\ room >= 0 /\ ~ (room < 0)
  BY SignalAssumption DEF OutboundCapacity, SessionType
<1>2. /\ drained \in SessionType /\ drained.ready = s.ready /\ drained.told = s.told
      /\ SameAdmissions(s, drained) /\ PairKept(s, drained)
  <2>1. drained = [s EXCEPT !.pending = [s.pending EXCEPT ![r] = 0]]
    OBVIOUS
  <2>2. [s.pending EXCEPT ![r] = 0] \in [Primaries -> 0 .. MaxPending]
    BY SignalAssumption DEF SessionType
  <2> HIDE DEF drained
  <2> QED BY <2>1, <2>2 DEF SessionType, SameAdmissions, PairKept
<1>3. Unready(drained)
  BY <1>2 DEF Unready, PairKept
<1>4. CASE s.sender[Opposite(r)] = None
  <2>1. t = drained
    BY <1>1, <1>4 DEF Welcomed
  <2>2. ReadyIsPublished(drained) /\ ToldIsReady(drained)
    BY <1>3 DEF Unready, ReadyIsPublished, ToldIsReady
  <2> QED BY <1>2, <2>1, <2>2
<1>5. CASE s.sender[Opposite(r)] # None
  <2>1. t = PublishReady(drained, TRUE, b) \/ t = PublishReady(drained, b, TRUE)
    BY <1>1, <1>5 DEF Welcomed
  <2>2. \A q \in Primaries : drained.sender[q] # None /\ drained.sender[q] = drained.generation[q]
    <3> SUFFICES ASSUME NEW q \in Primaries
                 PROVE  s.sender[q] # None /\ s.sender[q] = s.generation[q]
      BY <1>2 DEF PairKept, SameAdmissions
    <3> QED BY <1>5, PrimaryFacts DEF SendersCurrent
  <2> HIDE DEF drained
  <2>3. /\ t \in SessionType /\ SameAdmissions(drained, t)
        /\ ReadyIsPublished(t) /\ ToldIsReady(t)
        /\ PairKept(drained, t) \/ PairClosed(drained, t)
        /\ b => PairKept(drained, t)
    BY <1>2, <1>3, <2>1, <2>2, PublishReadyFacts
  <2> QED BY <1>2, <2>3 DEF SameAdmissions, PairKept, PairClosed
<1> QED BY <1>4, <1>5

\* The pair as AdmitPrimary leaves it: both closed, or r in a new connection
\* and the other role untouched.
AdmissionFailed(s, t) ==
  \A q \in Primaries : t.sender[q] = None /\ q \in t.closed

AdmissionDone(s, t, r) ==
  /\ t.generation[r] = s.generation[r] + 1
  /\ t.sender[r] = s.generation[r] + 1
  /\ t.sender[Opposite(r)] = s.sender[Opposite(r)]
  /\ Opposite(r) \in t.closed <=> Opposite(r) \in s.closed

\* What an admission of r leaves alone.
OthersKept(s, t, r) ==
  /\ t.guests = s.guests /\ t.active = s.active
  /\ \A p \in Principals : p # r => t.generation[p] = s.generation[p]
  /\ t.generation[r] \in {s.generation[r], s.generation[r] + 1}
  /\ \A g \in Guests : t.sender[g] = s.sender[g] /\ (g \in t.closed <=> g \in s.closed)

\* The reset before a replacement leaves the session without a readiness.
LEMMA BeforeFacts ==
  ASSUME NEW s \in SessionType, SessionInv(s), NEW r \in Primaries, NEW a \in BOOLEAN,
         NEW u, u = IF s.sender[r] # None THEN InvalidateReady(s, Opposite(r), a) ELSE s
  PROVE  /\ u \in SessionType
         /\ SameAdmissions(s, u)
         /\ u.ready = None
         /\ s.sender[r] # None /\ ResetRefused(s, Opposite(r), a) => PairClosed(s, u)
         /\ ~ (s.sender[r] # None /\ ResetRefused(s, Opposite(r), a)) =>
              /\ PairKept(s, u)
              /\ s.sender[Opposite(r)] # None => u.told[Opposite(r)] = {}
<1> DEFINE o == Opposite(r)
<1>1. o \in Primaries /\ o \in Principals /\ o # None /\ r \in Principals
  BY PrimaryFacts
<1>2. s.ready # None => /\ s.sender[r] # None /\ s.sender[o] # None
                        /\ s.ready.establishment \in Nat
  <2> SUFFICES ASSUME s.ready # None
               PROVE  s.sender[r] # None /\ s.sender[o] # None /\ s.ready.establishment \in Nat
    OBVIOUS
  <2>1. s.ready \in ReadyPair
    BY DEF SessionType
  <2>2. s.ready.establishment \in Nat /\ \A q \in Primaries : s.ready[q] \in Nat
    BY <2>1 DEF ReadyPair, Primaries
  <2> QED BY <1>1, <2>2, PrimaryFacts DEF SessionInv, ReadyIsPublished
<1>3. s.sender[o] # None => s.told[o] = IF s.ready = None THEN {} ELSE {s.ready.establishment}
  BY <1>1 DEF SessionInv, ToldIsReady
<1> HIDE DEF o
<1>4. CASE s.sender[r] # None
  <2>1. u = InvalidateReady(s, o, a)
    BY <1>4 DEF o
  <2>2. /\ u \in SessionType /\ SameAdmissions(s, u) /\ u.ready = None
        /\ ResetRefused(s, o, a) => PairClosed(s, u)
        /\ ~ ResetRefused(s, o, a) => PairKept(s, u)
    BY <1>1, <2>1, InvalidateReadyFacts
  <2>3. PairKept(s, u) =>
          u.told[o] = IF s.ready # None /\ s.sender[o] # None
                      THEN s.told[o] \ {s.ready.establishment} ELSE s.told[o]
    <3>1. PairKept(s, u) => IsReset(s, o, u)
      BY <1>1, <2>1, InvalidateReadyFacts
    <3> QED BY <1>1, <3>1 DEF IsReset
  <2>4. PairKept(s, u) /\ s.sender[o] # None => u.told[o] = {}
    BY <1>3, <2>3
  <2> QED BY <1>4, <2>2, <2>4 DEF o
<1>5. CASE s.sender[r] = None
  BY <1>2, <1>3, <1>5 DEF SameAdmissions, PairKept, o
<1> QED BY <1>4, <1>5

\* admit_primary_socket: the invariant of the session holds again, but for the
\* bridged guest a client has yet to park.
LEMMA AdmitPrimaryFacts ==
  ASSUME NEW s \in SessionType, SessionInv(s), NEW r \in Primaries,
         NEW a \in BOOLEAN, NEW b \in BOOLEAN, NEW t, t = AdmitPrimary(s, r, a, b)
  PROVE  /\ t \in SessionType
         /\ SendersCurrent(t) /\ ReadyIsPublished(t) /\ ToldIsReady(t) /\ RelaysCurrent(t)
         /\ OthersKept(s, t, r)
         /\ AdmissionFailed(s, t) \/ AdmissionDone(s, t, r)
         /\ a /\ b => AdmissionDone(s, t, r)
<1> DEFINE o == Opposite(r)
           u == IF s.sender[r] # None THEN InvalidateReady(s, o, a) ELSE s
           v == Installed(u, r)
           refused == s.sender[r] # None /\ ResetRefused(s, o, a)
<1>1. /\ u \in SessionType /\ SameAdmissions(s, u) /\ u.ready = None
      /\ refused => PairClosed(s, u)
      /\ ~ refused => PairKept(s, u) /\ (s.sender[o] # None => u.told[o] = {})
  BY BeforeFacts
<1>2. o \in Primaries /\ o \in Principals /\ o # r /\ r \in Principals
      /\ \A q \in Primaries : q = r \/ q = o
  BY PrimaryFacts
<1>3. refused => t = u
  BY DEF AdmitPrimary
<1>4. ~ refused => t = Welcomed(v, r, b)
  BY DEF AdmitPrimary
<1>5. a => ~ refused
  BY DEF ResetRefused
<1>6. SendersCurrent(s) /\ RelaysCurrent(s)
  BY DEF SessionInv
<1> HIDE DEF o, u, refused
<1>7. CASE refused
  <2>1. PairClosed(s, t) /\ t \in SessionType /\ SameAdmissions(s, t) /\ t.ready = None
    BY <1>1, <1>3, <1>7
  <2>2. \A q \in Primaries : t.sender[q] = None /\ q \in t.closed
    BY <2>1, PrimaryFacts DEF PairClosed
  <2>3. \A g \in Guests : t.sender[g] = s.sender[g] /\ (g \in t.closed <=> g \in s.closed)
    BY <2>1, PrimaryFacts, SignalAssumption DEF PairClosed
  <2>4. SendersCurrent(t)
    BY <1>6, <2>1, <2>2, <2>3 DEF SendersCurrent, SameAdmissions, Principals, Admitted
  <2>8. PlacesKept(s, t, Primaries)
    BY <2>1 DEF PairClosed, SameAdmissions, PlacesKept
  <2>5. RelaysCurrent(t)
    BY <1>6, <2>1, <2>8, RelaysStay
  <2>6. ReadyIsPublished(t) /\ ToldIsReady(t)
    BY <2>1, <2>2 DEF ReadyIsPublished, ToldIsReady
  <2>7. OthersKept(s, t, r)
    BY <2>1, <2>3 DEF OthersKept, SameAdmissions
  <2> QED BY <1>5, <1>7, <2>1, <2>2, <2>4, <2>5, <2>6, <2>7 DEF AdmissionFailed
<1>8. CASE ~ refused
  <2>1. v \in SessionType /\ IsInstalled(u, r, v)
    BY <1>1, <1>2, InstalledFacts
  <2> HIDE DEF v
  <2>2. u.generation \in [Principals -> Nat] /\ u.sender \in [Principals -> Nat \cup {None}]
        /\ u.told \in [Principals -> SUBSET Nat]
    BY <1>1 DEF SessionType
  <2>3. /\ v.generation[r] = s.generation[r] + 1 /\ v.sender[r] = s.generation[r] + 1
        /\ v.told[r] = {} /\ v.ready = None /\ v.guests = s.guests /\ v.active = s.active
        /\ v.told[o] = u.told[o]
        /\ \A p \in Principals : p # r => /\ v.generation[p] = s.generation[p]
                                          /\ v.sender[p] = s.sender[p]
    BY <1>1, <1>2, <1>8, <2>1, <2>2 DEF SameAdmissions, PairKept, IsInstalled
  <2>4. v.closed = s.closed \ {r}
    BY <1>1, <1>8, <2>1 DEF PairKept, IsInstalled
  <2>5. Unready(v)
    BY <1>1, <1>2, <1>8, <2>3 DEF Unready
  <2>6. s.generation[r] \in Nat
    BY <1>2 DEF SessionType
  <2>7. SendersCurrent(v)
    <3>1. ASSUME NEW p \in Principals, v.sender[p] # None
          PROVE  v.sender[p] = v.generation[p] /\ v.sender[p] > 0
      <4>1. CASE p = r
        BY <4>1, <2>3, <2>6
      <4>2. CASE p # r
        BY <4>2, <3>1, <2>3, <1>6 DEF SendersCurrent
      <4> QED BY <4>1, <4>2
    <3>2. \A p \in Guests : v.sender[p] # None => p \in Admitted(v)
      BY <2>3, <1>6, PrimaryFacts, SignalAssumption DEF SendersCurrent, Admitted
    <3> QED BY <3>1, <3>2 DEF SendersCurrent
  <2>8. RelaysCurrent(v)
    <3>1. PlacesKept(s, v, {r})
      BY <1>1, <1>8, <2>1, <2>3 DEF PlacesKept, PairKept, IsInstalled
    <3> QED BY <1>6, <2>1, <3>1, RelaysStay
  <2>9. /\ t \in SessionType /\ SameAdmissions(v, t) /\ ReadyIsPublished(t) /\ ToldIsReady(t)
        /\ PairKept(v, t) \/ PairClosed(v, t)
        /\ b => PairKept(v, t)
    <3>1. v.sender[r] # None
      BY <2>3, <2>6, PrimaryFacts
    <3> QED BY <1>4, <1>8, <2>1, <2>5, <2>7, <3>1, WelcomedFacts
  <2>10. CASE PairKept(v, t)
    <3>1. t.sender = v.sender /\ t.closed = v.closed /\ t.relay = v.relay
          /\ t.generation = v.generation /\ t.guests = v.guests /\ t.active = v.active
      BY <2>9, <2>10 DEF PairKept, SameAdmissions
    <3>2. SendersCurrent(t) /\ RelaysCurrent(t)
      BY <2>7, <2>8, <3>1 DEF SendersCurrent, RelaysCurrent, TicketIsCurrent, Admitted
    <3>3. AdmissionDone(s, t, r)
      BY <1>2, <2>3, <2>4, <3>1 DEF AdmissionDone, o
    <3>4. OthersKept(s, t, r)
      BY <1>2, <2>3, <2>4, <3>1, PrimaryFacts, SignalAssumption DEF OthersKept
    <3> QED BY <2>9, <3>2, <3>3, <3>4
  <2>11. CASE PairClosed(v, t)
    <3>1. \A q \in Primaries : t.sender[q] = None /\ q \in t.closed
      BY <2>11, PrimaryFacts DEF PairClosed
    <3>2. \A g \in Guests : t.sender[g] = v.sender[g] /\ (g \in t.closed <=> g \in v.closed)
      BY <2>11, PrimaryFacts, SignalAssumption DEF PairClosed
    <3>3. SendersCurrent(t)
      BY <2>7, <2>9, <3>1, <3>2 DEF SendersCurrent, SameAdmissions, Principals, Admitted
    <3>4. RelaysCurrent(t)
      <4>1. PlacesKept(v, t, Primaries)
        BY <2>9, <2>11 DEF PairClosed, SameAdmissions, PlacesKept
      <4> QED BY <2>1, <2>8, <2>9, <4>1, RelaysStay
    <3>5. OthersKept(s, t, r)
      BY <1>2, <2>3, <2>4, <2>9, <3>2, PrimaryFacts, SignalAssumption DEF OthersKept, SameAdmissions
    <3>6. AdmissionFailed(s, t)
      BY <3>1 DEF AdmissionFailed
    <3>7. b => AdmissionDone(s, t, r)
      <4> SUFFICES ASSUME b PROVE FALSE
        OBVIOUS
      <4>1. t.sender[r] = v.sender[r]
        BY <2>9 DEF PairKept
      <4>2. v.sender[r] \in Nat
        BY <2>3, <2>6
      <4> QED BY <3>1, <4>1, <4>2, PrimaryFacts
    <3> QED BY <2>9, <3>3, <3>4, <3>5, <3>6, <3>7
  <2> QED BY <2>9, <2>10, <2>11
<1> QED BY <1>7, <1>8

\* A set of numbers has a least element.
LEMMA LeastExists ==
  ASSUME NEW T \in SUBSET Nat, T # {}
  PROVE  \E i \in T : \A j \in T : i <= j
<1>1. PICK i \in T : \A j \in T : ~ (<<j, i>> \in OpToRel(<, Nat))
  BY NatLessThanWellFounded, WFMin
<1>2. \A j \in T : ~ (j < i)
  BY <1>1 DEF OpToRel
<1> QED BY <1>2

\* t is s with a connected guest bridged, or s itself.
IsPromoted(s, t) ==
  /\ t.sender = s.sender /\ t.generation = s.generation /\ t.told = s.told
  /\ t.closed = s.closed /\ t.ready = s.ready /\ t.relay = s.relay /\ t.guests = s.guests
  /\ \/ t.active = s.active
     \/ \E g \in Guests : s.sender[g] # None /\ t.active = s.active \cup {g}

\* take_promotion_sender bridges a guest that is connected.
LEMMA PromotedFacts ==
  ASSUME NEW s \in SessionType, NEW t, t = Promoted(s)
  PROVE  t \in SessionType /\ IsPromoted(s, t)
<1> DEFINE parked == {i \in DOMAIN s.guests :
                        s.sender[s.guests[i]] # None /\ s.guests[i] \notin s.active}
           first == CHOOSE i \in parked : \A j \in parked : i <= j
<1>1. CASE parked = {}
  BY <1>1 DEF Promoted, IsPromoted
<1>2. CASE parked # {}
  <2>1. parked \in SUBSET Nat
    BY DEF SessionType
  <2>2. first \in parked
    BY <1>2, <2>1, LeastExists
  <2>3. t = [s EXCEPT !.active = s.active \cup {s.guests[first]}]
    BY <1>2 DEF Promoted
  <2> HIDE DEF first
  <2>4. s.guests[first] \in Guests /\ s.sender[s.guests[first]] # None
    BY <2>2 DEF SessionType
  <2> DEFINE active == s.active \cup {s.guests[first]}
  <2>5. active \in SUBSET Guests
    BY <2>4 DEF SessionType
  <2>6. \E g \in Guests : s.sender[g] # None /\ active = s.active \cup {g}
    BY <2>4
  <2>7. t = [s EXCEPT !.active = active]
    BY <2>3
  <2> HIDE DEF active
  <2>8. t \in SessionType
    BY <2>5, <2>7 DEF SessionType
  <2>9. /\ t.sender = s.sender /\ t.generation = s.generation /\ t.told = s.told
        /\ t.closed = s.closed /\ t.ready = s.ready /\ t.relay = s.relay
        /\ t.guests = s.guests /\ t.active = active
    BY <2>7 DEF SessionType
  <2> QED BY <2>6, <2>8, <2>9 DEF IsPromoted
<1> QED BY <1>1, <1>2

\* A promotion into an empty place keeps the invariant.
LEMMA PromotedKeeps ==
  ASSUME NEW s \in SessionType, SessionInv(s), s.active = {}, s.sender["client"] = None,
         NEW t \in SessionType, IsPromoted(s, t)
  PROVE  SessionInv(t)
<1>1. SendersCurrent(t) /\ ReadyIsPublished(t) /\ ToldIsReady(t)
  BY DEF SessionInv, IsPromoted, SendersCurrent, ReadyIsPublished, ToldIsReady, Admitted
<1>2. PlacesKept(s, t, {})
  BY DEF IsPromoted, PlacesKept
<1>3. RelaysCurrent(t)
  BY <1>2, RelaysStay DEF SessionInv
<1>4. OneBridged(t) /\ t.sender["client"] = None
  BY DEF IsPromoted, OneBridged
<1> QED BY <1>1, <1>3, <1>4 DEF SessionInv

\* t is s with nobody bridged, and no slot of the guest that was.
IsParked(s, t) ==
  /\ t.sender = s.sender /\ t.generation = s.generation /\ t.told = s.told
  /\ t.closed = s.closed /\ t.ready = s.ready /\ t.guests = s.guests
  /\ t.active = {}
  /\ PlacesKept(s, t, s.active)

\* The client's admission parks the one guest that is bridged.
LEMMA ParkedFacts ==
  ASSUME NEW s \in SessionType, OneBridged(s), NEW t, t = Parked(s)
  PROVE  t \in SessionType /\ IsParked(s, t)
<1> DEFINE g == CHOOSE g \in s.active : TRUE
           c == ClearRelayOwner(s, g)
<1>1. CASE s.active = {}
  BY <1>1 DEF Parked, IsParked, PlacesKept
<1>2. CASE s.active # {}
  <2>1. g \in s.active
    BY <1>2
  <2>2. t = [c EXCEPT !.active = @ \ {g}]
    BY <1>2 DEF Parked
  <2> HIDE DEF g
  <2>3. s.active = {g} /\ g \in Principals
    <3>1. \A h \in s.active : h = g
      BY <2>1 DEF OneBridged
    <3>2. s.active \subseteq Guests
      BY DEF SessionType
    <3> QED BY <2>1, <3>1, <3>2, PrimaryFacts
  <2>4. /\ c \in SessionType
        /\ c.sender = s.sender /\ c.generation = s.generation /\ c.told = s.told
        /\ c.closed = s.closed /\ c.ready = s.ready
        /\ c.guests = s.guests /\ c.active = s.active
    BY <2>3, ClearRelayOwnerFacts
  <2>5. \A r \in Primaries : \/ c.relay[r] = None
                             \/ c.relay[r] = s.relay[r] /\ s.relay[r].owner # g
    BY <2>3, ClearRelayOwnerFacts
  <2> HIDE DEF c
  <2>6. t = [c EXCEPT !.active = {}]
    BY <2>2, <2>3, <2>4
  <2>7. t \in SessionType
    BY <2>4, <2>6 DEF SessionType
  <2>8. /\ t.sender = s.sender /\ t.generation = s.generation /\ t.told = s.told
        /\ t.closed = s.closed /\ t.ready = s.ready /\ t.guests = s.guests
        /\ t.active = {} /\ t.relay = c.relay
    BY <2>4, <2>6 DEF SessionType
  <2>9. PlacesKept(s, t, s.active)
    BY <2>3, <2>5, <2>8 DEF PlacesKept
  <2> QED BY <2>7, <2>8, <2>9 DEF IsParked
<1> QED BY <1>1, <1>2

\* A guest's admission: it is bridged only in an empty place.
LEMMA AdmitGuestKeeps ==
  ASSUME NEW s \in SessionType, SessionInv(s), NEW g \in Guests, g \in Admitted(s),
         NEW t, t = AdmitGuest(s, g)
  PROVE  /\ t \in SessionType
         /\ SessionInv(t)
         /\ t.generation = [s.generation EXCEPT ![g] = s.generation[g] + 1]
         /\ t.sender = [s.sender EXCEPT ![g] = s.generation[g] + 1]
         /\ t.closed = s.closed \ {g}
<1> DEFINE v == Installed(s, g)
           may == g \in s.active \/ (s.sender["client"] = None /\ s.active \ {g} = {})
           active == IF may THEN s.active \cup {g} ELSE s.active \ {g}
<1>1. v \in SessionType /\ IsInstalled(s, g, v)
  BY InstalledFacts, PrimaryFacts
<1>2. t = [v EXCEPT !.active = IF may THEN @ \cup {g} ELSE @ \ {g}]
  BY DEF AdmitGuest
<1> HIDE DEF v, may
<1>3. t = [v EXCEPT !.active = active]
  BY <1>1, <1>2 DEF IsInstalled
<1>4. active \in SUBSET Guests
  BY DEF SessionType
<1> HIDE DEF active
<1>5. t \in SessionType
  BY <1>1, <1>3, <1>4 DEF SessionType
<1>6. /\ t.sender = v.sender /\ t.generation = v.generation /\ t.told = v.told
      /\ t.closed = v.closed /\ t.ready = v.ready /\ t.relay = v.relay
      /\ t.guests = v.guests /\ t.active = active
  BY <1>1, <1>3 DEF SessionType
<1>7. /\ s.generation \in [Principals -> Nat] /\ s.sender \in [Principals -> Nat \cup {None}]
      /\ s.told \in [Principals -> SUBSET Nat] /\ g \in Principals
  BY PrimaryFacts DEF SessionType
<1>8. /\ t.sender[g] = s.generation[g] + 1 /\ t.generation[g] = s.generation[g] + 1
      /\ \A p \in Principals : p # g => /\ t.sender[p] = s.sender[p]
                                        /\ t.generation[p] = s.generation[p]
                                        /\ t.told[p] = s.told[p]
      /\ t.ready = s.ready /\ t.guests = s.guests
  BY <1>1, <1>6, <1>7 DEF IsInstalled
<1>9. SendersCurrent(t)
  <2>1. ASSUME NEW p \in Principals, t.sender[p] # None
        PROVE  t.sender[p] = t.generation[p] /\ t.sender[p] > 0
    <3>1. CASE p = g
      BY <3>1, <1>7, <1>8
    <3>2. CASE p # g
      BY <3>2, <2>1, <1>8 DEF SessionInv, SendersCurrent
    <3> QED BY <3>1, <3>2
  <2>2. \A p \in Guests : t.sender[p] # None => p \in Admitted(t)
    BY <1>8, PrimaryFacts DEF SessionInv, SendersCurrent, Admitted
  <2> QED BY <2>1, <2>2 DEF SendersCurrent
<1>10. \A r \in Primaries : r # g /\ r \in Principals
  BY PrimaryFacts, SignalAssumption
<1>11. ReadyIsPublished(t) /\ ToldIsReady(t)
  BY <1>8, <1>10 DEF SessionInv, ReadyIsPublished, ToldIsReady
<1>12. PlacesKept(s, t, {g})
  BY <1>1, <1>6, <1>8 DEF PlacesKept, IsInstalled, active
<1>13. RelaysCurrent(t)
  BY <1>5, <1>12, RelaysStay DEF SessionInv
<1>14. t.sender["client"] = s.sender["client"]
  BY <1>8, <1>10, PrimaryFacts
<1>15. OneBridged(t) /\ (t.active # {} => t.sender["client"] = None)
  <2>1. CASE g \in s.active
    BY <2>1, <1>6, <1>14 DEF active, may, SessionInv, OneBridged
  <2>2. CASE g \notin s.active
    BY <2>2, <1>6, <1>14 DEF active, may, SessionInv, OneBridged
  <2> QED BY <2>1, <2>2
<1> QED BY <1>1, <1>5, <1>6, <1>9, <1>11, <1>13, <1>15 DEF SessionInv, IsInstalled

\* From s to t every principal keeps its place, or loses it as one closed.
Served(s, t, p) ==
  \/ t.sender[p] = s.sender[p] /\ (p \in s.closed => p \in t.closed)
  \/ t.sender[p] = None /\ p \in t.closed

\* A step that only takes senders away, with their slots, keeps the rest of the
\* session's invariant.
LEMMA LeavingKeeps ==
  ASSUME NEW s \in SessionType, SessionInv(s), NEW t \in SessionType, NEW X,
         PlacesKept(s, t, X), ReadyIsPublished(t), ToldIsReady(t),
         t.generation = s.generation, t.guests = s.guests, t.active = s.active,
         \A p \in Principals : t.sender[p] = None \/ t.sender[p] = s.sender[p]
  PROVE  SessionInv(t)
<1>1. SendersCurrent(t)
  BY PrimaryFacts DEF SessionInv, SendersCurrent, Admitted
<1>2. RelaysCurrent(t)
  BY RelaysStay DEF SessionInv
<1>3. OneBridged(t) /\ (t.active # {} => t.sender["client"] = None)
  BY PrimaryFacts DEF SessionInv, OneBridged
<1> QED BY <1>1, <1>2, <1>3 DEF SessionInv

\* cleanup_primary_socket: the place is free, and the other end has heard of
\* it or is closed too.
LEMMA CleanedPrimaryKeeps ==
  ASSUME NEW s \in SessionType, SessionInv(s), NEW r \in Primaries, NEW takes \in BOOLEAN,
         NEW t, t = CleanedPrimary(s, r, takes)
  PROVE  /\ t \in SessionType
         /\ SessionInv(t)
         /\ t.generation = s.generation
         /\ t.sender[r] = None
         /\ \A p \in Principals : p # r => Served(s, t, p)
<1> DEFINE o == Opposite(r)
           left == [s EXCEPT !.sender[r] = None]
           survivor == CASE left.sender["host"] # None -> "host"
                         [] left.sender["client"] # None -> "client"
                         [] OTHER -> None
           u == InvalidateReady(left, survivor, takes)
<1>0. t = ClearRelayOwner(u, r)
  BY DEF CleanedPrimary
<1>1. /\ o \in Primaries /\ o \in Principals /\ o # None /\ r \in Principals /\ o # r
      /\ \A q \in Primaries : q = r \/ q = o
  BY PrimaryFacts
<1>2. /\ left \in SessionType /\ left.generation = s.generation /\ left.told = s.told
      /\ left.closed = s.closed /\ left.ready = s.ready /\ left.relay = s.relay
      /\ left.guests = s.guests /\ left.active = s.active
      /\ left.sender = [s.sender EXCEPT ![r] = None]
  <2> DEFINE sender == [s.sender EXCEPT ![r] = None]
  <2>1. left = [s EXCEPT !.sender = sender]
    OBVIOUS
  <2>2. sender \in [Principals -> Nat \cup {None}]
    BY DEF SessionType
  <2> HIDE DEF sender, left
  <2>3. left \in SessionType
    BY <2>1, <2>2 DEF SessionType
  <2>4. /\ left.generation = s.generation /\ left.told = s.told
        /\ left.closed = s.closed /\ left.ready = s.ready /\ left.relay = s.relay
        /\ left.guests = s.guests /\ left.active = s.active
        /\ left.sender = sender
    BY <2>1 DEF SessionType
  <2> QED BY <2>3, <2>4 DEF sender
<1>3. /\ left.sender[r] = None
      /\ \A p \in Principals : p # r => left.sender[p] = s.sender[p]
  BY <1>1, <1>2 DEF SessionType
<1> HIDE DEF left
<1>4. /\ survivor \in Primaries \cup {None}
      /\ left.sender[o] # None => survivor = o
  BY <1>1, <1>3 DEF Primaries
<1> HIDE DEF survivor
<1>5. /\ u \in SessionType /\ SameAdmissions(left, u) /\ u.ready = None
      /\ PairKept(left, u) \/ PairClosed(left, u)
      /\ PairKept(left, u) => IsReset(left, survivor, u)
  <2>1. left \in SessionType /\ survivor \in Primaries \cup {None}
    BY <1>2, <1>4
  <2>2. u \in SessionType /\ SameAdmissions(left, u) /\ u.ready = None
    BY <2>1, InvalidateReadyFacts
  <2>3. PairKept(left, u) \/ PairClosed(left, u)
    BY <2>1, InvalidateReadyFacts
  <2>4. PairKept(left, u) => IsReset(left, survivor, u)
    BY <2>1, InvalidateReadyFacts
  <2> QED BY <2>2, <2>3, <2>4
<1> HIDE DEF u
<1>6. /\ t \in SessionType
      /\ t.sender = u.sender /\ t.generation = u.generation /\ t.told = u.told
      /\ t.closed = u.closed /\ t.ready = u.ready /\ t.guests = u.guests /\ t.active = u.active
  BY <1>0, <1>1, <1>5, ClearRelayOwnerFacts
<1>7. \A q \in Primaries : \/ t.relay[q] = None
                           \/ t.relay[q] = u.relay[q] /\ u.relay[q].owner # r
  BY <1>0, <1>1, <1>5, ClearRelayOwnerFacts
<1>8. t.generation = s.generation /\ t.guests = s.guests /\ t.active = s.active /\ t.ready = None
  BY <1>2, <1>5, <1>6 DEF SameAdmissions
<1>9. CASE PairKept(left, u)
  <2>1. t.sender[r] = None /\ \A p \in Principals : p # r => t.sender[p] = s.sender[p]
    BY <1>3, <1>6, <1>9 DEF PairKept
  <2>2. \A p \in Principals : p # r => Served(s, t, p)
    BY <1>2, <1>6, <1>9, <2>1 DEF PairKept, Served
  <2>3. PlacesKept(s, t, {r})
    BY <1>2, <1>7, <1>8, <1>9, <2>1 DEF PlacesKept, PairKept
  <2>4. t.sender[o] # None => t.told[o] = {}
    <3> SUFFICES ASSUME t.sender[o] # None PROVE t.told[o] = {}
      OBVIOUS
    <3>1. left.sender[o] # None /\ s.sender[o] # None
      BY <1>1, <1>3, <2>1
    <3>2. s.told[o] = IF s.ready = None THEN {} ELSE {s.ready.establishment}
      BY <1>1, <3>1 DEF SessionInv, ToldIsReady
    <3>3. u.told[o] = IF s.ready # None THEN s.told[o] \ {s.ready.establishment} ELSE s.told[o]
      BY <1>1, <1>2, <1>4, <1>5, <1>9, <3>1 DEF IsReset
    <3> QED BY <1>6, <3>2, <3>3
  <2>5. ReadyIsPublished(t) /\ ToldIsReady(t)
    BY <1>1, <1>8, <2>1, <2>4 DEF ReadyIsPublished, ToldIsReady
  <2>6. SessionInv(t)
    BY <1>6, <1>8, <2>1, <2>3, <2>5, LeavingKeeps
  <2> QED BY <1>6, <1>8, <2>1, <2>2, <2>6
<1>10. CASE PairClosed(left, u)
  <2>1. \A q \in Primaries : t.sender[q] = None /\ q \in t.closed
    BY <1>6, <1>10, PrimaryFacts DEF PairClosed
  <2>2. \A g \in Guests : t.sender[g] = s.sender[g] /\ (g \in t.closed <=> g \in s.closed)
    BY <1>1, <1>2, <1>3, <1>6, <1>10, PrimaryFacts, SignalAssumption DEF PairClosed
  <2>3. \A p \in Principals : p # r => Served(s, t, p)
    BY <2>1, <2>2 DEF Served, Principals
  <2>4. PlacesKept(s, t, Primaries)
    BY <1>1, <1>2, <1>7, <1>8, <1>10, <2>2 DEF PlacesKept, PairClosed, Principals
  <2>5. ReadyIsPublished(t) /\ ToldIsReady(t)
    BY <1>8, <2>1 DEF ReadyIsPublished, ToldIsReady
  <2>6. SessionInv(t)
    BY <1>6, <1>8, <2>1, <2>2, <2>4, <2>5, LeavingKeeps DEF Principals
  <2> QED BY <1>6, <1>8, <2>1, <2>3, <2>6
<1> QED BY <1>5, <1>9, <1>10

\* e is s without the connection of g, and with every other guest.
IsLeft(s, g, e) ==
  /\ e.sender = [s.sender EXCEPT ![g] = None] /\ e.active = s.active \ {g}
  /\ e.generation = s.generation /\ e.told = s.told /\ e.ready = s.ready /\ e.relay = s.relay
  /\ \A i \in DOMAIN s.guests :
        s.guests[i] # g => \E j \in DOMAIN e.guests : e.guests[j] = s.guests[i]

\* A guest's place is emptied with its slots, and the next guest may take it.
LEMMA LeftGuestKeeps ==
  ASSUME NEW s \in SessionType, SessionInv(s), NEW g \in Guests,
         NEW e \in SessionType, IsLeft(s, g, e),
         NEW t, t = IF g \in s.active THEN Promoted(ClearRelayOwner(e, g)) ELSE ClearRelayOwner(e, g)
  PROVE  /\ t \in SessionType
         /\ SessionInv(t)
         /\ t.generation = s.generation
         /\ t.closed = e.closed
         /\ t.sender[g] = None
         /\ \A p \in Principals : p # g => t.sender[p] = s.sender[p]
<1> DEFINE c == ClearRelayOwner(e, g)
<1>0. g \in Principals
  BY PrimaryFacts
<1>1. /\ c \in SessionType
      /\ c.sender = e.sender /\ c.generation = e.generation /\ c.told = e.told
      /\ c.closed = e.closed /\ c.ready = e.ready
      /\ c.guests = e.guests /\ c.active = e.active
  BY <1>0, ClearRelayOwnerFacts
<1>2. \A r \in Primaries : \/ c.relay[r] = None
                           \/ c.relay[r] = e.relay[r] /\ e.relay[r].owner # g
  BY <1>0, ClearRelayOwnerFacts
<1> HIDE DEF c
<1>3. /\ c.sender = [s.sender EXCEPT ![g] = None]
      /\ c.generation = s.generation /\ c.told = s.told /\ c.closed = e.closed /\ c.ready = s.ready
      /\ c.guests = e.guests /\ c.active = s.active \ {g} /\ e.relay = s.relay
  BY <1>1 DEF IsLeft
<1>4. c.sender[g] = None /\ \A p \in Principals : p # g => c.sender[p] = s.sender[p]
  BY <1>3, PrimaryFacts DEF SessionType
<1>5. SendersCurrent(c)
  <2>1. \A p \in Guests : c.sender[p] # None => p \in Admitted(c)
    <3> SUFFICES ASSUME NEW p \in Guests, c.sender[p] # None
                 PROVE  \E j \in DOMAIN e.guests : e.guests[j] = p
      BY <1>3 DEF Admitted, ToSet
    <3>1. p # g /\ s.sender[p] # None
      BY <1>4, PrimaryFacts
    <3>2. p \in Admitted(s)
      BY <3>1 DEF SessionInv, SendersCurrent
    <3>3. PICK i \in DOMAIN s.guests : s.guests[i] = p
      BY <3>2 DEF Admitted, ToSet
    <3> QED BY <3>1, <3>3 DEF IsLeft
  <2>2. \A p \in Principals :
          c.sender[p] # None => c.sender[p] = c.generation[p] /\ c.sender[p] > 0
    BY <1>3, <1>4 DEF SessionInv, SendersCurrent
  <2> QED BY <2>1, <2>2 DEF SendersCurrent
<1>6. \A r \in Primaries : c.sender[r] = s.sender[r]
  BY <1>4, PrimaryFacts, SignalAssumption
<1>7. ReadyIsPublished(c) /\ ToldIsReady(c)
  BY <1>3, <1>6 DEF SessionInv, ReadyIsPublished, ToldIsReady
<1>8. PlacesKept(s, c, {g})
  BY <1>2, <1>3, <1>4 DEF PlacesKept
<1>9. RelaysCurrent(c)
  BY <1>1, <1>8, RelaysStay DEF SessionInv
<1>10. SessionInv(c)
  BY <1>3, <1>5, <1>6, <1>7, <1>9, PrimaryFacts DEF SessionInv, OneBridged
<1>11. CASE g \in s.active
  <2>1. t = Promoted(c)
    BY <1>11 DEF c
  <2>2. c.active = {}
    BY <1>3, <1>11 DEF SessionInv, OneBridged
  <2>3. c.sender["client"] = None
    BY <1>6, <1>11, PrimaryFacts DEF SessionInv
  <2>4. t \in SessionType /\ IsPromoted(c, t)
    BY <1>1, <2>1, PromotedFacts
  <2>5. SessionInv(t)
    BY <1>1, <1>10, <2>2, <2>3, <2>4, PromotedKeeps
  <2>6. t.sender = c.sender /\ t.generation = c.generation /\ t.closed = c.closed
    BY <2>4 DEF IsPromoted
  <2>7. t.sender[g] = None /\ \A p \in Principals : p # g => t.sender[p] = s.sender[p]
    BY <1>4, <2>6
  <2> QED BY <1>3, <2>4, <2>5, <2>6, <2>7
<1>12. CASE g \notin s.active
  BY <1>1, <1>3, <1>4, <1>10, <1>12 DEF c
<1> QED BY <1>11, <1>12

\* Where the entry k of a sequence of length n is once the entry i is gone.
LEMMA ShiftedIndex ==
  ASSUME NEW n \in Nat, NEW i \in 1 .. n, NEW k \in 1 .. n, k > i
  PROVE  /\ k - 1 \in 1 .. n - 1 /\ k - 1 \in 1 .. (i - 1) + (n - i)
         /\ ~ (k - 1 <= i - 1) /\ (k - 1) - (i - 1) = k - i
         /\ k - i \in 1 .. n - i /\ i + (k - i) = k
OBVIOUS

\* Removing the entry at a position keeps every other entry.
LEMMA RemoveAtKeeps ==
  ASSUME NEW S, NEW q \in Seq(S), NEW i \in DOMAIN q
  PROVE  /\ RemoveAt(q, i) \in Seq(S)
         /\ \A k \in DOMAIN q : k # i => \E j \in DOMAIN RemoveAt(q, i) : RemoveAt(q, i)[j] = q[k]
<1> DEFINE a == SubSeq(q, 1, i - 1)
           b == SubSeq(q, i + 1, Len(q))
           m == RemoveAt(q, i)
<1>1. i \in 1 .. Len(q) /\ Len(q) \in Nat
  OBVIOUS
<1>2. a \in Seq(S) /\ Len(a) = i - 1 /\ \A k \in 1 .. i - 1 : a[k] = q[k]
  BY <1>1
<1>3. b \in Seq(S) /\ Len(b) = Len(q) - i /\ \A k \in 1 .. Len(q) - i : b[k] = q[i + k]
  BY <1>1
<1>4. m = a \o b
  BY DEF RemoveAt
<1> HIDE DEF a, b, m
<1>5. /\ m \in Seq(S) /\ Len(m) = Len(a) + Len(b)
      /\ \A k \in 1 .. Len(a) + Len(b) : m[k] = IF k <= Len(a) THEN a[k] ELSE b[k - Len(a)]
  BY <1>2, <1>3, <1>4, ConcatProperties
<1>6. Len(m) = Len(q) - 1 /\ DOMAIN m = 1 .. Len(q) - 1
  BY <1>1, <1>2, <1>3, <1>5
<1>7. ASSUME NEW k \in DOMAIN q, k # i
      PROVE  \E j \in DOMAIN m : m[j] = q[k]
  <2>1. k \in 1 .. Len(q) /\ k \in Nat /\ i \in Nat
    BY <1>1
  <2>2. CASE k < i
    <3>1. k \in DOMAIN m /\ k \in 1 .. Len(a) + Len(b) /\ k <= Len(a) /\ k \in 1 .. i - 1
      BY <1>1, <1>2, <1>3, <1>6, <2>1, <2>2
    <3>2. m[k] = q[k]
      BY <1>2, <1>5, <3>1
    <3> QED BY <3>1, <3>2
  <2>3. CASE k > i
    <3>1. /\ k - 1 \in DOMAIN m /\ k - 1 \in 1 .. Len(a) + Len(b)
          /\ ~ (k - 1 <= Len(a)) /\ k - 1 - Len(a) = k - i
          /\ k - i \in 1 .. Len(q) - i /\ i + (k - i) = k
      <4>1. Len(q) \in Nat /\ i \in 1 .. Len(q) /\ k \in 1 .. Len(q) /\ k > i
        BY <1>1, <2>1, <2>3
      <4>2. /\ k - 1 \in 1 .. Len(q) - 1 /\ k - 1 \in 1 .. (i - 1) + (Len(q) - i)
            /\ ~ (k - 1 <= i - 1) /\ (k - 1) - (i - 1) = k - i
            /\ k - i \in 1 .. Len(q) - i /\ i + (k - i) = k
        BY <4>1, ShiftedIndex
      <4> QED BY <1>2, <1>3, <1>6, <4>2, Zenon
    <3>2. m[k - 1] = b[k - i]
      BY <1>5, <3>1
    <3>3. b[k - i] = q[k]
      BY <1>3, <3>1
    <3> QED BY <3>1, <3>2, <3>3
  <2> QED BY <1>7, <2>1, <2>2, <2>3
<1> QED BY <1>5, <1>7 DEF m

-----------------------------------------------------------------------------
(* The steps. *)

\* The session is new in the beginning and after a revocation.
LEMMA NewSessionFacts == NewSession \in SessionType /\ SessionInv(NewSession)
<1>1. NewSession \in SessionType
  <2>1. /\ <<>> \in Seq(Guests) /\ 0 \in 0 .. MaxPending /\ {} \in SUBSET Nat
        /\ [p \in Principals |-> None] \in [Principals -> Nat \cup {None}]
        /\ [p \in Principals |-> 0] \in [Principals -> Nat]
        /\ [p \in Principals |-> {}] \in [Principals -> SUBSET Nat]
        /\ [r \in Primaries |-> 0] \in [Primaries -> 0 .. MaxPending]
        /\ [r \in Primaries |-> None] \in [Primaries -> RelaySlot \cup {None}]
    BY SignalAssumption
  <2> QED BY <2>1 DEF NewSession, SessionType
<1>2. SessionInv(NewSession)
  BY PrimaryFacts DEF NewSession, SessionInv, SendersCurrent, ReadyIsPublished, ToldIsReady,
                      OneBridged, RelaysCurrent
<1> QED BY <1>1, <1>2

\* The specification starts in the invariant.
LEMMA InitSignalInv == Init => SignalInv
<1> SUFFICES ASSUME Init PROVE SignalInv
  OBVIOUS
<1>1. live \in BOOLEAN /\ session \in SessionType /\ SessionInv(session)
  BY NewSessionFacts DEF Init
<1>2. TaskTypes
  BY DEF Init, TaskTypes, Sockets
<1>3. \A p \in Principals : session.sender[p] = None /\ session.generation[p] = 0
  BY DEF Init, NewSession
<1>4. TasksInv
  BY <1>3, PrimaryFacts, SignalAssumption DEF Init, TasksInv, PlaceServed, Sockets
<1> QED BY <1>1, <1>2, <1>4 DEF SignalInv, Types

\* A step of one task leaves the others alone.
LEMMA OneTaskMoves ==
  ASSUME TaskTypes, NEW p \in Principals, NEW n \in Sockets(p),
         NEW v \in {"running", "leaving", "over"}, task' = [task EXCEPT ![p][n] = v]
  PROVE  /\ TaskTypes'
         /\ task'[p][n] = v
         /\ \A m \in Sockets(p) : m # n => task'[p][m] = task[p][m]
         /\ \A q \in Principals : q # p => task'[q] = task[q]
<1> DEFINE f == [task[p] EXCEPT ![n] = v]
<1>1. task' = [task EXCEPT ![p] = f]
  OBVIOUS
<1>2. task[p] \in [Sockets(p) -> {None, "running", "leaving", "over"}]
  BY DEF TaskTypes
<1>3. f \in [Sockets(p) -> {None, "running", "leaving", "over"}] /\ f[n] = v
      /\ \A m \in Sockets(p) : m # n => f[m] = task[p][m]
  BY <1>2
<1> HIDE DEF f
<1>4. /\ task' = [q \in Principals |-> task'[q]]
      /\ task'[p] = f
      /\ \A q \in Principals : q # p => task'[q] = task[q]
  BY <1>1 DEF TaskTypes
<1>5. TaskTypes'
  <2>1. \A q \in Principals : task'[q] \in [Sockets(q) -> {None, "running", "leaving", "over"}]
    BY <1>3, <1>4 DEF TaskTypes
  <2>2. \A q \in Principals : Sockets(q)' = Sockets(q)
    BY DEF Sockets
  <2> QED BY <1>4, <2>1, <2>2 DEF TaskTypes
<1> QED BY <1>3, <1>4, <1>5

\* A principal that keeps its place and its tasks is served as before.
LEMMA StillServed ==
  ASSUME Types, live', live, NEW p \in Principals, PlaceServed(p),
         session'.generation[p] = session.generation[p], Served(session, session', p),
         task'[p] = task[p]
  PROVE  PlaceServed(p)'
BY PrimaryFacts DEF PlaceServed, Served, Sockets

\* A host or a client connects.
LEMMA ConnectPrimaryKeeps ==
  ASSUME SignalInv, NEW r \in Primaries, NEW a \in BOOLEAN, NEW b \in BOOLEAN,
         ConnectPrimary(r, a, b)
  PROVE  SignalInv' /\ (a /\ b => session'.sender[r] = session'.generation[r])
<1> DEFINE s == session
           t == AdmitPrimary(s, r, a, b)
           runs == t.generation[r] > s.generation[r] /\ t.sender[r] # None
           z == session'
<1>1. s \in SessionType /\ SessionInv(s) /\ TaskTypes /\ live
  BY DEF SignalInv, Types, ConnectPrimary
<1>2. /\ t \in SessionType
      /\ SendersCurrent(t) /\ ReadyIsPublished(t) /\ ToldIsReady(t) /\ RelaysCurrent(t)
      /\ OthersKept(s, t, r)
      /\ AdmissionFailed(s, t) \/ AdmissionDone(s, t, r)
      /\ a /\ b => AdmissionDone(s, t, r)
  BY <1>1, AdmitPrimaryFacts
<1>3. /\ z = IF r = "client" /\ runs THEN Parked(t) ELSE t
      /\ task' = IF runs THEN [task EXCEPT ![r][t.generation[r]] = "running"] ELSE task
      /\ live' = live
      /\ s.generation[r] < MaxSockets[r]
  BY DEF ConnectPrimary
<1>4. r \in Principals /\ s.generation[r] \in Nat /\ MaxSockets[r] \in Nat
  BY <1>1, PrimaryFacts, SignalAssumption DEF SessionType
<1> HIDE DEF t, s, z
<1>5. OneBridged(t)
  BY <1>1, <1>2 DEF SessionInv, OneBridged, OthersKept
<1>6. AdmissionDone(s, t, r) => runs
  BY <1>4, PrimaryFacts DEF AdmissionDone
<1>7. AdmissionFailed(s, t) => ~ runs
  BY DEF AdmissionFailed
<1> HIDE DEF runs
<1>8. /\ z \in SessionType /\ SessionInv(z)
      /\ z.sender = t.sender /\ z.generation = t.generation /\ z.closed = t.closed
  <2>1. CASE r = "client" /\ runs
    <3>1. z \in SessionType /\ IsParked(t, z)
      BY <1>2, <1>3, <1>5, <2>1, ParkedFacts
    <3>2. RelaysCurrent(z)
      BY <1>2, <3>1, RelaysStay DEF IsParked
    <3>3. SendersCurrent(z) /\ ReadyIsPublished(z) /\ ToldIsReady(z) /\ OneBridged(z)
      BY <1>2, <3>1 DEF IsParked, SendersCurrent, ReadyIsPublished, ToldIsReady, OneBridged, Admitted
    <3> QED BY <3>1, <3>2, <3>3 DEF IsParked, SessionInv
  <2>2. CASE ~ (r = "client" /\ runs)
    <3>1. z = t
      BY <1>3, <2>2
    <3>2. t.active # {} => t.sender["client"] = None
      <4> SUFFICES ASSUME t.active # {} PROVE t.sender["client"] = None
        OBVIOUS
      <4>1. CASE AdmissionFailed(s, t)
        BY <4>1, PrimaryFacts DEF AdmissionFailed
      <4>2. CASE AdmissionDone(s, t, r)
        <5>1. r = "host" /\ Opposite(r) = "client"
          BY <1>6, <2>2, <4>2 DEF Primaries, Opposite
        <5>2. s.sender["client"] = None
          BY <1>1, <1>2 DEF OthersKept, SessionInv
        <5> QED BY <4>2, <5>1, <5>2 DEF AdmissionDone
      <4> QED BY <1>2, <4>1, <4>2
    <3> QED BY <1>2, <1>5, <3>1, <3>2 DEF SessionInv
  <2> QED BY <2>1, <2>2
<1>9. /\ TaskTypes'
      /\ \A p \in Principals : p # r => task'[p] = task[p]
      /\ AdmissionDone(s, t, r) => task'[r][t.generation[r]] = "running"
  <2>1. CASE runs
    <3>1. AdmissionDone(s, t, r)
      BY <1>2, <1>7, <2>1
    <3>2. t.generation[r] \in Sockets(r)
      BY <1>3, <1>4, <3>1 DEF AdmissionDone, Sockets
    <3>3. task' = [task EXCEPT ![r][t.generation[r]] = "running"]
      BY <1>3, <2>1
    <3> QED BY <1>1, <1>4, <3>2, <3>3, OneTaskMoves
  <2>2. CASE ~ runs
    <3>1. task' = task
      BY <1>3, <2>2
    <3>2. TaskTypes'
      BY <1>1, <3>1 DEF TaskTypes, Sockets
    <3> QED BY <1>6, <2>2, <3>1, <3>2
  <2> QED BY <2>1, <2>2
<1>10. \A p \in Principals : p # r => PlaceServed(p)'
  <2> SUFFICES ASSUME NEW p \in Principals, p # r PROVE PlaceServed(p)'
    OBVIOUS
  <2>1. z.generation[p] = s.generation[p]
    BY <1>2, <1>8 DEF OthersKept
  <2>2. Served(s, z, p)
    <3>1. CASE p \in Guests
      BY <1>2, <1>8, <3>1 DEF OthersKept, Served
    <3>2. CASE p \in Primaries
      <4>1. p = Opposite(r)
        BY <3>2, PrimaryFacts
      <4>2. CASE AdmissionFailed(s, t)
        BY <1>8, <3>2, <4>2 DEF AdmissionFailed, Served
      <4>3. CASE AdmissionDone(s, t, r)
        BY <1>8, <4>1, <4>3 DEF AdmissionDone, Served
      <4> QED BY <1>2, <4>2, <4>3
    <3> QED BY <3>1, <3>2 DEF Principals
  <2>3. task'[p] = task[p]
    BY <1>9
  <2> QED BY <1>1, <1>3, <2>1, <2>2, <2>3, StillServed DEF SignalInv, TasksInv, s, z
<1>11. PlaceServed(r)'
  <2>1. z.generation[r] <= MaxSockets[r]
    BY <1>2, <1>3, <1>4, <1>8 DEF OthersKept
  <2>2. CASE AdmissionFailed(s, t)
    <3>1. z.sender[r] = None /\ r \in z.closed
      BY <1>8, <2>2 DEF AdmissionFailed
    <3> QED BY <2>1, <3>1, PrimaryFacts DEF PlaceServed, Sockets, z
  <2>3. CASE AdmissionDone(s, t, r)
    <3>1. z.sender[r] = z.generation[r] /\ task'[r][z.generation[r]] = "running"
      BY <1>8, <1>9, <2>3 DEF AdmissionDone
    <3> QED BY <2>1, <3>1 DEF PlaceServed, Sockets, z
  <2> QED BY <1>2, <2>2, <2>3
<1>12. a /\ b => z.sender[r] = z.generation[r]
  BY <1>2, <1>8 DEF AdmissionDone
<1>13. live' \in BOOLEAN
  BY <1>1, <1>3
<1> QED BY <1>8, <1>9, <1>10, <1>11, <1>12, <1>13 DEF SignalInv, Types, TasksInv, z

\* A guest connects.
LEMMA ConnectGuestKeeps ==
  ASSUME SignalInv, NEW g \in Guests, ConnectGuest(g)
  PROVE  SignalInv'
<1> DEFINE s == session
           z == session'
<1>1. /\ s \in SessionType /\ SessionInv(s) /\ TaskTypes /\ live /\ live' = live
      /\ g \in Admitted(s) /\ z = AdmitGuest(s, g) /\ s.generation[g] < MaxSockets[g]
      /\ task' = [task EXCEPT ![g][z.generation[g]] = "running"]
  BY DEF SignalInv, Types, ConnectGuest
<1>2. g \in Principals /\ s.generation[g] \in Nat /\ MaxSockets[g] \in Nat
  BY <1>1, PrimaryFacts, SignalAssumption DEF SessionType
<1> HIDE DEF s, z
<1>3. /\ z \in SessionType /\ SessionInv(z)
      /\ z.generation = [s.generation EXCEPT ![g] = s.generation[g] + 1]
      /\ z.sender = [s.sender EXCEPT ![g] = s.generation[g] + 1]
      /\ z.closed = s.closed \ {g}
  BY <1>1, AdmitGuestKeeps
<1>4. /\ z.generation[g] = s.generation[g] + 1 /\ z.sender[g] = z.generation[g]
      /\ \A p \in Principals : p # g => /\ z.generation[p] = s.generation[p]
                                        /\ z.sender[p] = s.sender[p]
                                        /\ p \in s.closed => p \in z.closed
  BY <1>1, <1>2, <1>3 DEF SessionType
<1>5. z.generation[g] \in Sockets(g)
  BY <1>1, <1>2, <1>4 DEF Sockets
<1>6. /\ TaskTypes'
      /\ task'[g][z.generation[g]] = "running"
      /\ \A p \in Principals : p # g => task'[p] = task[p]
  BY <1>1, <1>2, <1>5, OneTaskMoves
<1>7. \A p \in Principals : p # g => PlaceServed(p)'
  <2> SUFFICES ASSUME NEW p \in Principals, p # g PROVE PlaceServed(p)'
    OBVIOUS
  <2>1. z.generation[p] = s.generation[p] /\ Served(s, z, p)
    BY <1>4 DEF Served
  <2> QED BY <1>1, <1>6, <2>1, StillServed DEF SignalInv, TasksInv, s, z
<1>8. PlaceServed(g)'
  BY <1>1, <1>2, <1>4, <1>6 DEF PlaceServed, Sockets, z
<1>9. live' \in BOOLEAN
  BY <1>1
<1> QED BY <1>3, <1>6, <1>7, <1>8, <1>9 DEF SignalInv, Types, TasksInv, z

\* A task leaves its loop.
LEMMA BreakKeeps ==
  ASSUME SignalInv, NEW p \in Principals, NEW n \in Sockets(p), Break(p, n)
  PROVE  SignalInv'
<1>1. /\ TaskTypes /\ live' = live /\ session' = session /\ task[p][n] = "running"
      /\ task' = [task EXCEPT ![p][n] = "leaving"]
  BY DEF SignalInv, Types, Break
<1>2. /\ TaskTypes' /\ task'[p][n] = "leaving"
      /\ \A m \in Sockets(p) : m # n => task'[p][m] = task[p][m]
      /\ \A q \in Principals : q # p => task'[q] = task[q]
  BY <1>1, OneTaskMoves
<1>3. \A q \in Principals : PlaceServed(q)'
  <2> SUFFICES ASSUME NEW q \in Principals PROVE PlaceServed(q)'
    OBVIOUS
  <2>1. CASE q = p
    BY <1>1, <1>2, <2>1 DEF SignalInv, TasksInv, PlaceServed, Sockets
  <2>2. CASE q # p
    BY <1>1, <1>2, <2>2 DEF SignalInv, TasksInv, PlaceServed, Sockets
  <2> QED BY <2>1, <2>2
<1>4. Types' /\ SessionInv(session')
  BY <1>1, <1>2 DEF SignalInv, Types
<1> QED BY <1>3, <1>4 DEF SignalInv, TasksInv

\* A guest that is not admitted any more, or an older connection, has no place.
LEMMA CleanedKeeps ==
  ASSUME NEW s \in SessionType, SessionInv(s), NEW p \in Principals, NEW n \in Nat,
         NEW takes \in BOOLEAN, NEW t, t = Cleaned(s, p, n, takes)
  PROVE  /\ t \in SessionType /\ SessionInv(t) /\ t.generation = s.generation
         /\ \A q \in Principals : q # p => Served(s, t, q)
         /\ t.sender[p] # n
         /\ s.generation[p] # n => t = s
<1>1. CASE s.generation[p] # n
  <2>1. t = s
    BY <1>1 DEF Cleaned
  <2>2. s.sender[p] # n
    BY <1>1, PrimaryFacts DEF SessionInv, SendersCurrent
  <2> QED BY <1>1, <2>1, <2>2 DEF Served
<1>2. CASE s.generation[p] = n /\ p \in Primaries
  <2>1. t = CleanedPrimary(s, p, takes)
    <3>1. p \notin Admitted(s)
      BY <1>2, SignalAssumption DEF Admitted, ToSet, SessionType
    <3> QED BY <1>2, <3>1 DEF Cleaned
  <2>2. /\ t \in SessionType /\ SessionInv(t) /\ t.generation = s.generation
        /\ t.sender[p] = None /\ \A q \in Principals : q # p => Served(s, t, q)
    BY <1>2, <2>1, CleanedPrimaryKeeps
  <2> QED BY <1>2, <2>2, PrimaryFacts
<1>3. CASE s.generation[p] = n /\ p \notin Primaries /\ p \in Admitted(s)
  <2>1. t = CleanedGuest(s, p)
    BY <1>3 DEF Cleaned
  <2> DEFINE e == [s EXCEPT !.sender[p] = None, !.active = @ \ {p}]
             sender == [s.sender EXCEPT ![p] = None]
             active == s.active \ {p}
  <2>2. t = IF p \in s.active THEN Promoted(ClearRelayOwner(e, p)) ELSE ClearRelayOwner(e, p)
    BY <2>1 DEF CleanedGuest
  <2>3. e = [s EXCEPT !.sender = sender, !.active = active]
    OBVIOUS
  <2>4. sender \in [Principals -> Nat \cup {None}] /\ active \in SUBSET Guests
    BY DEF SessionType
  <2> HIDE DEF e, sender, active
  <2>5. e \in SessionType
    BY <2>3, <2>4 DEF SessionType
  <2>6. /\ e.sender = sender /\ e.active = active /\ e.generation = s.generation
        /\ e.told = s.told /\ e.ready = s.ready /\ e.relay = s.relay
        /\ e.guests = s.guests /\ e.closed = s.closed
    BY <2>3 DEF SessionType
  <2>7. IsLeft(s, p, e)
    BY <2>6 DEF IsLeft, sender, active
  <2>8. p \in Guests
    BY <1>3 DEF Principals
  <2>9. /\ t \in SessionType /\ SessionInv(t) /\ t.generation = s.generation
        /\ t.closed = e.closed /\ t.sender[p] = None
        /\ \A q \in Principals : q # p => t.sender[q] = s.sender[q]
    BY <2>2, <2>5, <2>7, <2>8, LeftGuestKeeps
  <2> QED BY <1>3, <2>6, <2>9, PrimaryFacts DEF Served
<1>4. CASE s.generation[p] = n /\ p \notin Primaries /\ p \notin Admitted(s)
  <2>1. t = s
    BY <1>4 DEF Cleaned
  <2>2. s.sender[p] = None
    BY <1>4 DEF SessionInv, SendersCurrent, Principals
  <2> QED BY <1>4, <2>1, <2>2, PrimaryFacts DEF Served
<1> QED BY <1>1, <1>2, <1>3, <1>4

\* A task cleans up after its connection.
LEMMA CleanupKeeps ==
  ASSUME SignalInv, NEW p \in Principals, NEW n \in Sockets(p), NEW takes \in BOOLEAN,
         Cleanup(p, n, takes)
  PROVE  SignalInv'
<1> DEFINE s == session
           z == session'
<1>1. /\ s \in SessionType /\ SessionInv(s) /\ TaskTypes /\ live' = live /\ live \in BOOLEAN
      /\ z = (IF live THEN Cleaned(s, p, n, takes) ELSE s) /\ task[p][n] = "leaving"
      /\ task' = [task EXCEPT ![p][n] = "over"]
  BY DEF SignalInv, Types, Cleanup
<1> HIDE DEF s, z
<1>2. n \in Nat
  BY SignalAssumption DEF Sockets
<1>3. /\ TaskTypes' /\ task'[p][n] = "over"
      /\ \A m \in Sockets(p) : m # n => task'[p][m] = task[p][m]
      /\ \A q \in Principals : q # p => task'[q] = task[q]
  <2>1. TaskTypes /\ task' = [task EXCEPT ![p][n] = "over"]
    BY <1>1
  <2> QED BY <2>1, OneTaskMoves
<1>4. CASE live
  <2>1. z = Cleaned(s, p, n, takes)
    BY <1>1, <1>4
  <2>2. /\ z \in SessionType /\ SessionInv(z) /\ z.generation = s.generation
        /\ \A q \in Principals : q # p => Served(s, z, q)
        /\ z.sender[p] # n
        /\ s.generation[p] # n => z = s
    BY <1>1, <1>2, <2>1, CleanedKeeps
  <2>3. \A q \in Principals : q # p => PlaceServed(q)'
    <3> SUFFICES ASSUME NEW q \in Principals, q # p PROVE PlaceServed(q)'
      OBVIOUS
    <3>1. z.generation[q] = s.generation[q] /\ Served(s, z, q) /\ task'[q] = task[q]
      BY <1>3, <2>2
    <3> QED BY <1>1, <1>4, <3>1, StillServed DEF SignalInv, Types, TasksInv, s, z
  <2>4. PlaceServed(p)
    BY DEF SignalInv, TasksInv
  <2>5. PlaceServed(p)'
    <3>1. z.generation[p] <= MaxSockets[p]
      BY <2>2, <2>4 DEF PlaceServed, s
    <3>2. ASSUME NEW m \in Sockets(p), z.sender[p] = m
          PROVE  task'[p][m] \in {"running", "leaving"}
      <4>1. m # n
        BY <2>2, <3>2
      <4>2. m \in Nat
        BY SignalAssumption DEF Sockets
      <4>3. z.sender[p] = z.generation[p]
        BY <2>2, <3>2, <4>2, PrimaryFacts DEF SessionInv, SendersCurrent
      <4>4. z = s
        BY <2>2, <3>2, <4>1, <4>3
      <4> QED BY <1>3, <1>4, <2>4, <3>2, <4>1, <4>4 DEF PlaceServed, s
    <3>3. ASSUME NEW m \in Sockets(p), m = z.generation[p], task'[p][m] = "running", p \notin z.closed
          PROVE  z.sender[p] = m
      <4>1. m # n
        BY <1>3, <3>3
      <4>2. z = s
        BY <2>2, <3>3, <4>1
      <4>3. task[p][m] = "running"
        BY <1>3, <3>3, <4>1
      <4> QED BY <1>4, <2>4, <3>3, <4>2, <4>3 DEF PlaceServed, s
    <3> QED BY <3>1, <3>2, <3>3 DEF PlaceServed, Sockets, z
  <2>6. live' \in BOOLEAN
    BY <1>1
  <2> QED BY <1>3, <2>2, <2>3, <2>5, <2>6 DEF SignalInv, Types, TasksInv, z
<1>5. CASE ~ live
  <2>1. z = s /\ ~ live' /\ live' \in BOOLEAN
    BY <1>1, <1>5
  <2>2. \A q \in Principals : PlaceServed(q)'
    BY <2>1 DEF SignalInv, TasksInv, PlaceServed, s, z
  <2> QED BY <1>1, <1>3, <2>1, <2>2 DEF SignalInv, Types, TasksInv, z
<1> QED BY <1>1, <1>4, <1>5

\* A step that changes neither a sender, a generation nor a task.
LEMMA QuietKeeps ==
  ASSUME SignalInv, session' \in SessionType, SessionInv(session'), live, live' = live,
         session'.sender = session.sender, session'.generation = session.generation,
         session'.closed = session.closed, task' = task
  PROVE  SignalInv'
<1>1. TaskTypes'
  BY DEF SignalInv, Types, TaskTypes, Sockets
<1>2. \A p \in Principals : PlaceServed(p)'
  BY DEF SignalInv, TasksInv, PlaceServed, Sockets
<1>3. live' \in BOOLEAN
  BY DEF SignalInv, Types
<1> QED BY <1>1, <1>2, <1>3 DEF SignalInv, Types, TasksInv

\* A message waits for a role that is not there.
LEMMA QueueGenericKeeps ==
  ASSUME SignalInv, NEW p \in Principals, NEW n \in Sockets(p), QueueGeneric(p, n)
  PROVE  SignalInv'
<1> DEFINE to == Opposite(RelayRole(p))
           pending == [session.pending EXCEPT ![to] = session.pending[to] + 1]
<1>1. /\ live /\ live' = live /\ task' = task /\ session.pending[to] < MaxPending
      /\ session' = [session EXCEPT !.pending = pending]
  BY DEF QueueGeneric
<1>2. to \in Primaries /\ session \in SessionType /\ SessionInv(session)
  BY PrimaryFacts DEF SignalInv, Types
<1> HIDE DEF to
<1>3. pending \in [Primaries -> 0 .. MaxPending]
  BY <1>1, <1>2, SignalAssumption DEF SessionType
<1> HIDE DEF pending
<1>4. session' \in SessionType
  BY <1>1, <1>2, <1>3 DEF SessionType
<1>5. /\ session'.sender = session.sender /\ session'.generation = session.generation
      /\ session'.told = session.told /\ session'.closed = session.closed
      /\ session'.ready = session.ready /\ session'.relay = session.relay
      /\ session'.guests = session.guests /\ session'.active = session.active
  BY <1>1, <1>2 DEF SessionType
<1>6. SessionInv(session')
  <2>1. SendersCurrent(session') /\ OneBridged(session')
    BY <1>2, <1>5 DEF SessionInv, SendersCurrent, OneBridged, Admitted
  <2>2. ReadyIsPublished(session') /\ ToldIsReady(session')
    BY <1>2, <1>5 DEF SessionInv, ReadyIsPublished, ToldIsReady
  <2>3. RelaysCurrent(session')
    BY <1>2, <1>5 DEF SessionInv, RelaysCurrent, TicketIsCurrent
  <2> QED BY <1>2, <1>5, <2>1, <2>2, <2>3 DEF SessionInv
<1> QED BY <1>1, <1>4, <1>5, <1>6, QuietKeeps

\* A guest is admitted.
LEMMA CreateGuestKeeps ==
  ASSUME SignalInv, NEW g \in Guests, CreateGuest(g)
  PROVE  SignalInv'
<1> DEFINE guests == Append(session.guests, g)
<1>1. /\ live /\ live' = live /\ task' = task
      /\ session' = [session EXCEPT !.guests = guests]
  BY DEF CreateGuest
<1>2. session \in SessionType /\ SessionInv(session)
  BY DEF SignalInv, Types
<1>3. session.guests \in Seq(Guests)
  BY <1>2 DEF SessionType
<1>4. guests \in Seq(Guests) /\ \A i \in DOMAIN session.guests :
                                   i \in DOMAIN guests /\ guests[i] = session.guests[i]
  BY <1>3
<1> HIDE DEF guests
<1>5. session' \in SessionType
  BY <1>1, <1>2, <1>4 DEF SessionType
<1>6. /\ session'.sender = session.sender /\ session'.generation = session.generation
      /\ session'.told = session.told /\ session'.closed = session.closed
      /\ session'.ready = session.ready /\ session'.relay = session.relay
      /\ session'.guests = guests /\ session'.active = session.active
  BY <1>1, <1>2 DEF SessionType
<1>7. \A p \in Admitted(session) : p \in Admitted(session')
  BY <1>4, <1>6 DEF Admitted, ToSet
<1>8. SendersCurrent(session')
  BY <1>2, <1>6, <1>7 DEF SessionInv, SendersCurrent
<1>9. SessionInv(session')
  BY <1>2, <1>6, <1>8 DEF SessionInv, ReadyIsPublished, ToldIsReady, OneBridged,
                          RelaysCurrent, TicketIsCurrent
<1> QED BY <1>1, <1>5, <1>6, <1>9, QuietKeeps

\* A guest is kicked out: its place, its slots and its entry go together.
LEMMA KickGuestKeeps ==
  ASSUME SignalInv, NEW g \in Guests, KickGuest(g)
  PROVE  SignalInv'
<1> DEFINE s == session
           z == session'
           position == CHOOSE i \in DOMAIN s.guests : s.guests[i] = g
           guests == RemoveAt(s.guests, position)
           sender == [s.sender EXCEPT ![g] = None]
           active == s.active \ {g}
           closed == s.closed \cup {g}
           e == [s EXCEPT !.guests = guests, !.active = active, !.sender = sender,
                          !.closed = closed]
<1>1. /\ live /\ live' = live /\ task' = task /\ g \in Admitted(s)
      /\ z = IF g \in s.active THEN Promoted(ClearRelayOwner(e, g)) ELSE ClearRelayOwner(e, g)
  BY DEF KickGuest
<1>2. s \in SessionType /\ SessionInv(s) /\ g \in Principals
  BY PrimaryFacts DEF SignalInv, Types
<1> HIDE DEF s, z
<1>3. position \in DOMAIN s.guests /\ s.guests[position] = g
  BY <1>1 DEF Admitted, ToSet
<1> HIDE DEF position
<1>4. s.guests \in Seq(Guests)
  BY <1>2 DEF SessionType
<1>5. /\ guests \in Seq(Guests)
      /\ \A k \in DOMAIN s.guests : k # position =>
            \E j \in DOMAIN guests : guests[j] = s.guests[k]
  BY <1>3, <1>4, RemoveAtKeeps
<1>6. sender \in [Principals -> Nat \cup {None}] /\ active \in SUBSET Guests
      /\ closed \in SUBSET Principals
  BY <1>2 DEF SessionType
<1> HIDE DEF guests, sender, active, closed
<1>7. e \in SessionType
  BY <1>2, <1>5, <1>6 DEF SessionType
<1>8. /\ e.sender = sender /\ e.active = active /\ e.generation = s.generation
      /\ e.told = s.told /\ e.ready = s.ready /\ e.relay = s.relay
      /\ e.guests = guests /\ e.closed = closed
  BY <1>2 DEF SessionType
<1> HIDE DEF e
<1>9. IsLeft(s, g, e)
  <2>1. \A i \in DOMAIN s.guests :
           s.guests[i] # g => \E j \in DOMAIN guests : guests[j] = s.guests[i]
    BY <1>3, <1>5
  <2> QED BY <1>8, <2>1 DEF IsLeft, sender, active
<1>10. /\ z \in SessionType /\ SessionInv(z) /\ z.generation = s.generation
       /\ z.closed = e.closed /\ z.sender[g] = None
       /\ \A q \in Principals : q # g => z.sender[q] = s.sender[q]
  BY <1>1, <1>2, <1>7, <1>9, LeftGuestKeeps
<1>11. \A p \in Principals : Served(s, z, p)
  BY <1>8, <1>10 DEF Served, closed
<1>12. \A p \in Principals : PlaceServed(p)'
  <2> SUFFICES ASSUME NEW p \in Principals PROVE PlaceServed(p)'
    OBVIOUS
  <2>1. z.generation[p] = s.generation[p] /\ Served(s, z, p)
    BY <1>10, <1>11
  <2> QED BY <1>1, <2>1, StillServed DEF SignalInv, TasksInv, s, z
<1>13. TaskTypes' /\ live' \in BOOLEAN
  BY <1>1 DEF SignalInv, Types, TaskTypes, Sockets
<1> QED BY <1>10, <1>12, <1>13 DEF SignalInv, Types, TasksInv, z

\* A slot is given to the current connection of its owner, or taken away.
LEMMA RelayStepKeeps ==
  ASSUME SignalInv, live, live' = live, task' = task,
         NEW r \in Primaries, NEW slot \in RelaySlot \cup {None},
         slot # None => TicketIsCurrent(session, slot.owner, slot.generation),
         session' = [session EXCEPT !.relay[r] = slot]
  PROVE  SignalInv'
<1> DEFINE relay == [session.relay EXCEPT ![r] = slot]
<1>1. session' = [session EXCEPT !.relay = relay]
  OBVIOUS
<1>2. session \in SessionType /\ SessionInv(session)
  BY DEF SignalInv, Types
<1>3. /\ relay \in [Primaries -> RelaySlot \cup {None}]
      /\ relay[r] = slot /\ \A q \in Primaries : q # r => relay[q] = session.relay[q]
  BY <1>2 DEF SessionType
<1> HIDE DEF relay
<1>4. session' \in SessionType
  BY <1>1, <1>2, <1>3 DEF SessionType
<1>5. /\ session'.sender = session.sender /\ session'.generation = session.generation
      /\ session'.told = session.told /\ session'.closed = session.closed
      /\ session'.ready = session.ready /\ session'.relay = relay
      /\ session'.guests = session.guests /\ session'.active = session.active
  BY <1>1, <1>2 DEF SessionType
<1>6. RelaysCurrent(session')
  <2> SUFFICES ASSUME NEW q \in Primaries, relay[q] # None
               PROVE  TicketIsCurrent(session, relay[q].owner, relay[q].generation)
    BY <1>5 DEF RelaysCurrent, TicketIsCurrent
  <2>1. CASE q = r
    BY <1>3, <2>1
  <2>2. CASE q # r
    BY <1>2, <1>3, <2>2 DEF SessionInv, RelaysCurrent
  <2> QED BY <2>1, <2>2
<1>7. SessionInv(session')
  BY <1>2, <1>5, <1>6 DEF SessionInv, SendersCurrent, ReadyIsPublished, ToldIsReady,
                          OneBridged, Admitted
<1> QED BY <1>4, <1>5, <1>7, QuietKeeps

\* A revocation leaves a new session that nobody is in.
LEMMA RevokeKeeps ==
  ASSUME SignalInv, Revoke
  PROVE  SignalInv'
<1>1. live' = FALSE /\ session' = NewSession /\ task' = task
  BY DEF Revoke
<1>2. session' \in SessionType /\ SessionInv(session')
  BY <1>1, NewSessionFacts
<1>3. \A p \in Principals : session'.generation[p] = 0 /\ MaxSockets[p] \in Nat
  BY <1>1, SignalAssumption DEF NewSession
<1>4. \A p \in Principals : PlaceServed(p)'
  BY <1>1, <1>3 DEF PlaceServed
<1>5. TaskTypes'
  BY <1>1 DEF SignalInv, Types, TaskTypes, Sockets
<1> QED BY <1>1, <1>2, <1>4, <1>5 DEF SignalInv, Types, TasksInv

-----------------------------------------------------------------------------
(* The theorems. *)

\* Every step keeps the invariant.
LEMMA NextSignalInv == SignalInv /\ [Next]_vars => SignalInv'
<1> SUFFICES ASSUME SignalInv, [Next]_vars PROVE SignalInv'
  OBVIOUS
<1>1. CASE \E r \in Primaries, a, b \in BOOLEAN : ConnectPrimary(r, a, b)
  BY <1>1, ConnectPrimaryKeeps
<1>2. CASE \E g \in Guests : ConnectGuest(g) \/ CreateGuest(g) \/ KickGuest(g)
  BY <1>2, ConnectGuestKeeps, CreateGuestKeeps, KickGuestKeeps
<1>3. ASSUME NEW p \in Principals, NEW n \in Sockets(p),
             \/ Break(p, n)
             \/ \E takes \in BOOLEAN : Cleanup(p, n, takes)
             \/ QueueGeneric(p, n)
             \/ RegisterRelay(p, n)
      PROVE  SignalInv'
  <2>1. CASE Break(p, n)
    BY <2>1, BreakKeeps
  <2>2. CASE \E takes \in BOOLEAN : Cleanup(p, n, takes)
    BY <2>2, CleanupKeeps
  <2>3. CASE QueueGeneric(p, n)
    BY <2>3, QueueGenericKeeps
  <2>4. CASE RegisterRelay(p, n)
    <3> DEFINE slot == [owner |-> p, generation |-> n]
    <3>1. /\ live /\ live' = live /\ task' = task /\ TicketIsCurrent(session, p, n)
          /\ session' = [session EXCEPT !.relay[RelayRole(p)] = slot]
      BY <2>4 DEF RegisterRelay
    <3>2. slot \in RelaySlot \cup {None} /\ slot.owner = p /\ slot.generation = n
      BY SignalAssumption DEF RelaySlot, Sockets
    <3>3. RelayRole(p) \in Primaries
      BY PrimaryFacts
    <3> HIDE DEF slot
    <3> QED BY <3>1, <3>2, <3>3, RelayStepKeeps
  <2> QED BY <1>3, <2>1, <2>2, <2>3, <2>4
<1>4. CASE \E r \in Primaries : ReleaseRelay(r)
  <2>1. PICK r \in Primaries : ReleaseRelay(r)
    BY <1>4
  <2>2. /\ live /\ live' = live /\ task' = task
        /\ session' = [session EXCEPT !.relay[r] = None]
    BY <2>1 DEF ReleaseRelay
  <2> QED BY <2>2, RelayStepKeeps
<1>5. CASE Revoke
  BY <1>5, RevokeKeeps
<1>6. CASE UNCHANGED vars
  BY <1>6 DEF vars, SignalInv, Types, TaskTypes, TasksInv, PlaceServed, Sockets
<1> QED BY <1>1, <1>2, <1>3, <1>4, <1>5, <1>6 DEF Next

\* The inductive invariant of a session of the signal server.
THEOREM SignalInvariance == Spec => []SignalInv
BY InitSignalInv, NextSignalInv, PTL DEF Spec

\* A published connection has a task that will clean up after it, and the
\* latest connection of a principal, while its task runs and the server has
\* not closed it, is published: no cleanup of an older one removes it
\* (handle_socket).
THEOREM PublishedIsServedHolds == Spec => []PublishedIsServed
<1>1. SignalInv => PublishedIsServed
  BY DEF SignalInv, TasksInv, PlaceServed, PublishedIsServed
<1> QED BY <1>1, SignalInvariance, PTL

\* The client excludes a bridged guest, one guest is bridged at a time, and a
\* relay slot belongs to a connection that is current and, if a guest's,
\* bridged (clear_relay_owner, take_promotion_sender).
THEOREM RelayFollowsOwnerHolds == Spec => []RelayFollowsOwner
<1>1. SignalInv => RelayFollowsOwner
  BY DEF SignalInv, SessionInv, OneBridged, RelaysCurrent, RelayFollowsOwner
<1> QED BY <1>1, SignalInvariance, PTL

\* A ready pair is the published one, each end is in exactly its epoch, and a
\* direct message is forwarded only within the epoch both ends are in
\* (publish_ready, invalidate_ready_epoch, direct_message_route).
THEOREM PairSharesEpochHolds == Spec => []PairSharesEpoch
<1>1. SignalInv => PairSharesEpoch
  <2> SUFFICES ASSUME SignalInv PROVE PairSharesEpoch
    OBVIOUS
  <2>1. session \in SessionType /\ ReadyIsPublished(session) /\ ToldIsReady(session)
    BY DEF SignalInv, Types, SessionInv
  <2>2. session.ready # None => \A r \in Primaries : session.sender[r] # None
    <3> SUFFICES ASSUME session.ready # None, NEW r \in Primaries
                 PROVE  session.sender[r] # None
      OBVIOUS
    <3>1. session.ready \in ReadyPair
      BY <2>1 DEF SessionType
    <3>2. session.ready[r] \in Nat
      BY <3>1 DEF ReadyPair, Primaries
    <3> QED BY <2>1, <3>2, PrimaryFacts DEF ReadyIsPublished
  <2>3. ASSUME NEW r \in Primaries, NEW n \in Sockets(r), NEW e \in 0 .. session.establishment,
               DirectForwards(session, r, n, e), NEW q \in Primaries
        PROVE  session.told[q] = {e}
    BY <2>1, <2>2, <2>3 DEF DirectForwards, ToldIsReady
  <2> QED BY <2>1, <2>3 DEF PairSharesEpoch, ReadyIsPublished, ToldIsReady
<1> QED BY <1>1, SignalInvariance, PTL

\* A reconnect whose counterpart takes its notices always ends published: the
\* queue of the new connection has room for its proof, a full pending queue
\* and the readiness (MAX_OUTBOUND_MESSAGES).
THEOREM FreshSocketFitsHolds == Spec => FreshSocketFits
<1>1. SignalInv /\ [Next]_vars =>
        [\A r \in Primaries :
           ConnectPrimary(r, TRUE, TRUE) => session'.sender[r] = session'.generation[r]]_vars
  BY ConnectPrimaryKeeps
<1> QED BY <1>1, SignalInvariance, PTL DEF Spec, FreshSocketFits

=============================================================================
