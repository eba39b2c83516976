---------------------------- MODULE SignalSession ----------------------------
(***************************************************************************)
(* One session of the signal server: the host's and the client's sockets,  *)
(* the guests that wait for the client's place, the establishment epoch    *)
(* published to the pair, and the two relay slots.                         *)
(*                                                                         *)
(* Every step below is one critical section of the session map's lock.  A  *)
(* connection is a task that outlives its place in the session: it breaks  *)
(* out of its loop when it likes, or when it is cancelled, and cleans up   *)
(* in a critical section of its own, after any number of others.           *)
(*                                                                         *)
(* The outbound queue of a connection is bounded.  What waits in that of   *)
(* an established one depends on its writer and on the traffic, so that a  *)
(* try_send to it may fail at any time; that of a connection being         *)
(* admitted is empty, and is counted.                                      *)
(***************************************************************************)
EXTENDS Integers, Sequences, SequencesExt

CONSTANTS
    None,              \* an absent value
    Guests,            \* the identities guests may be given
    MaxPending,        \* MAX_PENDING_MESSAGES
    MaxSockets         \* bound: by principal, its connections

Primaries == {"host", "client"}

Principals == Primaries \cup Guests

Opposite(r) == IF r = "host" THEN "client" ELSE "host"

RelaySlot == [owner : Principals, generation : Nat]

ReadyPair == [establishment : Nat, host : Nat, client : Nat]

ASSUME SignalAssumption ==
    /\ MaxPending \in Nat
    /\ MaxSockets \in [Principals -> Nat]
    /\ Guests \cap Primaries = {}
    /\ None \notin Nat \cup Principals \cup RelaySlot \cup ReadyPair

VARIABLES
    live,              \* the session is in the map
    session,           \* the Session
    task               \* by principal and generation, the connection's task

vars == <<live, session, task>>

Sockets(p) == 1 .. MaxSockets[p]

-----------------------------------------------------------------------------
(* Session.  sender[p] is the generation of the published connection, or    *)
(* None; told[p] the epochs that connection was sent a readiness of and no  *)
(* reset; closed holds whose latest connection the server has closed;       *)
(* pending[r] is how many messages wait for role r.                         *)

NewSession ==
    [sender |-> [p \in Principals |-> None],
     generation |-> [p \in Principals |-> 0],
     told |-> [p \in Principals |-> {}],
     closed |-> {},
     establishment |-> 0,
     ready |-> None,
     pending |-> [r \in Primaries |-> 0],
     relay |-> [r \in Primaries |-> None],
     guests |-> <<>>,
     active |-> {}]

Admitted(s) == ToSet(s.guests)

(* Mutant: no place for the relay proof. *)
OutboundCapacityShort == MaxPending + 2

(* MAX_OUTBOUND_MESSAGES *)
OutboundCapacity == MaxPending + 3

ClearRelayOwner(s, p) ==
    [s EXCEPT !.relay = [r \in Primaries |->
        IF @[r] # None /\ @[r].owner = p THEN None ELSE @[r]]]

ClosePrimaryPair(s) ==
    [ClearRelayOwner(ClearRelayOwner(s, "host"), "client") EXCEPT
        !.sender = [p \in Principals |-> IF p \in Primaries THEN None ELSE @[p]],
        !.closed = @ \cup Primaries,
        !.ready = None]

(* publish_ready: both connections take the two notices of the next epoch, *)
(* or the pair is closed and the epoch is burnt.                           *)
PublishReady(s, hostTakes, clientTakes) ==
    LET epoch == s.establishment + 1
        next == [s EXCEPT !.establishment = epoch, !.ready = None]
    IN  IF hostTakes /\ clientTakes
        THEN [next EXCEPT !.ready = [establishment |-> epoch,
                                     host |-> s.generation["host"],
                                     client |-> s.generation["client"]],
                          !.told = [p \in Principals |-> 
                              @[p] \cup IF p \in Primaries THEN {epoch} ELSE {}]]
        ELSE ClosePrimaryPair(next)

(* Mutant: the survivor is not told. *)
InvalidateReadySilently(s, survivor, takes) == [s EXCEPT !.ready = None]

(* invalidate_ready_epoch: the survivor takes the two resets, or both go. *)
InvalidateReady(s, survivor, takes) ==
    LET next == [s EXCEPT !.ready = None]
    IN  CASE s.ready = None \/ survivor = None \/ s.sender[survivor] = None -> next
          [] OTHER -> IF takes THEN [next EXCEPT !.told[survivor] = @ \ {s.ready.establishment}]
                      ELSE ClosePrimaryPair(next)

(* The reset of the survivor is refused: admission and cleanup fail closed. *)
ResetRefused(s, survivor, takes) ==
    s.ready # None /\ s.sender[survivor] # None /\ ~takes

(* take_promotion_sender: the first guest that is connected and parked. *)
Promoted(s) ==
    LET parked == {i \in DOMAIN s.guests :
                    s.sender[s.guests[i]] # None /\ s.guests[i] \notin s.active}
    IN  IF parked = {} THEN s
        ELSE [s EXCEPT !.active = @ \cup {s.guests[CHOOSE i \in parked : \A j \in parked : i <= j]}]

(* A new connection of p in place of the old one, with its relay proof. *)
Installed(s, p) ==
    [ClearRelayOwner(s, p) EXCEPT !.generation[p] = @ + 1,
                                  !.sender[p] = s.generation[p] + 1,
                                  !.told[p] = {},
                                  !.closed = @ \ {p}]

(* admit_primary_socket from the point where the new connection is in place: *)
(* the proof and the pending messages go to its empty queue, then readiness. *)
Welcomed(s, r, peerTakes) ==
    LET room == OutboundCapacity - 1 - s.pending[r]
        drained == [s EXCEPT !.pending[r] = 0]
        fits == room >= 2
    IN  CASE room < 0 ->
               ClosePrimaryPair([s EXCEPT !.pending[r] = @ - (OutboundCapacity - 1)])
          [] room >= 0 /\ s.sender[Opposite(r)] = None -> drained
          [] OTHER ->
               IF r = "host" THEN PublishReady(drained, fits, peerTakes)
               ELSE PublishReady(drained, peerTakes, fits)

(* admit_primary_socket; resetTakes and readyTakes are what the other role's *)
(* queue has room for.                                                       *)
AdmitPrimary(s, r, resetTakes, readyTakes) ==
    LET replacing == s.sender[r] # None
        before == IF replacing THEN InvalidateReady(s, Opposite(r), resetTakes) ELSE s
    IN  IF replacing /\ ResetRefused(s, Opposite(r), resetTakes)
        THEN before
        ELSE Welcomed(Installed(before, r), r, readyTakes)

(* Mutant: the parked guest keeps its relay slot. *)
ParkedOnly(s) ==
    IF s.active = {} THEN s ELSE [s EXCEPT !.active = @ \ {CHOOSE g \in s.active : TRUE}]

(* A client in its place parks the guest that is bridged. *)
Parked(s) ==
    LET Park(t, g) == [ClearRelayOwner(t, g) EXCEPT !.active = @ \ {g}]
    IN  IF s.active = {} THEN s ELSE Park(s, CHOOSE g \in s.active : TRUE)

(* The guest branch of handle_socket's admission. *)
AdmitGuest(s, g) ==
    LET may == g \in s.active \/ (s.sender["client"] = None /\ s.active \ {g} = {})
    IN  [Installed(s, g) EXCEPT !.active = IF may THEN @ \cup {g} ELSE @ \ {g}]

(* cleanup_primary_socket and the relay slot, for the current connection. *)
CleanedPrimary(s, r, takes) ==
    LET left == [s EXCEPT !.sender[r] = None]
        survivor == CASE left.sender["host"] # None -> "host"
                      [] left.sender["client"] # None -> "client"
                      [] OTHER -> None
    IN  ClearRelayOwner(InvalidateReady(left, survivor, takes), r)

CleanedGuest(s, g) ==
    LET left == ClearRelayOwner([s EXCEPT !.sender[g] = None, !.active = @ \ {g}], g)
    IN  IF g \in s.active THEN Promoted(left) ELSE left

(* Mutant: any connection clears the place. *)
CleanedByAny(s, p, n, takes) ==
    CASE p \in Primaries -> CleanedPrimary(s, p, takes)
      [] p \in Admitted(s) -> CleanedGuest(s, p)
      [] OTHER -> s

(* The end of handle_socket: only the current connection clears its place. *)
Cleaned(s, p, n, takes) ==
    CASE s.generation[p] = n /\ p \in Primaries -> CleanedPrimary(s, p, takes)
      [] s.generation[p] = n /\ p \in Admitted(s) -> CleanedGuest(s, p)
      [] OTHER -> s

(* relay_owner_for_ticket of a ticket minted for connection n of p. *)
TicketIsCurrent(s, p, n) ==
    /\ s.sender[p] # None
    /\ s.generation[p] = n
    /\ p \in Guests => p \in s.active

RelayRole(p) == IF p = "host" THEN "host" ELSE "client"

(* direct_message_route of a message of epoch e from connection n of r. *)
DirectForwards(s, r, n, e) ==
    /\ s.generation[r] = n
    /\ s.ready # None
    /\ s.ready[r] = n
    /\ s.ready.establishment = e
    /\ s.sender[Opposite(r)] # None

-----------------------------------------------------------------------------
(* handle_socket of a host or a client.  A refused connection has no task.  *)
ConnectPrimary(r, resetTakes, readyTakes) ==
    LET admitted == AdmitPrimary(session, r, resetTakes, readyTakes)
        runs == admitted.generation[r] > session.generation[r] /\ admitted.sender[r] # None
    IN  /\ live
        /\ session.generation[r] < MaxSockets[r]
        /\ session' = IF r = "client" /\ runs THEN Parked(admitted) ELSE admitted
        /\ task' = IF runs THEN [task EXCEPT ![r][admitted.generation[r]] = "running"] ELSE task
        /\ UNCHANGED live

ConnectGuest(g) ==
    /\ live
    /\ g \in Admitted(session)
    /\ session.generation[g] < MaxSockets[g]
    /\ session' = AdmitGuest(session, g)
    /\ task' = [task EXCEPT ![g][session'.generation[g]] = "running"]
    /\ UNCHANGED live

(* The task leaves its loop: its peer or its writer is gone, a queue was     *)
(* full, a message broke the rules, or the session cancelled it.             *)
Break(p, n) ==
    /\ task[p][n] = "running"
    /\ task' = [task EXCEPT ![p][n] = "leaving"]
    /\ UNCHANGED <<live, session>>

Cleanup(p, n, takes) ==
    /\ task[p][n] = "leaving"
    /\ task' = [task EXCEPT ![p][n] = "over"]
    /\ session' = IF live THEN Cleaned(session, p, n, takes) ELSE session
    /\ UNCHANGED live

(* dispatch_generic_message from the current connection, with nobody to take *)
(* the message: it waits, unless the queue is full.                          *)
QueueGeneric(p, n) ==
    LET to == Opposite(RelayRole(p))
    IN  /\ live
        /\ task[p][n] = "running"
        /\ session.sender[p] = n /\ session.generation[p] = n
        /\ session.sender[to] = None
        /\ to = "client" => session.active = {}
        /\ session.pending[to] < MaxPending
        /\ session' = [session EXCEPT !.pending[to] = @ + 1]
        /\ UNCHANGED <<live, task>>

CreateGuest(g) ==
    /\ live
    /\ g \notin Admitted(session) /\ session.generation[g] = 0
    /\ session' = [session EXCEPT !.guests = Append(@, g)]
    /\ UNCHANGED <<live, task>>

KickGuest(g) ==
    LET position == CHOOSE i \in DOMAIN session.guests : session.guests[i] = g
        left == ClearRelayOwner([session EXCEPT !.guests = RemoveAt(@, position),
                                                !.active = @ \ {g}, !.sender[g] = None,
                                                !.closed = @ \cup {g}], g)
    IN  /\ live
        /\ g \in Admitted(session)
        /\ session' = IF g \in session.active THEN Promoted(left) ELSE left
        /\ UNCHANGED <<live, task>>

(* run_relay: a registration with a ticket that was minted for connection n. *)
RegisterRelay(p, n) ==
    /\ live
    /\ n \in 1 .. session.generation[p]
    /\ TicketIsCurrent(session, p, n)
    /\ session' = [session EXCEPT !.relay[RelayRole(p)] = [owner |-> p, generation |-> n]]
    /\ UNCHANGED <<live, task>>

(* An unregistration, the same address in another session, or idleness. *)
ReleaseRelay(r) ==
    /\ live
    /\ session.relay[r] # None
    /\ session' = [session EXCEPT !.relay[r] = None]
    /\ UNCHANGED <<live, task>>

(* Revocation and expiry take the session out of the map. *)
Revoke ==
    /\ live
    /\ live' = FALSE
    /\ session' = NewSession
    /\ UNCHANGED task

-----------------------------------------------------------------------------
Init ==
    /\ live = TRUE
    /\ session = NewSession
    /\ task = [p \in Principals |-> [n \in Sockets(p) |-> None]]

Next ==
    \/ \E r \in Primaries, resetTakes, readyTakes \in BOOLEAN :
          ConnectPrimary(r, resetTakes, readyTakes)
    \/ \E g \in Guests : ConnectGuest(g) \/ CreateGuest(g) \/ KickGuest(g)
    \/ \E p \in Principals : \E n \in Sockets(p) :
          \/ Break(p, n)
          \/ \E takes \in BOOLEAN : Cleanup(p, n, takes)
          \/ QueueGeneric(p, n)
          \/ RegisterRelay(p, n)
    \/ \E r \in Primaries : ReleaseRelay(r)
    \/ Revoke

Spec == Init /\ [][Next]_vars

-----------------------------------------------------------------------------
(* The two connections of a ready pair are the published ones, each was sent *)
(* the readiness of exactly that epoch, and outside a ready pair neither is  *)
(* left in an epoch: every readiness but the last has been reset, on both    *)
(* sides (publish_ready, invalidate_ready_epoch).  A direct message is       *)
(* therefore forwarded only within the epoch both ends are in.               *)
PairSharesEpoch ==
    /\ \A r \in Primaries :
          /\ session.ready # None => session.sender[r] = session.ready[r]
          /\ session.sender[r] # None =>
                session.told[r] = IF session.ready = None THEN {}
                                  ELSE {session.ready.establishment}
    /\ \A r \in Primaries : \A n \in Sockets(r), e \in 0 .. session.establishment :
          DirectForwards(session, r, n, e) =>
             \A q \in Primaries : session.told[q] = {e}

(* A published connection has a task that will clean up after it, so that no *)
(* dead sender blocks its place for ever; and the latest connection of a     *)
(* principal, while its task runs and the server has not closed it, is       *)
(* published: the cleanup of an older one never removes it (handle_socket).  *)
PublishedIsServed ==
    live => \A p \in Principals : \A n \in Sockets(p) :
        /\ session.sender[p] = n => task[p][n] \in {"running", "leaving"}
        /\ n = session.generation[p] /\ task[p][n] = "running" /\ p \notin session.closed =>
              session.sender[p] = n

(* "Two writers never race the host": the client excludes a bridged guest,   *)
(* one guest is bridged at a time, and a relay slot belongs to a connection  *)
(* that is current and, if a guest's, bridged (clear_relay_owner at every    *)
(* replacement, parking, kick and disconnect).                               *)
RelayFollowsOwner ==
    /\ \A g, h \in session.active : g = h /\ session.sender["client"] = None
    /\ \A r \in Primaries :
          LET slot == session.relay[r]
          IN  slot # None => TicketIsCurrent(session, slot.owner, slot.generation)

(* A reconnect is refused only because of the other connection: the empty    *)
(* queue of the new one has room for its proof, a full pending queue and the *)
(* readiness (MAX_OUTBOUND_MESSAGES).                                        *)
FreshSocketFits ==
    [][\A r \in Primaries :
          ConnectPrimary(r, TRUE, TRUE) => session'.sender[r] = session'.generation[r]]_vars

=============================================================================
