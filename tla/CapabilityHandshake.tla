------------------------- MODULE CapabilityHandshake -------------------------
(***************************************************************************)
(* The encrypted capability exchange that opens every session              *)
(* (PeerSession::negotiate_host, PeerSession::negotiate_client) followed   *)
(* by the session's own control traffic.                                   *)
(*                                                                         *)
(* Both halves run over ReliableControl, each with an instance of its own: *)
(* the negotiation drops its instance when it returns and the event loop   *)
(* of the host or the client creates a new one, whose sequence numbers     *)
(* start at zero again.  Frames carry no epoch, so one in flight across    *)
(* the change is handed to whichever instance its receiver has then.       *)
(*                                                                         *)
(* Datagrams are lost, delayed and reordered as in ReliableControl.  The   *)
(* two profiles of capabilities are compatible; if not, both peers reject  *)
(* them.  How a session ends on an error is the matter of ReliableControl. *)
(***************************************************************************)
EXTENDS ControlChannel, CapabilityPhases, Functions

CONSTANT MaxSession    \* bound: session messages each peer accepts

ASSUME BoundsAssumption == MaxSession \in Nat

Hello == <<"Hello", 0>>

HelloAck == <<"HelloAck", 0>>

SessionMessage(n) == <<"Session", n>>

VARIABLES
    control,       \* each peer's current ReliableControl
    wire,          \* bag of [to, frame] records in flight: copies by record
    accepted,      \* how many session messages each peer's window accepted
    delivered      \* the messages each peer's session has been handed

vars == <<phase, control, wire, accepted, delivered>>

Init ==
    /\ phase = [p \in Peers |-> IF p = "Host" THEN "Start" ELSE "AwaitHello"]
    /\ control = [p \in Peers |-> NewControl]
    /\ wire = EmptyMap
    /\ accepted = [p \in Peers |-> 0]
    /\ delivered = [p \in Peers |-> <<>>]

(* Send one call's frames. *)
Transmit(p, b, frames) == AddCopies(b, {[to |-> Other(p), frame |-> f] : f \in frames})

Lose(record) ==
    /\ wire' = RemoveCopy(wire, record)
    /\ UNCHANGED <<phase, control, accepted, delivered>>

-----------------------------------------------------------------------------
(* Negotiation *)

HostStartWithoutWaiting ==
    /\ phase["Host"] = "Start"
    /\ phase' = [phase EXCEPT !["Host"] = "Session"]
    /\ wire' = Transmit("Host", wire, Send(control["Host"], Hello).frames)
    /\ UNCHANGED <<control, accepted, delivered>>

(* negotiate_host: queue and transmit the hello. *)
HostStart ==
    LET r == Send(control["Host"], Hello)
    IN  /\ phase["Host"] = "Start"
        /\ phase' = [phase EXCEPT !["Host"] = "AwaitAck"]
        /\ control' = [control EXCEPT !["Host"] = r.control]
        /\ wire' = Transmit("Host", wire, r.frames)
        /\ UNCHANGED <<accepted, delivered>>

(* What receive_reliable_packet hands the negotiating peer. *)
Arrives(p, record) ==
    /\ record.to = p
    /\ UNCHANGED <<accepted, delivered>>

(* negotiate_host's loop: the first delivery decides. *)
HostReceive(record) ==
    LET r == ReceiveControl(control["Host"], record.frame)
    IN  /\ phase["Host"] = "AwaitAck"
        /\ Arrives("Host", record)
        /\ wire' = Transmit("Host", RemoveCopy(wire, record), r.acks \cup r.frames)
        /\ \/ /\ r.delivered = <<>>
              /\ control' = [control EXCEPT !["Host"] = r.control]
              /\ UNCHANGED phase
           \/ /\ r.delivered # <<>>
              /\ control' = [control EXCEPT !["Host"] = NewControl]
              /\ phase' = [phase EXCEPT !["Host"] =
                    IF Head(r.delivered) = HelloAck THEN "Session" ELSE "Rejected"]

(* negotiate_client's first loop and the HelloAck it sends on leaving it. *)
ClientReceiveHello(record) ==
    LET r == ReceiveControl(control["Client"], record.frame)
        sent == Send(r.control, HelloAck)
        arrived == Transmit("Client", RemoveCopy(wire, record), r.acks \cup r.frames)
    IN  /\ phase["Client"] = "AwaitHello"
        /\ Arrives("Client", record)
        /\ \/ /\ r.delivered = <<>>
              /\ control' = [control EXCEPT !["Client"] = r.control]
              /\ wire' = arrived
              /\ UNCHANGED phase
           \/ /\ r.delivered # <<>>
              /\ \A m \in Range(r.delivered) : m = Hello
              /\ control' = [control EXCEPT !["Client"] = sent.control]
              /\ wire' = Transmit("Client", arrived, sent.frames)
              /\ phase' = [phase EXCEPT !["Client"] = "AwaitAck"]
           \/ /\ \E m \in Range(r.delivered) : m # Hello
              /\ control' = [control EXCEPT !["Client"] = NewControl]
              /\ wire' = arrived
              /\ phase' = [phase EXCEPT !["Client"] = "Rejected"]

ClientNeedNotWait(rc) == TRUE

(* reliable.outstanding() == 0. *)
ClientMayReturn(rc) == DOMAIN rc.outbound.outstanding = {}

(***************************************************************************)
(* negotiate_client's second loop: deliveries are discarded; the client    *)
(* returns when its HelloAck has been acknowledged.                        *)
(***************************************************************************)
ClientReceiveAck(record) ==
    LET r == ReceiveControl(control["Client"], record.frame)
    IN  /\ phase["Client"] = "AwaitAck"
        /\ Arrives("Client", record)
        /\ wire' = Transmit("Client", RemoveCopy(wire, record), r.acks \cup r.frames)
        /\ \/ /\ ClientMayReturn(r.control)
              /\ control' = [control EXCEPT !["Client"] = NewControl]
              /\ phase' = [phase EXCEPT !["Client"] = "Session"]
           \/ /\ ~ClientMayReturn(r.control)
              /\ control' = [control EXCEPT !["Client"] = r.control]
              /\ UNCHANGED phase

(* PHASE_TIMEOUT ends a negotiation that has not finished. *)
TimeOut(p) ==
    /\ phase[p] \in {"AwaitHello", "AwaitAck"}
    /\ phase' = [phase EXCEPT ![p] = "TimedOut"]
    /\ UNCHANGED <<control, wire, accepted, delivered>>

(* recv, the first send or a retry returns an error. *)
Fail(p) ==
    /\ phase[p] \in {"Start", "AwaitHello", "AwaitAck"}
    /\ phase' = [phase EXCEPT ![p] = "Failed"]
    /\ UNCHANGED <<control, wire, accepted, delivered>>

(***************************************************************************)
(* receive returns an error, or the client's send of the HelloAck behind   *)
(* it, possibly after the acknowledgement has left: what was delivered is  *)
(* dropped and the negotiation ends.                                       *)
(***************************************************************************)
ReceiveFails(p, record) ==
    LET r == ReceiveControl(control[p], record.frame)
        took == p = "Host" /\ HelloAck \in Range(r.delivered)
    IN  /\ phase[p] \in {"AwaitHello", "AwaitAck"}
        /\ Arrives(p, record)
        /\ r.acks \cup r.frames # {}
        /\ \E emitted \in {{}, r.acks} :
              wire' = Transmit(p, RemoveCopy(wire, record), emitted)
        /\ phase' = [phase EXCEPT ![p] = IF took THEN "FailedAcking" ELSE "Failed"]
        /\ UNCHANGED control

-----------------------------------------------------------------------------
(* The session's event loop *)

SessionSend(p) ==
    LET r == Send(control[p], SessionMessage(accepted[p] + 1))
    IN  /\ phase[p] = "Session"
        /\ accepted[p] < MaxSession
        /\ control' = [control EXCEPT ![p] = r.control]
        /\ accepted' = [accepted EXCEPT ![p] = IF r.accepted THEN @ + 1 ELSE @]
        /\ wire' = Transmit(p, wire, r.frames)
        /\ UNCHANGED <<phase, delivered>>

SessionReceive(p, record) ==
    LET r == ReceiveControl(control[p], record.frame)
    IN  /\ phase[p] = "Session"
        /\ record.to = p
        /\ control' = [control EXCEPT ![p] = r.control]
        /\ delivered' = [delivered EXCEPT ![p] = @ \o r.delivered]
        /\ wire' = Transmit(p, RemoveCopy(wire, record), r.acks \cup r.frames)
        /\ UNCHANGED <<phase, accepted>>

(* receive_reliable_packet's retry interval, then the session's control tick. *)
Retry(p) ==
    /\ Running(p)
    /\ Flush(control[p]) # {}
    /\ wire' = Transmit(p, wire, Flush(control[p]))
    /\ UNCHANGED <<phase, control, accepted, delivered>>

Receives(record) ==
    \/ HostReceive(record)
    \/ ClientReceiveHello(record)
    \/ ClientReceiveAck(record)
    \/ \E p \in Peers : SessionReceive(p, record)

Next ==
    \/ HostStart
    \/ \E p \in Peers : SessionSend(p) \/ Retry(p) \/ TimeOut(p) \/ Fail(p)
    \/ \E record \in DOMAIN wire :
         \/ Lose(record)
         \/ Receives(record)
         \/ \E p \in Peers : ReceiveFails(p, record)

Spec == Init /\ [][Next]_vars

(***************************************************************************)
(* Fairness: the host starts, both peers drive their retries, and a frame  *)
(* that keeps being transmitted gets through.                              *)
(***************************************************************************)
DataArrives(p) ==
    \E record \in DOMAIN wire :
        /\ record.to = p
        /\ record.frame \in Flush(control[Other(p)])
        /\ Receives(record)

AckArrives(p) ==
    \E record \in DOMAIN wire :
        record.to = p /\ record.frame.ackOnly /\ Receives(record)

FairSpec ==
    /\ Spec
    /\ WF_vars(HostStart)
    /\ \A p \in Peers :
          WF_vars(Retry(p)) /\ SF_vars(DataArrives(p)) /\ SF_vars(AckArrives(p))

-----------------------------------------------------------------------------
(* Properties *)

(* The exchange's phases and the session's ghost counters have their types, *)
(* and no window outgrows MAX_CONTROL_PENDING.                              *)
TypeOK ==
    /\ phase["Host"] \in HostPhases
    /\ phase["Client"] \in ClientPhases
    /\ \A p \in Peers : \A ch \in {control[p].outbound, control[p].inbound} :
          Cardinality(DOMAIN ch.outstanding) <= MaxPending
    /\ \A record \in DOMAIN wire : wire[record] \in 1 .. MaxCopies
    /\ accepted \in [Peers -> 0 .. MaxSession]

(***************************************************************************)
(* The exchange ends with both peers in their sessions, even when the      *)
(* host's acknowledgement of the HelloAck is lost after the host has       *)
(* already returned, unless PHASE_TIMEOUT or an error ends it first.       *)
(***************************************************************************)
HandshakeCompletes ==
    <>(\/ \A p \in Peers : phase[p] = "Session"
       \/ \E p \in Peers : phase[p] \in Ended \ {"Rejected"})

(***************************************************************************)
(* A session message that has left its sender's window has been handed to  *)
(* the other peer's session: ordered control must not disappear.           *)
(***************************************************************************)
SessionMessagesSurvive ==
    \A p \in Peers : \A n \in 1 .. accepted[p] :
        \/ SessionMessage(n) \in Range(control[p].outbound.outstanding)
        \/ SessionMessage(n) \in Range(delivered[Other(p)])
=============================================================================
