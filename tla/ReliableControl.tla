--------------------------- MODULE ReliableControl ---------------------------
(***************************************************************************)
(* Two session event loops exchanging ordered control messages with        *)
(* ReliableControl over datagrams that may be lost, delayed and reordered. *)
(* Every retransmission is sealed as a datagram of its own, so several     *)
(* copies of one frame can be in flight, while Session::open rejects a     *)
(* second arrival of the same datagram: an arrival consumes one copy.      *)
(*                                                                         *)
(* Each step is one completed call of the helper.  A call whose            *)
(* transmission fails returns the error and every caller ends its session  *)
(* with it: SendFails and ReceiveFails.                                    *)
(*                                                                         *)
(* The n-th message a peer's window accepts is the number n, and a frame   *)
(* in flight remembers the absolute number behind its wrapped sequence, so *)
(* that delivery can be compared with what was accepted.                   *)
(***************************************************************************)
EXTENDS ControlChannel, Datagrams

CONSTANTS
    MaxMessages    \* bound: messages each peer accepts, a function of the peer

ASSUME BoundsAssumption == MaxMessages \in [Peers -> Nat]

VARIABLES
    control,       \* each peer's ReliableControl
    wire,          \* bag of [to, frame, index] records in flight: copies by record
    accepted,      \* how many messages each peer's window has accepted
    delivered,     \* the messages each peer's caller has been handed, in order
    ended          \* whether each peer's event loop has ended on an error

vars == <<control, wire, accepted, delivered, ended>>

Init ==
    /\ control = [p \in Peers |-> NewControl]
    /\ wire = EmptyMap
    /\ accepted = [p \in Peers |-> 0]
    /\ delivered = [p \in Peers |-> <<>>]
    /\ ended = [p \in Peers |-> FALSE]

-----------------------------------------------------------------------------
(* The datagrams *)

(* The record of a frame p sends when its caller has been handed got messages. *)
(* An acknowledgement's index is the message it confirms.                      *)
InFlight(p, frame, got) ==
    [to |-> Other(p), frame |-> frame,
     index |-> IF frame.ackOnly THEN got ELSE frame.payload]

(* Send one call's frames. *)
Transmit(p, b, frames, got) == AddCopies(b, {InFlight(p, f, got) : f \in frames})

(***************************************************************************)
(* The network forgets a datagram before its peer's sequence numbers have  *)
(* moved on by half their space (2^31 messages).                           *)
(***************************************************************************)
Fresh(record) ==
    LET q == record.to
    IN  IF record.frame.ackOnly
        THEN accepted[q] - record.index <= HalfSpace
        ELSE Len(delivered[q]) + 1 - record.index < HalfSpace

Lose(record) ==
    /\ wire' = RemoveCopy(wire, record)
    /\ UNCHANGED <<control, accepted, delivered, ended>>

-----------------------------------------------------------------------------
(* The calls *)

(* ReliableControl::send. *)
SendMessage(p) ==
    LET r == Send(control[p], accepted[p] + 1)
    IN  /\ ~ended[p]
        /\ accepted[p] < MaxMessages[p]
        /\ control' = [control EXCEPT ![p] = r.control]
        /\ accepted' = [accepted EXCEPT ![p] = IF r.accepted THEN @ + 1 ELSE @]
        /\ UNCHANGED <<delivered, ended>>
        /\ wire' = Transmit(p, wire, r.frames, Len(delivered[p]))

(* ReliableControl::send_if_available: nothing happens on a full window. *)
SendIfAvailable(p) ==
    /\ HasCapacity(control[p].outbound)
    /\ SendMessage(p)

(* ReliableControl::retry, from the caller's control tick. *)
Retry(p) ==
    /\ ~ended[p]
    /\ Flush(control[p]) # {}
    /\ UNCHANGED <<control, accepted, delivered, ended>>
    /\ wire' = Transmit(p, wire, Flush(control[p]), Len(delivered[p]))

(* ReliableControl::receive. *)
ReceiveFrame(p, record) ==
    LET r == ReceiveControl(control[p], record.frame)
    IN  /\ ~ended[p]
        /\ record.to = p
        /\ Fresh(record)
        /\ control' = [control EXCEPT ![p] = r.control]
        /\ delivered' = [delivered EXCEPT ![p] = @ \o r.delivered]
        /\ UNCHANGED <<accepted, ended>>
        /\ wire' = Transmit(p, RemoveCopy(wire, record), r.acks \cup r.frames, Len(delivered'[p]))

(* The message was queued, its transmission failed, the caller gives up. *)
SendFails(p) ==
    LET r == Send(control[p], accepted[p] + 1)
    IN  /\ ~ended[p]
        /\ accepted[p] < MaxMessages[p]
        /\ control' = [control EXCEPT ![p] = r.control]
        /\ accepted' = [accepted EXCEPT ![p] = IF r.accepted THEN @ + 1 ELSE @]
        /\ ended' = [ended EXCEPT ![p] = TRUE]
        /\ UNCHANGED <<wire, delivered>>

(***************************************************************************)
(* The inbound channel has already moved on when a transmission of         *)
(* receive fails: what it delivered is dropped with the error, possibly    *)
(* after the acknowledgement has left.                                     *)
(***************************************************************************)
ReceiveFails(p, record) ==
    LET r == ReceiveControl(control[p], record.frame)
    IN  /\ ~ended[p]
        /\ record.to = p
        /\ Fresh(record)
        /\ r.acks \cup r.frames # {}
        /\ control' = [control EXCEPT ![p] = r.control]
        /\ ended' = [ended EXCEPT ![p] = TRUE]
        /\ UNCHANGED <<accepted, delivered>>
        /\ \E emitted \in {{}, r.acks} :
             wire' = Transmit(p, RemoveCopy(wire, record), emitted,
                              Len(delivered[p] \o r.delivered))

Next ==
    \/ \E p \in Peers : SendMessage(p) \/ SendIfAvailable(p) \/ Retry(p) \/ SendFails(p)
    \/ \E record \in DOMAIN wire :
         \/ Lose(record)
         \/ \E p \in Peers : ReceiveFrame(p, record) \/ ReceiveFails(p, record)

Spec == Init /\ [][Next]_vars

-----------------------------------------------------------------------------
(* Fairness: each event loop runs its control tick, and a frame that keeps *)
(* being transmitted is not lost for ever.                                 *)

(* The frame the other peer keeps transmitting arrives at p. *)
DataArrives(p) ==
    \E record \in DOMAIN wire :
        /\ record.frame \in Flush(control[Other(p)])
        /\ ReceiveFrame(p, record)

(* An acknowledgement of p's oldest outstanding message arrives at p. *)
AckArrives(p) ==
    \E record \in DOMAIN wire :
        /\ record.frame.ackOnly
        /\ \E f \in Flush(control[p]) : AtOrBefore(f.sequence, record.frame.ack)
        /\ ReceiveFrame(p, record)

FairSpec ==
    /\ Spec
    /\ \A p \in Peers :
          WF_vars(Retry(p)) /\ SF_vars(DataArrives(p)) /\ SF_vars(AckArrives(p))

-----------------------------------------------------------------------------
(* Properties *)

(***************************************************************************)
(* Both windows of control::Channel stay within max_pending, for messages  *)
(* awaiting acknowledgement and for messages received ahead of a gap.      *)
(***************************************************************************)
TypeOK ==
    /\ \A p \in Peers : \A ch \in {control[p].outbound, control[p].inbound} :
          /\ ch.nextSequence \in SequenceNumber
          /\ ch.expectedSequence \in SequenceNumber
          /\ ch.pendingAck \in SequenceNumber \cup {None}
          /\ DOMAIN ch.outstanding \subseteq SequenceNumber
          /\ DOMAIN ch.waiting \subseteq SequenceNumber
          /\ Cardinality(DOMAIN ch.outstanding) <= MaxPending
          /\ Cardinality(DOMAIN ch.waiting) <= MaxPending
    /\ \A record \in DOMAIN wire : wire[record] \in 1 .. MaxCopies
    /\ accepted \in [Peers -> Nat]
    /\ ended \in [Peers -> BOOLEAN]

(***************************************************************************)
(* The caller of receive is handed the messages the other peer's window    *)
(* accepted, in order, each once and without a gap, whatever the datagrams *)
(* do and across the wrap of the sequence numbers.                         *)
(***************************************************************************)
InOrderDelivery ==
    \A p \in Peers :
        /\ Len(delivered[p]) <= accepted[Other(p)]
        /\ \A i \in 1 .. Len(delivered[p]) : delivered[p][i] = i

(***************************************************************************)
(* A message leaves the outstanding window only when the other peer's      *)
(* caller has it: acknowledge never forgets a message that could still     *)
(* need a retry, unless that peer's loop ended in the middle of receive.   *)
(***************************************************************************)
AckedIsDelivered ==
    \A p \in Peers :
        ended[Other(p)] \/
        \A n \in (Len(delivered[Other(p)]) + 1) .. accepted[p] :
            /\ Wrap(n - 1) \in DOMAIN control[p].outbound.outstanding
            /\ control[p].outbound.outstanding[Wrap(n - 1)] = n

(***************************************************************************)
(* Every message the window accepts is delivered in the end, as long as    *)
(* both event loops keep running: retry, the repeated acknowledgement of a *)
(* duplicate and the flush on an acknowledgement keep the channel moving.  *)
(***************************************************************************)
EveryMessageArrives ==
    \A p \in Peers : \A n \in 1 .. MaxMessages[p] :
        accepted[p] >= n ~>
            Len(delivered[Other(p)]) >= n \/ \E q \in Peers : ended[q]
=============================================================================
