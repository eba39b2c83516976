--------------------------- MODULE ControlChannel ---------------------------
(***************************************************************************)
(* The ordered control envelope of the protocol crate                      *)
(* (control::Frame, control::Channel) and the pair of channels the client  *)
(* core layers over a session (ReliableControl), as operators: each takes  *)
(* the state before a call and returns the state after it together with    *)
(* what the call transmits or delivers.                                    *)
(*                                                                         *)
(* Sequence numbers are u32 in the code and wrap; SeqSpace stands for      *)
(* 2^32.  Channel::received_any is not kept: it is TRUE exactly when       *)
(* pendingAck is not None.                                                 *)
(***************************************************************************)
EXTENDS Integers, FiniteSets, Sequences

CONSTANTS
    SeqSpace,      \* number of sequence numbers, 2^32 in the code
    MaxPending,    \* Channel::max_pending, MAX_CONTROL_PENDING in the clients
    None           \* an absent acknowledgement

ASSUME SeqSpaceAssumption ==
    SeqSpace \in Nat /\ SeqSpace > 1 /\ SeqSpace % 2 = 0

(***************************************************************************)
(* "The window is bounded far below half the sequence space."              *)
(***************************************************************************)
ASSUME MaxPendingAssumption ==
    MaxPending \in Nat /\ MaxPending > 0 /\ MaxPending <= SeqSpace \div 2

ASSUME NoneAssumption == None \notin Int

HalfSpace == SeqSpace \div 2

SequenceNumber == 0 .. SeqSpace - 1

Wrap(n) == n % SeqSpace

(* sequence_at_or_before. *)
AtOrBefore(sequence, reference) == Wrap(reference - sequence) < HalfSpace

-----------------------------------------------------------------------------
(* Channel *)

EmptyMap == [s \in {} |-> None]

(* The map with one more entry, or the entry of s replaced. *)
Inserted(map, s, payload) ==
    [t \in DOMAIN map \cup {s} |-> IF t = s THEN payload ELSE map[t]]

NewChannel ==
    [nextSequence |-> 0,
     expectedSequence |-> 0,
     pendingAck |-> None,
     outstanding |-> EmptyMap,
     waiting |-> EmptyMap]

DataFrame(sequence, ack, payload) ==
    [sequence |-> sequence, ack |-> ack, ackOnly |-> FALSE, payload |-> payload]

AckFrame(ack) ==
    [sequence |-> 0, ack |-> ack, ackOnly |-> TRUE, payload |-> None]

(* Room for one more message in the outstanding window. *)
HasCapacity(ch) == Cardinality(DOMAIN ch.outstanding) < MaxPending

(* Channel::queue when the window has room. *)
Queue(ch, payload) ==
    [ch EXCEPT !.nextSequence = Wrap(@ + 1),
               !.outstanding = Inserted(@, ch.nextSequence, payload)]

OldestOutstanding(ch) ==
    CHOOSE s \in DOMAIN ch.outstanding :
        \A t \in DOMAIN ch.outstanding :
            Wrap(ch.nextSequence - t) <= Wrap(ch.nextSequence - s)

(* Channel::next_frame, the oldest outstanding message: a set of at most one. *)
NextFrame(ch) ==
    {DataFrame(s, ch.pendingAck, ch.outstanding[s]) :
        s \in {t \in DOMAIN ch.outstanding : t = OldestOutstanding(ch)}}

AcknowledgementFrameOfNext(ch) ==
    IF ch.pendingAck = None THEN {} ELSE {AckFrame(ch.expectedSequence)}

(* Channel::acknowledgement_frame: a set of at most one frame. *)
AcknowledgementFrame(ch) ==
    IF ch.pendingAck = None THEN {} ELSE {AckFrame(ch.pendingAck)}

(* Channel::acknowledge, cumulative. *)
Acknowledge(ch, ack) ==
    [ch EXCEPT !.outstanding =
        [s \in {t \in DOMAIN @ : ~AtOrBefore(t, ack)} |-> @[s]]]

(* Acknowledge when the frame carries an acknowledgement. *)
AcknowledgeFrom(ch, frame) ==
    IF frame.ack = None THEN ch ELSE Acknowledge(ch, frame.ack)

(* How many buffered messages follow the expected one without a gap. *)
BufferedRun(ch) ==
    CHOOSE n \in 0 .. MaxPending :
        /\ \A i \in 1 .. n : Wrap(ch.expectedSequence + i) \in DOMAIN ch.waiting
        /\ \/ n = MaxPending
           \/ Wrap(ch.expectedSequence + n + 1) \notin DOMAIN ch.waiting

(* Channel::receive of the message expected next, with the run behind it. *)
DeliverExpected(ch, payload) ==
    LET n == BufferedRun(ch)
        next == Wrap(ch.expectedSequence + n + 1)
        run == {Wrap(ch.expectedSequence + i) : i \in 1 .. n}
    IN  [channel |->
            [ch EXCEPT !.expectedSequence = next,
                       !.waiting = [s \in DOMAIN @ \ run |-> @[s]],
                       !.pendingAck = Wrap(next - 1)],
         delivered |->
            <<payload>> \o
            [i \in 1 .. n |-> ch.waiting[Wrap(ch.expectedSequence + i)]]]

(* Channel::receive of a message ahead of the expected one. *)
BufferAhead(ch, frame) ==
    IF Cardinality(DOMAIN ch.waiting) < MaxPending /\ frame.sequence \notin DOMAIN ch.waiting
    THEN [ch EXCEPT !.waiting = Inserted(@, frame.sequence, frame.payload)]
    ELSE ch

ReceiveRedelivering(ch, frame) ==
    LET acked == AcknowledgeFrom(ch, frame)
    IN  CASE frame.ackOnly -> [channel |-> acked, delivered |-> <<>>]
          [] ~frame.ackOnly /\ frame.sequence = ch.expectedSequence ->
                DeliverExpected(acked, frame.payload)
          [] OTHER -> [channel |-> acked, delivered |-> <<frame.payload>>]

(* Channel::receive. *)
Receive(ch, frame) ==
    LET acked == AcknowledgeFrom(ch, frame)
        unchanged == [channel |-> acked, delivered |-> <<>>]
    IN  CASE frame.ackOnly -> unchanged
          [] ~frame.ackOnly /\ frame.sequence = ch.expectedSequence ->
                DeliverExpected(acked, frame.payload)
          [] ~frame.ackOnly /\ frame.sequence # ch.expectedSequence
             /\ AtOrBefore(frame.sequence, ch.expectedSequence) -> unchanged
          [] OTHER -> [channel |-> BufferAhead(acked, frame), delivered |-> <<>>]

-----------------------------------------------------------------------------
(* ReliableControl: an outbound and an inbound channel *)

NewControl == [outbound |-> NewChannel, inbound |-> NewChannel]

(* ReliableControl::flush, the one frame it puts on the wire. *)
Flush(rc) == NextFrame(rc.outbound)

(* ReliableControl::send. A full window drops the new message and only *)
(* drives the oldest one.                                               *)
Send(rc, payload) ==
    LET queued == IF HasCapacity(rc.outbound)
                  THEN [rc EXCEPT !.outbound = Queue(@, payload)]
                  ELSE rc
    IN  [control |-> queued,
         accepted |-> HasCapacity(rc.outbound),
         frames |-> Flush(queued)]

ReceiveControlAckOnce(rc, frame) ==
    LET in == Receive(rc.inbound, frame)
        next == [outbound |-> AcknowledgeFrom(rc.outbound, frame),
                 inbound |-> in.channel]
    IN  [control |-> next,
         delivered |-> in.delivered,
         acks |-> IF in.delivered = <<>> THEN {} ELSE AcknowledgementFrame(in.channel),
         frames |-> Flush(next)]

(* ReliableControl::receive: settle, order, acknowledge data at once, and *)
(* drive the oldest outstanding message.                                   *)
ReceiveControl(rc, frame) ==
    LET in == Receive(rc.inbound, frame)
        next == [outbound |-> AcknowledgeFrom(rc.outbound, frame),
                 inbound |-> in.channel]
    IN  [control |-> next,
         delivered |-> in.delivered,
         acks |-> IF frame.ackOnly THEN {} ELSE AcknowledgementFrame(in.channel),
         frames |-> Flush(next)]

=============================================================================
