----------------------------- MODULE CoreChannel -----------------------------
(***************************************************************************)
(* The ordered channels of the core transport, one direction of a session: *)
(* the sender's SendRing of every channel and the scan that empties them,  *)
(* the receiver's RecvRing of every channel, and the group acknowledgement *)
(* and the keepalive that answer them.                                     *)
(*                                                                         *)
(* A datagram may be lost, delayed, reordered or duplicated.  A message is *)
(* a number of fragments.  Clocks are left out: a fragment that was sent   *)
(* may always have outlived its retransmission timeout, and the cadence of *)
(* the keepalive may always have elapsed.  The order in which one pass     *)
(* takes the channels is left open.                                        *)
(***************************************************************************)
EXTENDS Integers, FiniteSets, Sequences

CONSTANTS
    None,          \* an absent value
    SeqSpace,      \* 2^32, the sequence numbers
    Depth,         \* RING_SLOTS
    Cap,           \* OUTSTANDING_CAP
    Channels,      \* the channels with rings attached
    Control,       \* the control channel, number 0
    Loads,         \* what there may be to send, by channel
    MaxAcks        \* bound: acknowledgements in flight

Sequence == 0 .. SeqSpace - 1

ASSUME CoreAssumption ==
    /\ {Depth, Cap, MaxAcks} \subseteq Nat \ {0}
    /\ Control \in Channels
    /\ SeqSpace \in Nat /\ SeqSpace > 2 * Depth
    /\ \A given \in Loads : \A c \in Channels :
          /\ given[c].start \in Sequence /\ given[c].room \in Nat
          /\ \A i \in DOMAIN given[c].messages : given[c].messages[i] \in 1 .. Depth

VARIABLES
    load,          \* by channel, and never changed: the fragment counts of the messages
                   \* to send, the sequence both drained rings stand at, and a bound on
                   \* the data datagrams in flight (room)
    tx,            \* by channel, the SendRing
    queued,        \* by channel, how many messages send_message has accepted
    rx,            \* by channel, the RecvRing
    trigger,       \* the receiver's Session::trigger while ack_due, or None
    data, acks,    \* the datagrams in flight
    taken,         \* history: by channel, the messages take_message returned
    refused,       \* history: by channel, fragments turned away for want of a slot
    clashed        \* history: the channels that queued a fragment in a taken slot

history == <<load, taken, refused, clashed>>

vars == <<tx, queued, rx, trigger, data, acks, history>>

-----------------------------------------------------------------------------
(* Serial number arithmetic: the sign of the wrapped difference. *)

Distance(a, b) == (b - a) % SeqSpace

Gt(a, b) == Distance(b, a) \in 1 .. SeqSpace \div 2 - 1

Ge(a, b) == a = b \/ Gt(a, b)

Plus(a, n) == (a + n) % SeqSpace

(* The sequence numbers from a up to b. *)
Span(a, b) == {Plus(a, n) : n \in 0 .. Distance(a, b) - 1}

(* The slot of a sequence number, in either ring. *)
Index(s) == s % Depth

Slots == 0 .. Depth - 1

-----------------------------------------------------------------------------
(* SendRing *)

EmptySlot ==
    [body |-> None, occupied |-> FALSE, sent |-> FALSE, nacked |-> FALSE, resent |-> FALSE]

Fresh(body) == [EmptySlot EXCEPT !.body = body, !.occupied = TRUE]

Messages(c) == load[c].messages

(* Fragment k of the i-th message of channel c. *)
Fragment(c, i, k) == [message |-> i, at |-> k, of |-> Messages(c)[i]]

InFlight(c) == Distance(tx[c].base, tx[c].next)

(* Mutant: one fragment too many fits. *)
WindowFreeByOne(c) == IF InFlight(c) > Depth THEN 0 ELSE Depth + 1 - InFlight(c)

WindowFree(c) == IF InFlight(c) > Depth THEN 0 ELSE Depth - InFlight(c)

SlotOf(c, s) == tx[c].slots[Index(s)]

(* The fragments of the scan that are still held. *)
Held(c) == {s \in Span(tx[c].cursor, tx[c].next) : SlotOf(c, s).occupied}

Before(c, s) == {r \in Held(c) : Distance(tx[c].cursor, r) < Distance(tx[c].cursor, s)}

(* A fragment a negative acknowledgement asks for, once. *)
Nacked(c, s) ==
    /\ tx[c].nackBelow # None
    /\ Gt(tx[c].nackBelow, s)
    /\ ~SlotOf(c, s).nacked

(* Due whatever the clock says.  Any other held fragment may have timed out. *)
MustSend(c, s) == ~SlotOf(c, s).sent \/ Nacked(c, s)

Retransmitting(c, s) == SlotOf(c, s).resent \/ SlotOf(c, s).nacked

(* What the scan has counted when it comes to s and sent nothing before it. *)
CountedAt(c, s) ==
    tx[c].outstanding + Cardinality({r \in Before(c, s) : Retransmitting(c, r)})

(* next_due_len finds s: nothing before it must go. *)
NextDue(c, s) ==
    /\ tx[c].outstanding < Cap
    /\ \A r \in Before(c, s) : ~MustSend(c, r)

(* begin_pass *)
Rewound(ring) == [ring EXCEPT !.cursor = ring.base, !.outstanding = 0]

(* poll_send of the fragment s. *)
Transmitted(c, s) ==
    LET slot == SlotOf(c, s)
        nacked == slot.sent /\ Nacked(c, s)
    IN  [tx[c] EXCEPT
            !.slots[Index(s)] =
                [slot EXCEPT !.sent = TRUE,
                             !.nacked = @ \/ nacked,
                             !.resent = @ \/ (slot.sent /\ ~nacked)],
            !.outstanding = CountedAt(c, s) + 1,
            !.cursor = Plus(s, 1)]

(* Mutant: the trigger is taken for every channel's. *)
AcknowledgedAnywhere(c, ack) ==
    LET ring == tx[c]
        frontier == ack.cumulative[c]
        moves == Gt(frontier, ring.base) /\ Ge(ring.next, frontier)
        base == IF moves THEN frontier ELSE ring.base
        t == ack.seq
        slot == ring.slots[Index(t)]
        retires == /\ Ge(t, ring.base) /\ Gt(ring.next, t)
                   /\ slot.occupied /\ slot.sent
    IN  [ring EXCEPT
            !.base = base,
            !.cursor = IF moves /\ Gt(base, @) THEN base ELSE @,
            !.nackBelow = IF ack.nack THEN t ELSE @,
            !.slots[Index(t)].occupied = @ /\ ~retires]

(* on_ack: the cumulative frontier, the negative acknowledgement, and the    *)
(* fragment the trigger names, which is given up though the frontier may not *)
(* have passed it.                                                           *)
Acknowledged(c, ack) ==
    LET ring == tx[c]
        frontier == ack.cumulative[c]
        moves == Gt(frontier, ring.base) /\ Ge(ring.next, frontier)
        base == IF moves THEN frontier ELSE ring.base
        named == ack.channel = c
        t == ack.seq
        slot == ring.slots[Index(t)]
        retires == /\ named
                   /\ Ge(t, ring.base) /\ Gt(ring.next, t)
                   /\ slot.occupied /\ slot.sent
    IN  [ring EXCEPT
            !.base = base,
            !.cursor = IF moves /\ Gt(base, @) THEN base ELSE @,
            !.nackBelow = IF named /\ ack.nack THEN t ELSE @,
            !.slots[Index(t)].occupied = @ /\ ~retires]

-----------------------------------------------------------------------------
(* RecvRing *)

BodyAt(ring, s) == ring.bodies[Index(s)]

HasGap(ring) == ring.cumulative # ring.highest

(* advance: the first sequence from the frontier whose slot is not ready. *)
Advanced(ring) ==
    LET open == {n \in 0 .. Distance(ring.cumulative, ring.highest) :
                    \/ Plus(ring.cumulative, n) = ring.highest
                    \/ BodyAt(ring, Plus(ring.cumulative, n)) = None}
        first == CHOOSE n \in open : \A m \in open : n <= m
    IN  [ring EXCEPT !.cumulative = Plus(@, first)]

Beyond(ring, s) == Ge(s, ring.delivered) /\ Distance(ring.delivered, s) >= Depth

(* store.  No fragment is too large: both ends cut them to what a slot holds. *)
Stored(ring, s, body) ==
    IF Gt(ring.delivered, s) \/ Beyond(ring, s) \/ BodyAt(ring, s) # None
    THEN ring
    ELSE Advanced([ring EXCEPT !.bodies[Index(s)] = body,
                               !.highest = IF Gt(Plus(s, 1), @) THEN Plus(s, 1) ELSE @])

(* The fragments take_message would consume: as many as the first declares. *)
NextMessage(ring) ==
    [k \in 1 .. BodyAt(ring, ring.delivered).of |-> BodyAt(ring, Plus(ring.delivered, k - 1))]

-----------------------------------------------------------------------------
(* The sender *)

(* The slot of s may still hold a number less than Depth before s, which its *)
(* sender or its reader has not done with: where the numbers wrap the slots  *)
(* start again at 0, unless Depth divides SeqSpace.                          *)
SlotTaken(c, s) ==
    \E d \in 1 .. Depth - 1 :
        LET r == Plus(s, -d)
        IN  Index(r) = Index(s) /\ (Ge(r, tx[c].base) \/ Ge(r, rx[c].delivered))

(* send_message: refused whole when the window is short. *)
SendMessage(c) ==
    LET i == queued[c] + 1
        numbers == Span(tx[c].next, Plus(tx[c].next, Messages(c)[i]))
        at == [s \in Slots |-> {k \in 1 .. Messages(c)[i] : Index(Plus(tx[c].next, k - 1)) = s}]
    IN  /\ queued[c] < Len(Messages(c))
        /\ Messages(c)[i] <= WindowFree(c)
        /\ queued' = [queued EXCEPT ![c] = i]
        /\ tx' = [tx EXCEPT ![c].next = Plus(@, Messages(c)[i]),
                            ![c].slots = [s \in Slots |->
                                IF at[s] = {} THEN @[s]
                                ELSE Fresh(Fragment(c, i, CHOOSE k \in at[s] :
                                                            \A l \in at[s] : l <= k))]]
        /\ clashed' = IF \E s \in numbers : SlotTaken(c, s) THEN clashed \cup {c} ELSE clashed
        /\ UNCHANGED <<load, rx, trigger, data, acks, taken, refused>>

(* poll, or a get_output after the last pass ended: begin_pass of every ring. *)
BeginPass ==
    /\ tx' = [c \in Channels |-> Rewound(tx[c])]
    /\ UNCHANGED <<queued, rx, trigger, data, acks, history>>

Put(net, packet, bound) ==
    IF Cardinality(net) < bound THEN net \cup {packet} ELSE net

PutData(net, packet) ==
    LET own == {p \in net : p.channel = packet.channel}
    IN  Put(own, packet, load[packet.channel].room) \cup net

(* get_output sends fragment s of channel c. *)
Emit(c, s) ==
    /\ NextDue(c, s)
    /\ CountedAt(c, s) < Cap
    /\ tx' = [tx EXCEPT ![c] = Transmitted(c, s)]
    /\ data' = PutData(data, [channel |-> c, seq |-> s, body |-> SlotOf(c, s).body])
    /\ UNCHANGED <<queued, rx, trigger, acks, history>>

(* The fragments passed over reach the cap before the one that is due: the   *)
(* scan runs to its end, forgets the negative acknowledgement and rewinds.   *)
EmitCapped(c, s) ==
    /\ NextDue(c, s)
    /\ CountedAt(c, s) >= Cap
    /\ tx' = [tx EXCEPT ![c].outstanding = Cap, ![c].nackBelow = None, ![c].cursor = tx[c].base]
    /\ UNCHANGED <<queued, rx, trigger, data, acks, history>>

(* process_input of an acknowledgement, of either kind. *)
ReceiveAck(ack, again) ==
    /\ ack \in acks
    /\ acks' = IF again THEN acks ELSE acks \ {ack}
    /\ tx' = [c \in Channels |-> Acknowledged(c, ack)]
    /\ UNCHANGED <<queued, rx, trigger, data, history>>

-----------------------------------------------------------------------------
(* The receiver *)

(* process_input of data: the acknowledgement points at it whatever store made of it. *)
ReceiveData(packet, again) ==
    LET c == packet.channel
        s == packet.seq
    IN  /\ packet \in data
        /\ data' = IF again THEN data ELSE data \ {packet}
        /\ rx' = [rx EXCEPT ![c] = Stored(@, s, packet.body)]
        /\ trigger' = [channel |-> c, seq |-> s]
        /\ refused' = IF Beyond(rx[c], s)
                      THEN [refused EXCEPT ![c] = @ \cup {packet.body}] ELSE refused
        /\ UNCHANGED <<load, tx, queued, acks, taken, clashed>>

(* emit_ack: the frontier of every channel, and what the acknowledgement points at. *)
GroupAck(nack, points) ==
    [nack |-> nack, channel |-> points.channel, seq |-> points.seq,
     cumulative |-> [c \in Channels |-> rx[c].cumulative]]

(* get_output with an acknowledgement due. *)
EmitAck ==
    /\ trigger # None
    /\ acks' = Put(acks, GroupAck(\E c \in Channels : HasGap(rx[c]), trigger), MaxAcks)
    /\ trigger' = None
    /\ UNCHANGED <<tx, queued, rx, data, history>>

(* A keepalive's trigger fields are zero. *)
NoTrigger == [channel |-> Control, seq |-> 0]

(* poll and get_output, when nothing has been acknowledged for a cadence. *)
EmitKeepalive ==
    /\ trigger = None
    /\ acks' = Put(acks, GroupAck(FALSE, NoTrigger), MaxAcks)
    /\ UNCHANGED <<tx, queued, rx, trigger, data, history>>

(* take_message, once the whole of the next message is below the frontier. *)
TakeMessage(c) ==
    LET ring == rx[c]
        message == NextMessage(ring)
        used == {Index(s) : s \in Span(ring.delivered, Plus(ring.delivered, Len(message)))}
    IN  /\ ring.delivered # ring.cumulative
        /\ BodyAt(ring, ring.delivered) # None
        /\ Len(message) <= Distance(ring.delivered, ring.cumulative)
        /\ taken' = [taken EXCEPT ![c] = Append(@, message)]
        /\ rx' = [rx EXCEPT ![c].delivered = Plus(@, Len(message)),
                            ![c].bodies = [s \in Slots |-> IF s \in used THEN None ELSE @[s]]]
        /\ UNCHANGED <<load, tx, queued, trigger, data, acks, refused, clashed>>

Lose ==
    /\ \/ \E p \in data : data' = data \ {p} /\ UNCHANGED acks
       \/ \E a \in acks : acks' = acks \ {a} /\ UNCHANGED data
    /\ UNCHANGED <<tx, queued, rx, trigger, history>>

-----------------------------------------------------------------------------
Init ==
    /\ load \in Loads
    /\ tx = [c \in Channels |->
                [base |-> load[c].start, next |-> load[c].start, cursor |-> load[c].start,
                 nackBelow |-> None, outstanding |-> 0,
                 slots |-> [s \in Slots |-> EmptySlot]]]
    /\ queued = [c \in Channels |-> 0]
    /\ rx = [c \in Channels |->
                [delivered |-> load[c].start, cumulative |-> load[c].start, highest |-> load[c].start,
                 bodies |-> [s \in Slots |-> None]]]
    /\ trigger = None
    /\ data = {}
    /\ acks = {}
    /\ taken = [c \in Channels |-> <<>>]
    /\ refused = [c \in Channels |-> {}]
    /\ clashed = {}

Next ==
    \/ \E c \in Channels : SendMessage(c) \/ TakeMessage(c)
    \/ \E c \in Channels : \E s \in Held(c) : Emit(c, s) \/ EmitCapped(c, s)
    \/ BeginPass
    \/ \E a \in acks, again \in BOOLEAN : ReceiveAck(a, again)
    \/ \E p \in data, again \in BOOLEAN : ReceiveData(p, again)
    \/ EmitKeepalive
    \/ EmitAck
    \/ Lose

Spec == Init /\ [][Next]_vars

-----------------------------------------------------------------------------
(* The first messages of the writer, each whole and made of its own fragments. *)
GetsWhatWasQueued(c) ==
    \A i \in DOMAIN taken[c] :
        /\ i <= queued[c]
        /\ taken[c][i] = [k \in 1 .. Messages(c)[i] |-> Fragment(c, i, k)]

(* What the reader of a channel gets is what its writer queued, in order,    *)
(* however the datagrams were lost, repeated and reordered and wherever the  *)
(* ring wraps (SendRing, RecvRing::store, take_message), on every channel    *)
(* but one that has queued a fragment in a slot still taken across the wrap  *)
(* of the sequence numbers, which window_free does not look at.              *)
InOrder == \A c \in Channels : c \in clashed \/ GetsWhatWasQueued(c)

(* "Running further ahead than that wraps onto slots the peer has already    *)
(* delivered from": a window no wider than the ring is enough for the reader *)
(* to get what was queued.  Not at the wrap of the sequence numbers.         *)
InOrderAcrossTheWrap == \A c \in Channels : GetsWhatWasQueued(c)

(* The fragments of channel c the sender has given up before the frontier    *)
(* passed them: on_ack freed them and no scan will send them again.          *)
Retired(c) ==
    {s \in Span(tx[c].base, tx[c].next) : SlotOf(c, s).sent /\ ~SlotOf(c, s).occupied}

(* Fragment s is with the receiver: delivered, or waiting in its slot. *)
Arrived(c, s) ==
    \/ Gt(rx[c].delivered, s)
    \/ BodyAt(rx[c], s) = SlotOf(c, s).body

(* A fragment the sender will never send again has reached the receiver's    *)
(* ring, with three exceptions the code makes: the ring had no room for it   *)
(* when it came (process_input acknowledges it all the same), it is control  *)
(* fragment 0, which every keepalive's zeroed trigger names, or the channel  *)
(* has queued a fragment in a slot still taken.                              *)
RetiredWasSeen ==
    \A c \in Channels \ clashed : \A s \in Retired(c) :
        \/ Arrived(c, s)
        \/ SlotOf(c, s).body \in refused[c]
        \/ [channel |-> c, seq |-> s] = NoTrigger

=============================================================================
