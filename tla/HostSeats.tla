------------------------------ MODULE HostSeats ------------------------------
(***************************************************************************)
(* The seats of a host: guests' threads claim and leave them, the capture  *)
(* and encode loop admits, feeds and retires them, and the audio thread    *)
(* publishes sound to them.  Frames and packets live in reference-counted  *)
(* pools; what travels through a seat's rings is a slot.  The rings are    *)
(* the bounded queues of SpscRing, so a push or a pop is one step here, as *)
(* long as a ring has one consumer; what two consumers at once do to it is *)
(* ArrivalContended.                                                       *)
(*                                                                         *)
(* Frames are numbered as the encoder produces them; a frame that is not a *)
(* keyframe can be decoded only after the frame numbered one less.  The    *)
(* room a guest's window leaves, the encoder's choice of keyframes and the *)
(* moment a guest leaves (of its own or told to by a kick) are free.       *)
(***************************************************************************)
EXTENDS Integers, Sequences, FiniteSets

CONSTANTS
    Guests,          \* guests' threads; each takes one seat at most
    Seats,           \* the indices of Shared::seats
    Slots,           \* slots of the frame pool
    Depth,           \* PUBLISH_DEPTH
    SoundSlots,      \* slots of the audio pool
    SoundDepth,      \* AUDIO_DEPTH
    MaxFrames,       \* bound: frames encoded
    MaxPackets,      \* bound: packets of sound published
    MaxExits,        \* bound: encoders that end or cannot be built
    None

Join == [seat : Seats, guest : Guests]

Active == [seat : Seats, guest : Guests, pending : BOOLEAN]

Frame == [slot : Slots, frame : 1 .. MaxFrames]

(* A frame on its way into the rings, and a packet of sound on its. *)
Publication == [slot : Slots, frame : 1 .. MaxFrames, todo : SUBSET Join, refused : SUBSET Guests]

Broadcast == [slot : SoundSlots, todo : SUBSET Seats]

ASSUME SeatsAssumption ==
    /\ IsFiniteSet(Guests) /\ IsFiniteSet(Seats)
    /\ Depth \in Nat \ {0} /\ SoundDepth \in Nat \ {0}
    /\ MaxFrames \in Nat /\ MaxPackets \in Nat /\ MaxExits \in Nat

ASSUME NoneAssumption ==
    None \notin Seats /\ None \notin Join /\ None \notin Frame /\ None \notin Publication /\ None \notin Broadcast

VARIABLES
    seat,            \* Seat::state
    stage,           \* a guest's thread: "out", "claiming", "seated" (holds a SeatHold), "gone"
    at,              \* the seat a guest took
    ring, audio,     \* Seat::ring and Seat::audio
    held,            \* the Frame a guest holds
    last,            \* the number of the last frame a guest took, 0 before any
    joins,           \* the Join messages on their way to the loop
    loop,            \* where the loop's thread stands
    admitting,       \* the Join whose seat was found Claimed
    active,          \* the roster: entries with their gate latch
    writer,          \* the frame being published
    holders, content,\* the frame pool: holders, and the number of the frame in each slot
    frames, keys,    \* frames encoded, and which of them are keyframes
    fresh,           \* the encoder has produced nothing yet
    epoch,           \* Shared::epoch
    fallback,        \* previous and previous_output that are Some
    exits,           \* encoders that ended or could not be built
    speaker,         \* the packet the audio thread is publishing
    soundHolders,    \* the audio pool
    packets,         \* packets of sound published
    inherited,       \* history: the guests that took a seat with something of an earlier guest left
    contended        \* history: a guest and the loop have popped one ring at the same time

guestVars == <<stage, at, held, last>>
encoderVars == <<frames, keys, fresh, epoch, fallback, exits>>
soundVars == <<speaker, soundHolders, packets>>
historyVars == <<inherited, contended>>
vars == <<seat, ring, audio, joins, loop, admitting, active, writer, holders, content,
          guestVars, encoderVars, soundVars, historyVars>>

Init ==
    /\ seat = [s \in Seats |-> "Free"]
    /\ stage = [g \in Guests |-> "out"] /\ at = [g \in Guests |-> None]
    /\ ring = [s \in Seats |-> <<>>] /\ audio = [s \in Seats |-> <<>>]
    /\ held = [g \in Guests |-> None] /\ last = [g \in Guests |-> 0]
    /\ joins = <<>> /\ loop = "waiting" /\ admitting = None
    /\ active = {} /\ writer = None
    /\ holders = [i \in Slots |-> 0] /\ content = [i \in Slots |-> 0]
    /\ frames = 0 /\ keys = {} /\ fresh = FALSE
    /\ epoch = 0 /\ fallback = {} /\ exits = 0
    /\ speaker = None /\ soundHolders = [i \in SoundSlots |-> 0] /\ packets = 0
    /\ inherited = {} /\ contended = FALSE

-----------------------------------------------------------------------------
(* The guest's thread *)

(* What an earlier guest of a seat has left: a Join the loop has not taken, *)
(* or took and is about to apply, an entry in the roster, a queued frame.   *)
Traces(s) ==
    \/ \E k \in DOMAIN joins : joins[k].seat = s
    \/ admitting # None /\ admitting.seat = s
    \/ \E e \in active : e.seat = s
    \/ ring[s] # <<>>

VacantOrTaken(s) == seat[s] # "Leaving"

Vacant(s) == seat[s] = "Free"

(* Seats::take: claim a free seat ... *)
Claim(g, s) ==
    /\ stage[g] = "out" /\ Vacant(s)
    /\ seat' = [seat EXCEPT ![s] = "Claimed"]
    /\ stage' = [stage EXCEPT ![g] = "claiming"]
    /\ at' = [at EXCEPT ![g] = s]
    /\ inherited' = IF Traces(s) THEN inherited \cup {g} ELSE inherited
    /\ UNCHANGED <<ring, audio, held, last, joins, loop, admitting, active, writer, holders, content,
                   encoderVars, soundVars, contended>>

(* ... and, its cells reset, announce it to the loop. *)
Announce(g) ==
    /\ stage[g] = "claiming"
    /\ stage' = [stage EXCEPT ![g] = "seated"]
    /\ joins' = Append(joins, [seat |-> at[g], guest |-> g])
    /\ UNCHANGED <<seat, at, held, last, ring, audio, loop, admitting, active, writer, holders,
                   content, encoderVars, soundVars, historyVars>>

NextFrame(g) ==
    /\ stage[g] = "seated" /\ held[g] = None
    /\ LET queue == ring[at[g]]
       IN  /\ queue # <<>>
           /\ held' = [held EXCEPT ![g] = Head(queue)]
           /\ last' = [last EXCEPT ![g] = Head(queue).frame]
           /\ ring' = [ring EXCEPT ![at[g]] = Tail(queue)]
    /\ UNCHANGED <<seat, stage, at, audio, joins, loop, admitting, active, writer, holders,
                   content, encoderVars, soundVars, historyVars>>

(* The Frame is dropped once it is packetised. *)
DropFrame(g) ==
    /\ held[g] # None
    /\ holders' = [holders EXCEPT ![held[g].slot] = @ - 1]
    /\ held' = [held EXCEPT ![g] = None]
    /\ UNCHANGED <<seat, stage, at, last, ring, audio, joins, loop, admitting, active, writer,
                   content, encoderVars, soundVars, historyVars>>

(* A packet is sent and dropped. *)
NextAudio(g) ==
    /\ stage[g] = "seated"
    /\ LET queue == audio[at[g]]
       IN  /\ queue # <<>>
           /\ soundHolders' = [soundHolders EXCEPT ![Head(queue)] = @ - 1]
           /\ audio' = [audio EXCEPT ![at[g]] = Tail(queue)]
    /\ UNCHANGED <<seat, guestVars, ring, joins, loop, admitting, active, writer, holders,
                   content, encoderVars, speaker, packets, historyVars>>

(* SeatHold is dropped; its frame borrows it and has been dropped before. *)
Leave(g) ==
    /\ stage[g] = "seated" /\ held[g] = None
    /\ seat' = [seat EXCEPT ![at[g]] = "Leaving"]
    /\ stage' = [stage EXCEPT ![g] = "gone"]
    /\ UNCHANGED <<at, held, last, ring, audio, joins, loop, admitting, active, writer, holders,
                   content, encoderVars, soundVars, historyVars>>

-----------------------------------------------------------------------------
(* Giving back what is queued to a set of seats *)

(* The guest a seat belongs to. *)
Occupants(s) == {g \in Guests : at[g] = s /\ stage[g] \in {"claiming", "seated"}}

(* Where a slot waits in the rings of a set of seats: the seat and the     *)
(* position, in the picture rings and in the sound rings.                  *)
Queued(which, slot) ==
    {p \in which \X (1 .. Depth) : p[2] \in DOMAIN ring[p[1]] /\ ring[p[1]][p[2]].slot = slot}

Sounding(which, slot) ==
    {p \in which \X (1 .. SoundDepth) : p[2] \in DOMAIN audio[p[1]] /\ audio[p[1]][p[2]] = slot}

ReleaseEvery(which) ==
    /\ ring' = [s \in Seats |-> <<>>]
    /\ holders' = [i \in Slots |-> holders[i] - Cardinality(Queued(Seats, i))]
    /\ UNCHANGED <<audio, soundHolders>>

(* release: both rings of each seat. *)
Release(which) ==
    /\ ring' = [s \in Seats |-> IF s \in which THEN <<>> ELSE ring[s]]
    /\ audio' = [s \in Seats |-> IF s \in which THEN <<>> ELSE audio[s]]
    /\ holders' = [i \in Slots |-> holders[i] - Cardinality(Queued(which, i))]
    /\ soundHolders' = [i \in SoundSlots |-> soundHolders[i] - Cardinality(Sounding(which, i))]

Freed(which) == seat' = [s \in Seats |-> IF s \in which THEN "Free" ELSE seat[s]]

Leaving == {s \in Seats : seat[s] = "Leaving"}

-----------------------------------------------------------------------------
(* The loop outside an encoder *)

OccupiedByStreaming(states) == \E s \in Seats : states[s] = "Streaming"

Occupied(states) == \E s \in Seats : states[s] # "Free"

(* One pass of the waiting loop: retire_leaving, then on to a build if a   *)
(* seat is occupied.  A request to capture another output is taken here.   *)
Wait ==
    /\ loop = "waiting"
    /\ Release(Leaving) /\ Freed(Leaving)
    /\ IF Occupied(seat')
       THEN /\ loop' = "building"
            /\ \/ UNCHANGED fallback
               \/ fallback' = fallback \cup {"output"}
       ELSE UNCHANGED <<loop, fallback>>
    /\ UNCHANGED <<guestVars, joins, admitting, active, writer, content, frames, keys, fresh,
                   epoch, exits, speaker, packets, historyVars>>

Build ==
    /\ loop = "building"
    /\ loop' = "encoding"
    /\ fresh' = TRUE
    /\ UNCHANGED <<seat, ring, audio, guestVars, joins, admitting, active, writer, holders,
                   content, frames, keys, epoch, fallback, exits, soundVars, historyVars>>

(* Exit::Failed, from a build or from an encoder that stopped answering:   *)
(* back to what ran before if that is known, and otherwise everyone is     *)
(* told and the roster starts again.                                       *)
Failed ==
    /\ loop \in {"building", "pass"} /\ (loop = "pass" => active # {})
    /\ exits < MaxExits
    /\ loop' = "waiting" /\ exits' = exits + 1
    /\ CASE "output" \in fallback -> fallback' = fallback \ {"output"} /\ UNCHANGED active
         [] fallback = {"codec"}  -> fallback' = {} /\ UNCHANGED active
         [] fallback = {}         -> active' = {} /\ UNCHANGED fallback
    /\ UNCHANGED <<seat, ring, audio, guestVars, joins, admitting, writer, holders, content,
                   frames, keys, fresh, epoch, soundVars, historyVars>>

Latched(entries) == {[e EXCEPT !.pending = TRUE] : e \in entries}

(* Exit::Reconfigure and Exit::Rediscover: every guest is latched and the  *)
(* generation moves.                                                       *)
Rebuild(exit) ==
    /\ loop = "pass" /\ active # {}
    /\ exits < MaxExits
    /\ loop' = "waiting" /\ exits' = exits + 1
    /\ active' = Latched(active)
    /\ epoch' = epoch + 1
    /\ fallback' = (fallback \ {"output"}) \cup (IF exit = "Reconfigure" THEN {"codec"} ELSE {})
    /\ UNCHANGED <<seat, ring, audio, guestVars, joins, admitting, writer, holders, content,
                   frames, keys, fresh, soundVars, historyVars>>

-----------------------------------------------------------------------------
(* admit_and_retire, at the top of every pass *)

(* A Join is taken and the seat's state loaded; one that is not Claimed is *)
(* released.                                                               *)
Arrival ==
    /\ loop = "encoding" /\ joins # <<>>
    /\ joins' = Tail(joins)
    /\ IF seat[Head(joins).seat] = "Claimed"
       THEN /\ loop' = "admitting" /\ admitting' = Head(joins)
            /\ UNCHANGED <<ring, audio, holders, soundHolders>>
       ELSE /\ Release({Head(joins).seat})
            /\ UNCHANGED <<loop, admitting>>
    /\ UNCHANGED <<seat, guestVars, active, writer, content, encoderVars, speaker, packets, historyVars>>

(***************************************************************************)
(* release beside a guest, which pops the same rings.  The guest takes the *)
(* k-th of a queue; if it read the head the loop read, it takes what the   *)
(* loop gives back as well, and the one that stores the head last decides  *)
(* what is left in the ring, all of which the loop has given back.         *)
(***************************************************************************)
After(queue, k) == {<<>>, SubSeq(queue, k + 1, Len(queue))}

(* The guest's pop is next_frame's ... *)
TakesBeside(g, s) ==
    \E k \in DOMAIN ring[s], spared \in {0, 1} :
        /\ held[g] = None
        /\ held' = [held EXCEPT ![g] = ring[s][k]]
        /\ last' = [last EXCEPT ![g] = ring[s][k].frame]
        /\ \E queue \in After(ring[s], k) : ring' = [ring EXCEPT ![s] = queue]
        /\ holders' = [i \in Slots |-> holders[i] - Cardinality(Queued({s}, i))
                           + (IF i = ring[s][k].slot THEN spared ELSE 0)]
        /\ audio' = [audio EXCEPT ![s] = <<>>]
        /\ soundHolders' = [i \in SoundSlots |-> soundHolders[i] - Cardinality(Sounding({s}, i))]

(* ... or next_audio's, which gives the packet back once it is sent. *)
HearsBeside(s) ==
    \E k \in DOMAIN audio[s] :
        /\ \E queue \in After(audio[s], k) : audio' = [audio EXCEPT ![s] = queue]
        /\ soundHolders' = [i \in SoundSlots |-> soundHolders[i] - Cardinality(Sounding({s}, i))
                                - (IF i = audio[s][k] THEN 1 ELSE 0)]
        /\ ring' = [ring EXCEPT ![s] = <<>>]
        /\ holders' = [i \in Slots |-> holders[i] - Cardinality(Queued({s}, i))]
        /\ UNCHANGED <<held, last>>

(* A Join whose seat is not Claimed and has a guest. *)
ArrivalContended(g) ==
    /\ loop = "encoding" /\ joins # <<>>
    /\ stage[g] = "seated" /\ at[g] = Head(joins).seat /\ seat[at[g]] # "Claimed"
    /\ joins' = Tail(joins)
    /\ TakesBeside(g, at[g]) \/ HearsBeside(at[g])
    /\ contended' = TRUE
    /\ UNCHANGED <<seat, stage, at, loop, admitting, active, writer, content, encoderVars,
                   speaker, packets, inherited>>

(* The state is stored and the guest enters the roster, latched. *)
Admit ==
    /\ loop = "admitting"
    /\ seat' = [seat EXCEPT ![admitting.seat] = "Streaming"]
    /\ active' = active \cup {[seat |-> admitting.seat, guest |-> admitting.guest, pending |-> TRUE]}
    /\ loop' = "encoding" /\ admitting' = None
    /\ UNCHANGED <<ring, audio, guestVars, joins, writer, holders, content, encoderVars, soundVars, historyVars>>

Left == {s \in Leaving : \E e \in active : e.seat = s}

Remaining(gone) == active \ {gone[s] : s \in DOMAIN gone}

(* One entry of each leaving seat goes; the seat is emptied and freed. *)
Retire ==
    /\ loop = "encoding" /\ joins = <<>>
    /\ Release(Left) /\ Freed(Left)
    /\ \E gone \in [Left -> active] :
          /\ \A s \in Left : gone[s].seat = s
          /\ active' = Remaining(gone)
    /\ loop' = "pass"
    /\ UNCHANGED <<guestVars, joins, admitting, writer, content, encoderVars, speaker, packets, historyVars>>

(* Nothing more to collect: the next pass begins. *)
Pass ==
    /\ loop = "pass"
    /\ loop' = "encoding"
    /\ UNCHANGED <<seat, ring, audio, guestVars, joins, admitting, active, writer, holders,
                   content, encoderVars, soundVars, historyVars>>

-----------------------------------------------------------------------------
(* collect and deliver *)

(* A new encoder has no history: its first picture is a keyframe. *)
Encoded(key) ==
    /\ loop = "pass" /\ active # {} /\ frames < MaxFrames
    /\ fresh => key
    /\ frames' = frames + 1 /\ fresh' = FALSE
    /\ keys' = IF key THEN keys \cup {frames + 1} ELSE keys
    /\ UNCHANGED <<epoch, fallback, exits>>

(* No slot is free, or the frame does not fit one: everyone misses it. *)
Withhold(key) ==
    /\ Encoded(key)
    /\ active' = Latched(active)
    /\ UNCHANGED <<seat, ring, audio, guestVars, joins, loop, admitting, writer, holders, content,
                   soundVars, historyVars>>

(* Gate::admit: the entries that take the frame, given those with room. *)
Admitted(key, room) == {e \in room : key \/ ~e.pending}

HoldsOfWriter(taking) == 1

(* The writer's own hold and one for every guest, counted before a push. *)
Holds(taking) == 1 + Cardinality(taking)

(* A free slot is filled and its holds are counted. *)
Publish(key, room, slot) ==
    /\ Encoded(key)
    /\ holders[slot] = 0
    /\ LET taking == Admitted(key, room)
       IN  /\ holders' = [holders EXCEPT ![slot] = Holds(taking)]
           /\ active' = Latched(active \ taking) \cup {[e EXCEPT !.pending = FALSE] : e \in taking}
           /\ writer' = [slot |-> slot, frame |-> frames + 1,
                         todo |-> {[seat |-> e.seat, guest |-> e.guest] : e \in taking}, refused |-> {}]
    /\ content' = [content EXCEPT ![slot] = frames + 1]
    /\ loop' = "publishing"
    /\ UNCHANGED <<seat, ring, audio, guestVars, joins, admitting, soundVars, historyVars>>

Fits(queue) == Len(queue) < Depth

GiveBackNot(slot) == UNCHANGED holders

GiveBack(slot) == holders' = [holders EXCEPT ![slot] = @ - 1]

(* One push; a full ring gives its hold back. *)
Push(target) ==
    /\ loop = "publishing" /\ target \in writer.todo
    /\ IF Fits(ring[target.seat])
       THEN /\ ring' = [ring EXCEPT ![target.seat] =
                            Append(@, [slot |-> writer.slot, frame |-> writer.frame])]
            /\ writer' = [writer EXCEPT !.todo = @ \ {target}]
            /\ UNCHANGED holders
       ELSE /\ GiveBack(writer.slot)
            /\ writer' = [writer EXCEPT !.todo = @ \ {target}, !.refused = @ \cup {target.guest}]
            /\ UNCHANGED ring
    /\ UNCHANGED <<seat, audio, guestVars, joins, loop, admitting, active, content, encoderVars,
                   soundVars, historyVars>>

RefusedNone == {}

Refused == {e \in active : e.guest \in writer.refused}

(* The writer's own hold goes, and the guests whose ring refused latch. *)
Published ==
    /\ loop = "publishing" /\ writer.todo = {}
    /\ holders' = [holders EXCEPT ![writer.slot] = @ - 1]
    /\ active' = (active \ Refused) \cup Latched(Refused)
    /\ writer' = None
    /\ loop' = "pass"
    /\ UNCHANGED <<seat, ring, audio, guestVars, joins, admitting, content, encoderVars, soundVars, historyVars>>

-----------------------------------------------------------------------------
(* publish_audio, on the audio thread *)

PublishAudio(slot) ==
    /\ speaker = None /\ packets < MaxPackets
    /\ soundHolders[slot] = 0
    /\ LET listening == {s \in Seats : seat[s] = "Streaming"}
       IN  /\ soundHolders' = [soundHolders EXCEPT ![slot] = 1 + Cardinality(listening)]
           /\ speaker' = [slot |-> slot, todo |-> listening]
    /\ packets' = packets + 1
    /\ UNCHANGED <<seat, ring, audio, guestVars, joins, loop, admitting, active, writer, holders,
                   content, encoderVars, historyVars>>

PushAudio(s) ==
    /\ speaker # None /\ s \in speaker.todo
    /\ IF Len(audio[s]) < SoundDepth
       THEN /\ audio' = [audio EXCEPT ![s] = Append(@, speaker.slot)]
            /\ UNCHANGED soundHolders
       ELSE /\ soundHolders' = [soundHolders EXCEPT ![speaker.slot] = @ - 1]
            /\ UNCHANGED audio
    /\ speaker' = [speaker EXCEPT !.todo = @ \ {s}]
    /\ UNCHANGED <<seat, ring, guestVars, joins, loop, admitting, active, writer, holders, content,
                   encoderVars, packets, historyVars>>

AudioPublished ==
    /\ speaker # None /\ speaker.todo = {}
    /\ soundHolders' = [soundHolders EXCEPT ![speaker.slot] = @ - 1]
    /\ speaker' = None
    /\ UNCHANGED <<seat, ring, audio, guestVars, joins, loop, admitting, active, writer, holders,
                   content, encoderVars, packets, historyVars>>

-----------------------------------------------------------------------------

GuestStep ==
    \E g \in Guests :
        \/ \E s \in Seats : Claim(g, s)
        \/ Announce(g)
        \/ NextFrame(g) \/ DropFrame(g) \/ NextAudio(g) \/ Leave(g)

LoopStep ==
    \/ Wait \/ Build \/ Failed
    \/ \E exit \in {"Reconfigure", "Rediscover"} : Rebuild(exit)
    \/ Arrival \/ Admit \/ Retire \/ Pass
    \/ \E g \in Guests : ArrivalContended(g)
    \/ \E key \in BOOLEAN :
          \/ Withhold(key)
          \/ \E room \in SUBSET active, slot \in Slots : Publish(key, room, slot)
    \/ writer # None /\ \E target \in writer.todo : Push(target)
    \/ Published

SoundStep ==
    \/ \E slot \in SoundSlots : PublishAudio(slot)
    \/ \E s \in Seats : PushAudio(s)
    \/ AudioPublished

Next == GuestStep \/ LoopStep \/ SoundStep

Spec == Init /\ [][Next]_vars

(* The loop's thread runs; a guest and the sound may stop at any time. *)
FairSpec == Spec /\ WF_vars(LoopStep)

-----------------------------------------------------------------------------
(* Properties *)

(* Every variable has its type, and no ring is longer than its capacity.   *)
(* A pool count is an AtomicUsize; one that wrapped is negative here.      *)
TypeOK ==
    /\ seat \in [Seats -> {"Free", "Claimed", "Streaming", "Leaving"}]
    /\ stage \in [Guests -> {"out", "claiming", "seated", "gone"}]
    /\ at \in [Guests -> Seats \cup {None}]
    /\ ring \in [Seats -> Seq(Frame)] /\ \A s \in Seats : Len(ring[s]) <= Depth
    /\ audio \in [Seats -> Seq(SoundSlots)] /\ \A s \in Seats : Len(audio[s]) <= SoundDepth
    /\ held \in [Guests -> Frame \cup {None}] /\ last \in [Guests -> 0 .. MaxFrames]
    /\ joins \in Seq(Join) /\ admitting \in Join \cup {None}
    /\ loop \in {"waiting", "building", "encoding", "admitting", "pass", "publishing"}
    /\ active \subseteq Active /\ writer \in Publication \cup {None}
    /\ holders \in [Slots -> Int] /\ content \in [Slots -> 0 .. MaxFrames]
    /\ frames \in 0 .. MaxFrames /\ keys \subseteq 1 .. frames /\ fresh \in BOOLEAN
    /\ epoch \in 0 .. exits
    /\ fallback \subseteq {"codec", "output"} /\ exits \in 0 .. MaxExits
    /\ speaker \in Broadcast \cup {None}
    /\ soundHolders \in [SoundSlots -> Int] /\ packets \in 0 .. MaxPackets
    /\ inherited \subseteq Guests /\ contended \in BOOLEAN

(***************************************************************************)
(* "Every hold comes back": the count of a slot is the number of rings it  *)
(* is queued in, of guests holding it, and of the writer's holds: its own  *)
(* and one for each push still to come.  A count too low lets the encoder  *)
(* overwrite a frame being sent, one too high loses the slot for ever.  It *)
(* holds across early leaving, failed encoders and rebuilds, until two     *)
(* threads have popped one ring at the same time: see SingleConsumer.      *)
(***************************************************************************)
HoldsCounted ==
    \/ contended
    \/ /\ \A i \in Slots : holders[i] =
             Cardinality(Queued(Seats, i))
             + Cardinality({g \in Guests : held[g] # None /\ held[g].slot = i})
             + IF writer # None /\ writer.slot = i THEN 1 + Cardinality(writer.todo) ELSE 0
       /\ \A i \in SoundSlots : soundHolders[i] =
             Cardinality(Sounding(Seats, i))
             + IF speaker # None /\ speaker.slot = i THEN 1 + Cardinality(speaker.todo) ELSE 0

(* A frame that is queued to a guest or being sent by one still has the    *)
(* bytes it was published with, with the same exception.                   *)
FramesIntact ==
    \/ contended
    \/ /\ \A s \in Seats : \A i \in DOMAIN ring[s] : content[ring[s][i].slot] = ring[s][i].frame
       /\ \A g \in Guests : held[g] # None => content[held[g].slot] = held[g].frame

(* What g took last and what is queued at s is a chain: every frame is a   *)
(* keyframe or follows its predecessor, and the first of all is a keyframe.*)
Unbroken(s, g) ==
    LET queue == ring[s]
        before(i) == IF i = 1 THEN last[g] ELSE queue[i - 1].frame
    IN  \A i \in DOMAIN queue :
            \/ queue[i].frame \in keys
            \/ before(i) > 0 /\ queue[i].frame = before(i) + 1

(* The guests of a seat that took it with nothing of an earlier guest left. *)
Clean(s) == Occupants(s) \ inherited

(***************************************************************************)
(* A guest that inherited nothing is never handed a predicted frame        *)
(* without the frame before it, whatever its ring refuses, the pool        *)
(* withholds, and guests, sound and encoders that come and go around it    *)
(* do.  AnyChainUnbroken is the same for every guest.                      *)
(***************************************************************************)
ChainUnbroken == \A s \in Seats : \A g \in Clean(s) : Unbroken(s, g)

(***************************************************************************)
(* A guest that inherited nothing has the seat to itself: the roster has   *)
(* no entry for the seat but this guest's own, one at most, and only once  *)
(* the seat is Streaming.  A second entry would feed the seat twice, one   *)
(* made before would hand the guest what the gate has not latched.         *)
(***************************************************************************)
RosterIsSeated ==
    \A s \in Seats : \A g \in Clean(s) : \A e, f \in active :
        e.seat = s /\ f.seat = s => e = f /\ e.guest = g /\ seat[s] = "Streaming"

(* "The seat's guest [is] the only popper": while a guest that inherited   *)
(* nothing holds a seat, nothing is taken out of its picture ring but by   *)
(* that guest.                                                             *)
GuestIsOnlyPopper ==
    [][\A g \in Guests \ inherited :
          stage[g] = "seated" /\ Len(ring'[at[g]]) < Len(ring[at[g]]) => held'[g] # held[g]]_vars

(* A guest that has taken a seat is admitted, unless it leaves first. *)
GuestIsAdmitted ==
    \A g \in Guests, s \in Seats :
        (stage[g] = "seated" /\ at[g] = s) ~> (stage[g] = "gone" \/ seat[s] = "Streaming")

-----------------------------------------------------------------------------
(* What the source says of every guest and every seat *)

(* "Single producer, single consumer: the loop is the only pusher and the  *)
(* seat's guest the only popper": release never pops beside a guest.       *)
SingleConsumer == ~contended

(* "A guest that misses one frame must miss every frame until the next     *)
(* keyframe": no guest, whatever it inherited, is handed a broken chain.   *)
AnyChainUnbroken == \A s \in Seats : \A g \in Occupants(s) : Unbroken(s, g)

(* The loop "publishes nothing more there, releases whatever is still      *)
(* queued, and only then frees the seat": a free seat has nothing queued.  *)
FreeSeatIsEmpty == \A s \in Seats : seat[s] = "Free" => ring[s] = <<>> /\ audio[s] = <<>>

(* "The seat comes back on drop, whatever path the guest's thread left by." *)
SeatComesBack == \A s \in Seats : seat[s] = "Leaving" ~> seat[s] = "Free"
=============================================================================
