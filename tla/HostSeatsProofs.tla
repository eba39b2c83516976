--------------------------- MODULE HostSeatsProofs ---------------------------
(***************************************************************************)
(* Proofs about the host's seats.  The first part is about the pools: the  *)
(* count of every slot is exact, so that no frame is overwritten while a   *)
(* guest has it, for as long as every ring has had one consumer.  The      *)
(* second part is about a guest that took its seat with nothing of an      *)
(* earlier guest left there: what the seat's state says about its ring and *)
(* its entry in the roster, and the chain of frames it is handed, whatever *)
(* other guests, the sound and the encoder do.                             *)
(***************************************************************************)
EXTENDS HostSeats, Integers, FiniteSetTheorems, TLAPS

(* What the loop's thread holds follows from where it stands. *)
Threads ==
    /\ (loop = "publishing") <=> (writer # None)
    /\ (loop = "admitting") <=> (admitting # None)
    /\ writer # None => IsFiniteSet(writer.todo) /\ content[writer.slot] = writer.frame
    /\ speaker # None => IsFiniteSet(speaker.todo)
    /\ \A g \in Guests : stage[g] \in {"claiming", "seated"} => at[g] \in Seats

Announced(g) == stage[g] \in {"seated", "gone"}

(* A guest announces itself once, and is then on its way, being admitted   *)
(* or in the roster: once, and in one of these places.                     *)
Once ==
    /\ \A e \in active : Announced(e.guest)
    /\ \A e, f \in active : e.guest = f.guest => e = f
    /\ admitting # None =>
          Announced(admitting.guest) /\ \A e \in active : e.guest # admitting.guest
    /\ \A k \in DOMAIN joins :
          /\ Announced(joins[k].guest)
          /\ \A e \in active : e.guest # joins[k].guest
          /\ admitting # None => admitting.guest # joins[k].guest
    /\ \A k, l \in DOMAIN joins : joins[k].guest = joins[l].guest => k = l

SeatsInv == TypeOK /\ Threads /\ Once /\ HoldsCounted /\ FramesIntact

-----------------------------------------------------------------------------

(* What a seat's state says of its guest and, of one that inherited        *)
(* nothing, of its ring, its entry and its Join.                           *)
Settled(s, g) ==
    /\ seat[s] = "Claimed" => ring[s] = <<>>
    /\ stage[g] = "claiming" => seat[s] = "Claimed"
    /\ \A e \in active : e.seat = s => e.guest = g /\ seat[s] = "Streaming"
    /\ \A k \in DOMAIN joins : joins[k].seat = s => joins[k].guest = g /\ seat[s] = "Claimed"
    /\ admitting # None /\ admitting.seat = s => admitting.guest = g /\ seat[s] = "Claimed"

Discipline ==
    /\ \A s \in Seats : \A g, h \in Occupants(s) : g = h
    /\ \A s \in Seats : seat[s] \in {"Free", "Leaving"} => Occupants(s) = {}
    /\ \A s \in Seats : \A g \in Clean(s) : Settled(s, g)
    /\ writer # None =>
          \A t \in writer.todo : \E e \in active : e.seat = t.seat /\ e.guest = t.guest

(* Of a queue and the frame taken before it: the newest frame, and whether *)
(* every one queued is a keyframe or follows its predecessor.              *)
NewestOf(q, taken) == IF q = <<>> THEN taken ELSE q[Len(q)].frame
Chained(q, taken, ks) ==
    \A i \in DOMAIN q :
        LET before == IF i = 1 THEN taken ELSE q[i - 1].frame
        IN  q[i].frame \in ks \/ (before > 0 /\ q[i].frame = before + 1)

(* The frame a guest was handed last or will be. *)
Newest(s, g) == NewestOf(ring[s], last[g])

(* Who the frame still to be pushed follows. *)
Linked(t) ==
    \/ frames \in keys
    \/ t.guest \in Clean(t.seat) =>
          Newest(t.seat, t.guest) > 0 /\ frames = Newest(t.seat, t.guest) + 1

(* The gate's latch: a guest that inherited nothing and is not latched has *)
(* every frame so far, or the frame being published is still to be pushed  *)
(* to it or was refused by its ring.                                       *)
Latch ==
    /\ writer # None => writer.frame = frames /\ \A t \in writer.todo : Linked(t)
    /\ \A e \in active : ~e.pending =>
          \/ writer # None /\ e.guest \in writer.refused
          \/ writer # None /\ [seat |-> e.seat, guest |-> e.guest] \in writer.todo
          \/ e.guest \in Clean(e.seat) =>
                Newest(e.seat, e.guest) > 0 /\ Newest(e.seat, e.guest) = frames

CleanInv == SeatsInv /\ Discipline /\ Latch /\ ChainUnbroken

-----------------------------------------------------------------------------
(* Counting the places where something waits in a set of queues. *)

Places(q, which, depth, X) ==
    {p \in which \X (1 .. depth) : p[2] \in DOMAIN q[p[1]] /\ q[p[1]][p[2]] \in X}

(* The places are finitely many. *)
LEMMA PlacesFinite ==
  ASSUME NEW q, NEW which \in SUBSET Seats, NEW depth \in Nat, NEW X
  PROVE  /\ IsFiniteSet(Places(q, which, depth, X))
         /\ Cardinality(Places(q, which, depth, X)) \in Nat
<1>1. IsFiniteSet(which)
  BY SeatsAssumption, FS_Subset
<1>2. IsFiniteSet(1 .. depth)
  <2>1. 1 \in Int /\ depth \in Int
    OBVIOUS
  <2> QED BY <2>1, FS_Interval
<1>3. IsFiniteSet(which \X (1 .. depth))
  BY <1>1, <1>2, FS_Product
<1>4. Places(q, which, depth, X) \in SUBSET (which \X (1 .. depth))
  BY DEF Places
<1>5. IsFiniteSet(Places(q, which, depth, X))
  BY <1>3, <1>4, FS_Subset
<1> QED BY <1>5, FS_CardinalityType

(* Emptying some of the queues removes the places in these. *)
LEMMA PlacesEmptied ==
  ASSUME NEW q, NEW which \in SUBSET Seats, NEW depth \in Nat, NEW X, NEW r,
         r = [s \in Seats |-> IF s \in which THEN <<>> ELSE q[s]]
  PROVE  Cardinality(Places(r, Seats, depth, X)) =
            Cardinality(Places(q, Seats, depth, X)) - Cardinality(Places(q, which, depth, X))
<1> DEFINE A == Places(q, Seats, depth, X)
           B == Places(q, which, depth, X)
<1>1. Places(r, Seats, depth, X) = A \ B
  <2>1. \A p \in Seats \X (1 .. depth) : p[1] \in Seats /\ p[2] \in 1 .. depth
    OBVIOUS
  <2>2. ASSUME NEW p \in Seats \X (1 .. depth) PROVE p \in Places(r, Seats, depth, X) <=> p \in A \ B
    <3>1. CASE p[1] \in which
      <4>1. r[p[1]] = <<>> /\ DOMAIN r[p[1]] = {}
        BY <2>1, <3>1
      <4>2. p \in which \X (1 .. depth)
        BY <2>1, <3>1
      <4> QED BY <4>1, <4>2 DEF Places
    <3>2. CASE p[1] \notin which
      <4>1. r[p[1]] = q[p[1]]
        BY <2>1, <3>2
      <4>2. p \notin which \X (1 .. depth)
        BY <2>1, <3>2
      <4> QED BY <4>1, <4>2 DEF Places
    <3> QED BY <3>1, <3>2
  <2>3. Places(r, Seats, depth, X) \subseteq Seats \X (1 .. depth) /\ A \subseteq Seats \X (1 .. depth)
    BY DEF Places
  <2> HIDE DEF A, B
  <2> QED BY <2>2, <2>3
<1>2. B \subseteq A
  BY DEF Places
<1>3. IsFiniteSet(A)
  BY PlacesFinite
<1> HIDE DEF A, B
<1>4. Cardinality(A \ B) = Cardinality(A) - Cardinality(A \cap B)
  BY <1>3, FS_Difference
<1>5. A \cap B = B
  BY <1>2
<1> QED BY <1>1, <1>4, <1>5 DEF A, B

(* The queue of a seat grows at its end, or loses its first. *)
Pushed(T, q, r, s, x, depth) ==
    /\ q \in [Seats -> Seq(T)] /\ s \in Seats /\ x \in T /\ depth \in Nat /\ Len(q[s]) < depth
    /\ r = [q EXCEPT ![s] = Append(@, x)]
Popped(T, q, r, s, depth) ==
    /\ q \in [Seats -> Seq(T)] /\ s \in Seats /\ depth \in Nat /\ q[s] # <<>> /\ Len(q[s]) <= depth
    /\ r = [q EXCEPT ![s] = Tail(@)]

(* One more at the end of a queue is one more place. *)
LEMMA PlacesPushed ==
  ASSUME NEW T, NEW q, NEW r, NEW s, NEW x, NEW depth, NEW X, Pushed(T, q, r, s, x, depth)
  PROVE  Cardinality(Places(r, Seats, depth, X)) =
            Cardinality(Places(q, Seats, depth, X)) + (IF x \in X THEN 1 ELSE 0)
<1> USE DEF Pushed
<1> DEFINE A == Places(q, Seats, depth, X)
           n == Len(q[s]) + 1
           p0 == <<s, n>>
<1>1. q[s] \in Seq(T) /\ n \in 1 .. depth /\ r[s] = Append(q[s], x)
  OBVIOUS
<1>2. p0 \in Seats \X (1 .. depth) /\ p0[1] = s /\ p0[2] = n
  BY <1>1
<1>3. p0 \notin A
  BY <1>1, <1>2 DEF Places
<1>4. DOMAIN r[s] = 1 .. n /\ r[s][n] = x /\ \A k \in DOMAIN q[s] : r[s][k] = q[s][k]
  BY <1>1
<1>5. ASSUME NEW p \in Seats \X (1 .. depth), p # p0
      PROVE  p \in Places(r, Seats, depth, X) <=> p \in A
  <2>1. p[1] \in Seats /\ p[2] \in 1 .. depth /\ p = <<p[1], p[2]>>
    OBVIOUS
  <2>2. CASE p[1] # s
    <3>1. r[p[1]] = q[p[1]]
      BY <2>1, <2>2
    <3> QED BY <3>1 DEF Places
  <2>3. CASE p[1] = s
    <3>1. p[2] # n
      BY <1>5, <2>1, <2>3
    <3>2. p[2] \in DOMAIN r[s] <=> p[2] \in DOMAIN q[s]
      BY <1>1, <1>4, <2>1, <3>1
    <3>3. p[2] \in DOMAIN q[s] => r[s][p[2]] = q[s][p[2]]
      BY <1>4
    <3> QED BY <2>3, <3>2, <3>3 DEF Places
  <2> QED BY <2>2, <2>3
<1>6. p0 \in Places(r, Seats, depth, X) <=> x \in X
  BY <1>1, <1>2, <1>4 DEF Places
<1>7. Places(r, Seats, depth, X) \subseteq Seats \X (1 .. depth) /\ A \subseteq Seats \X (1 .. depth)
  BY DEF Places
<1>8. IsFiniteSet(A) /\ Cardinality(A) \in Nat
  BY PlacesFinite
<1> HIDE DEF A, p0
<1>9. CASE x \in X
  <2>1. Places(r, Seats, depth, X) = A \cup {p0}
    BY <1>5, <1>6, <1>7, <1>9
  <2> QED BY <1>3, <1>8, <1>9, <2>1, FS_AddElement DEF A
<1>10. CASE x \notin X
  <2> DEFINE B == Places(r, Seats, depth, X)
             U == Seats \X (1 .. depth)
  <2>1. B \subseteq U /\ A \subseteq U /\ p0 \notin A /\ p0 \notin B /\ \A p \in U : p # p0 => (p \in B <=> p \in A)
    BY <1>3, <1>5, <1>6, <1>7, <1>10
  <2> HIDE DEF B, U
  <2>2. B = A
    <3>1. \A p \in U : p \in B <=> p \in A
      BY <2>1
    <3> QED BY <2>1, <3>1
  <2> QED BY <1>8, <1>10, <2>2 DEF A, B
<1> QED BY <1>9, <1>10

(* Taking the first of a queue is one place less; the others move up. *)
LEMMA PlacesPopped ==
  ASSUME NEW T, NEW q, NEW r, NEW s, NEW depth, NEW X, Popped(T, q, r, s, depth)
  PROVE  Cardinality(Places(r, Seats, depth, X)) =
            Cardinality(Places(q, Seats, depth, X)) - (IF Head(q[s]) \in X THEN 1 ELSE 0)
<1> USE DEF Popped
<1> DEFINE A == Places(q, Seats, depth, X)
           B == Places(r, Seats, depth, X)
           p0 == <<s, 1>>
           C == A \ {p0}
           up(p) == IF p[1] = s THEN <<s, p[2] + 1>> ELSE p
           f == [p \in B |-> up(p)]
<1>1. /\ q[s] \in Seq(T) /\ Len(q[s]) \in 1 .. depth /\ r[s] = Tail(q[s])
      /\ DOMAIN r[s] = 1 .. Len(q[s]) - 1
      /\ \A k \in 1 .. Len(q[s]) - 1 : r[s][k] = q[s][k + 1]
  OBVIOUS
<1>2. p0 \in Seats \X (1 .. depth) /\ p0[1] = s /\ p0[2] = 1
  BY <1>1
<1>3. p0 \in A <=> Head(q[s]) \in X
  BY <1>1, <1>2 DEF Places
<1>4. \A t \in Seats \ {s} : r[t] = q[t]
  OBVIOUS
<1>5. ASSUME NEW p \in B PROVE up(p) \in C
  <2>1. p \in Seats \X (1 .. depth) /\ p[2] \in DOMAIN r[p[1]] /\ r[p[1]][p[2]] \in X
    BY DEF Places
  <2>2. CASE p[1] = s
    <3>1. p[2] \in 1 .. Len(q[s]) - 1 /\ q[s][p[2] + 1] \in X
      BY <1>1, <2>1, <2>2
    <3>2. p[2] + 1 \in 1 .. depth /\ p[2] + 1 \in DOMAIN q[s] /\ p[2] + 1 # 1
      BY <1>1, <3>1
    <3>3. <<s, p[2] + 1>> \in A /\ <<s, p[2] + 1>> # p0
      BY <3>1, <3>2 DEF Places
    <3> QED BY <2>2, <3>3
  <2>3. CASE p[1] # s
    <3>1. p[1] \in Seats \ {s}
      BY <2>1, <2>3
    <3>2. p \in A
      BY <1>4, <2>1, <3>1 DEF Places
    <3> QED BY <2>3, <3>2
  <2> QED BY <2>2, <2>3
<1>6. ASSUME NEW c \in C PROVE \E p \in B : up(p) = c
  <2>1. c \in Seats \X (1 .. depth) /\ c[2] \in DOMAIN q[c[1]] /\ q[c[1]][c[2]] \in X /\ c = <<c[1], c[2]>>
    BY DEF Places
  <2>2. CASE c[1] = s
    <3>1. c[2] # 1 /\ c[2] \in 1 .. Len(q[s])
      BY <1>1, <2>1, <2>2
    <3> DEFINE k == c[2] - 1
    <3>2. k \in 1 .. Len(q[s]) - 1 /\ k \in 1 .. depth /\ k + 1 = c[2]
      BY <1>1, <3>1
    <3> HIDE DEF k
    <3>3. k \in DOMAIN r[s] /\ r[s][k] \in X
      BY <1>1, <2>1, <2>2, <3>2
    <3>4. <<s, k>> \in B
      BY <3>2, <3>3 DEF Places
    <3>5. up(<<s, k>>) = c
      BY <2>1, <2>2, <3>2
    <3> QED BY <3>4, <3>5
  <2>3. CASE c[1] # s
    <3>1. c[1] \in Seats \ {s}
      BY <2>1, <2>3
    <3>2. c \in B
      BY <1>4, <2>1, <3>1 DEF Places
    <3> QED BY <2>3, <3>2
  <2> QED BY <2>2, <2>3
<1>7. ASSUME NEW p \in B, NEW o \in B, up(p) = up(o) PROVE p = o
  <2>1. p \in Seats \X (1 .. depth) /\ o \in Seats \X (1 .. depth)
    BY DEF Places
  <2>2. p = <<p[1], p[2]>> /\ o = <<o[1], o[2]>> /\ p[2] \in Int /\ o[2] \in Int
    BY <2>1
  <2>3. CASE p[1] = s /\ o[1] = s
    <3>1. <<s, p[2] + 1>> = <<s, o[2] + 1>>
      BY <1>7, <2>3
    <3>2. p[2] + 1 = o[2] + 1
      BY <3>1
    <3> QED BY <2>2, <2>3, <3>2
  <2>4. CASE p[1] # s \/ o[1] # s
    BY <1>7, <2>2, <2>4
  <2> QED BY <2>3, <2>4
<1>8. IsFiniteSet(A) /\ Cardinality(A) \in Nat /\ IsFiniteSet(B)
  BY PlacesFinite
<1>9. f \in Bijection(B, C)
  <2>1. f \in [B -> C] /\ (\A c \in C : \E p \in B : f[p] = c) /\ \A p, o \in B : f[p] = f[o] => p = o
    BY <1>5, <1>6, <1>7
  <2> HIDE DEF f, B, C
  <2> QED BY <2>1 DEF Bijection, Injection, Surjection, IsInjective
<1> HIDE DEF f, A, B, p0
<1>10. Cardinality(C) = Cardinality(B)
  BY <1>8, <1>9, FS_Bijection DEF ExistsBijection
<1>11. Cardinality(C) = IF p0 \in A THEN Cardinality(A) - 1 ELSE Cardinality(A)
  BY <1>8, FS_RemoveElement
<1> HIDE DEF C
<1>12. Cardinality(B) = Cardinality(A) - (IF Head(q[s]) \in X THEN 1 ELSE 0)
  BY <1>3, <1>8, <1>10, <1>11
<1> QED BY <1>12 DEF A, B

-----------------------------------------------------------------------------
(* Types *)

(* TypeOK without the history variables, which few steps change. *)
Shapes ==
    /\ seat \in [Seats -> {"Free", "Claimed", "Streaming", "Leaving"}]
    /\ stage \in [Guests -> {"out", "claiming", "seated", "gone"}]
    /\ at \in [Guests -> Seats \cup {None}]
    /\ ring \in [Seats -> Seq(Frame)] /\ \A s \in Seats : Len(ring[s]) <= Depth
    /\ audio \in [Seats -> Seq(SoundSlots)] /\ \A s \in Seats : Len(audio[s]) <= SoundDepth
    /\ held \in [Guests -> Frame \cup {None}] /\ last \in [Guests -> 0 .. MaxFrames]
    /\ joins \in Seq(Join) /\ admitting \in Join \cup {None}
    /\ loop \in {"waiting", "building", "encoding", "admitting", "pass", "publishing"}
    /\ active \subseteq Active /\ writer \in Publication \cup {None}
    /\ holders \in [Slots -> Int] /\ content \in [Slots -> 0 .. MaxFrames]
    /\ frames \in 0 .. MaxFrames /\ keys \subseteq 1 .. frames /\ fresh \in BOOLEAN
    /\ epoch \in 0 .. exits
    /\ fallback \subseteq {"codec", "output"} /\ exits \in 0 .. MaxExits
    /\ speaker \in Broadcast \cup {None}
    /\ soundHolders \in [SoundSlots -> Int] /\ packets \in 0 .. MaxPackets

(* Setting a gate's latch leaves an entry its seat and its guest. *)
LEMMA LatchKeeps ==
  ASSUME NEW e \in Active, NEW b \in BOOLEAN
  PROVE  /\ [e EXCEPT !.pending = b] \in Active
         /\ [e EXCEPT !.pending = b].seat = e.seat
         /\ [e EXCEPT !.pending = b].guest = e.guest
         /\ [e EXCEPT !.pending = b].pending = b
BY DEF Active

(* Shutting the gate of an entry leaves it an entry of the roster. *)
LEMMA LatchedType ==
  ASSUME NEW S \in SUBSET Active
  PROVE  Latched(S) \in SUBSET Active
BY LatchKeeps DEF Latched

(* release gives every seat its queues or empty ones, and whole counts. *)
LEMMA ReleaseShapes ==
  ASSUME Shapes, NEW which \in SUBSET Seats, Release(which)
  PROVE  /\ ring' \in [Seats -> Seq(Frame)] /\ \A s \in Seats : Len(ring'[s]) <= Depth
         /\ audio' \in [Seats -> Seq(SoundSlots)] /\ \A s \in Seats : Len(audio'[s]) <= SoundDepth
         /\ holders' \in [Slots -> Int] /\ soundHolders' \in [SoundSlots -> Int]
<1>1. <<>> \in Seq(Frame) /\ <<>> \in Seq(SoundSlots) /\ Len(<<>>) <= Depth /\ Len(<<>>) <= SoundDepth
  BY SeatsAssumption
<1>2. \A s \in Seats : ring'[s] \in {<<>>, ring[s]} /\ audio'[s] \in {<<>>, audio[s]}
  BY DEF Release
<1>3. \A i : Cardinality(Queued(which, i)) \in Int /\ Cardinality(Sounding(which, i)) \in Int
  <2> SUFFICES ASSUME NEW i PROVE Cardinality(Queued(which, i)) \in Int /\ Cardinality(Sounding(which, i)) \in Int
    OBVIOUS
  <2>1. IsFiniteSet(which)
    BY SeatsAssumption, FS_Subset
  <2>2. 1 \in Int /\ Depth \in Int /\ SoundDepth \in Int
    BY SeatsAssumption
  <2>3. IsFiniteSet(1 .. Depth) /\ IsFiniteSet(1 .. SoundDepth)
    BY <2>2, FS_Interval
  <2>4. IsFiniteSet(which \X (1 .. Depth)) /\ IsFiniteSet(which \X (1 .. SoundDepth))
    BY <2>1, <2>3, FS_Product
  <2>5. Queued(which, i) \in SUBSET (which \X (1 .. Depth)) /\ Sounding(which, i) \in SUBSET (which \X (1 .. SoundDepth))
    BY DEF Queued, Sounding
  <2>6. IsFiniteSet(Queued(which, i)) /\ IsFiniteSet(Sounding(which, i))
    BY <2>4, <2>5, FS_Subset
  <2>7. Cardinality(Queued(which, i)) \in Nat /\ Cardinality(Sounding(which, i)) \in Nat
    BY <2>6, FS_CardinalityType
  <2> QED BY <2>7
<1>4. holders' \in [Slots -> Int] /\ soundHolders' \in [SoundSlots -> Int]
  BY <1>3 DEF Release, Shapes
<1>5. ring' \in [Seats -> Seq(Frame)] /\ audio' \in [Seats -> Seq(SoundSlots)]
  <2>1. /\ ring' = [s \in Seats |-> IF s \in which THEN <<>> ELSE ring[s]]
        /\ audio' = [s \in Seats |-> IF s \in which THEN <<>> ELSE audio[s]]
    BY DEF Release
  <2> QED BY <1>1, <2>1 DEF Shapes
<1>6. \A s \in Seats : Len(ring'[s]) <= Depth /\ Len(audio'[s]) <= SoundDepth
  BY <1>1, <1>2 DEF Shapes
<1> QED BY <1>4, <1>5, <1>6

(* A guest's step keeps the types. *)
LEMMA GuestShapes ==
  ASSUME Shapes, Threads, GuestStep
  PROVE  Shapes'
<1> PICK g \in Guests : \/ \E s \in Seats : Claim(g, s)
                        \/ Announce(g)
                        \/ NextFrame(g) \/ DropFrame(g) \/ NextAudio(g) \/ Leave(g)
  BY DEF GuestStep
<1>1. ASSUME NEW s \in Seats, Claim(g, s) PROVE Shapes'
  BY <1>1 DEF Claim, Shapes, encoderVars, soundVars
<1>2. CASE Announce(g)
  <2>1. at[g] \in Seats
    BY <1>2 DEF Announce, Threads
  <2>2. joins' \in Seq(Join)
    <3>1. [seat |-> at[g], guest |-> g] \in Join
      BY <2>1 DEF Join
    <3> QED BY <1>2, <3>1 DEF Announce, Shapes
  <2>3. stage' \in [Guests -> {"out", "claiming", "seated", "gone"}]
    BY <1>2 DEF Announce, Shapes
  <2> QED BY <1>2, <2>2, <2>3 DEF Announce, Shapes, encoderVars, soundVars
<1>3. CASE NextFrame(g)
  <2> DEFINE s == at[g]
  <2>1. s \in Seats /\ ring[s] \in Seq(Frame) /\ ring[s] # <<>> /\ Len(ring[s]) <= Depth
    BY <1>3 DEF NextFrame, Threads, Shapes
  <2>2. /\ Head(ring[s]) \in Frame /\ Tail(ring[s]) \in Seq(Frame) /\ Len(Tail(ring[s])) <= Depth
        /\ Head(ring[s]).frame \in 0 .. MaxFrames
    <3>1. Head(ring[s]) \in Frame /\ Tail(ring[s]) \in Seq(Frame) /\ Len(Tail(ring[s])) = Len(ring[s]) - 1
      BY <2>1
    <3>2. Head(ring[s]).frame \in 0 .. MaxFrames
      BY <3>1, SeatsAssumption DEF Frame
    <3> QED BY <2>1, <3>1, <3>2, SeatsAssumption
  <2>3. /\ held' = [held EXCEPT ![g] = Head(ring[s])] /\ last' = [last EXCEPT ![g] = Head(ring[s]).frame]
        /\ ring' = [ring EXCEPT ![s] = Tail(ring[s])]
    BY <1>3 DEF NextFrame
  <2>4. /\ held' \in [Guests -> Frame \cup {None}] /\ last' \in [Guests -> 0 .. MaxFrames]
        /\ ring' \in [Seats -> Seq(Frame)] /\ \A t \in Seats : Len(ring'[t]) <= Depth
    BY <2>1, <2>2, <2>3 DEF Shapes
  <2> QED BY <1>3, <2>4 DEF NextFrame, Shapes, encoderVars, soundVars
<1>4. CASE DropFrame(g)
  <2>1. held[g].slot \in Slots
    BY <1>4 DEF DropFrame, Shapes, Frame
  <2>2. holders' \in [Slots -> Int] /\ held' \in [Guests -> Frame \cup {None}]
    BY <1>4, <2>1 DEF DropFrame, Shapes
  <2> QED BY <1>4, <2>2 DEF DropFrame, Shapes, encoderVars, soundVars
<1>5. CASE NextAudio(g)
  <2> DEFINE s == at[g]
  <2>1. s \in Seats /\ audio[s] \in Seq(SoundSlots) /\ audio[s] # <<>> /\ Len(audio[s]) <= SoundDepth
    BY <1>5 DEF NextAudio, Threads, Shapes
  <2>2. Head(audio[s]) \in SoundSlots /\ Tail(audio[s]) \in Seq(SoundSlots) /\ Len(Tail(audio[s])) <= SoundDepth
    BY <2>1, SeatsAssumption
  <2>3. /\ soundHolders' = [soundHolders EXCEPT ![Head(audio[s])] = @ - 1]
        /\ audio' = [audio EXCEPT ![s] = Tail(audio[s])]
    BY <1>5 DEF NextAudio
  <2>4. /\ soundHolders' \in [SoundSlots -> Int]
        /\ audio' \in [Seats -> Seq(SoundSlots)] /\ \A t \in Seats : Len(audio'[t]) <= SoundDepth
    BY <2>1, <2>2, <2>3 DEF Shapes
  <2> QED BY <1>5, <2>4 DEF NextAudio, Shapes, guestVars, encoderVars
<1>6. CASE Leave(g)
  BY <1>6 DEF Leave, Shapes, encoderVars, soundVars
<1> QED BY <1>1, <1>2, <1>3, <1>4, <1>5, <1>6

(* A step of the audio thread keeps the types. *)
LEMMA SoundShapes ==
  ASSUME Shapes, SoundStep
  PROVE  Shapes'
<1>1. ASSUME NEW slot \in SoundSlots, PublishAudio(slot) PROVE Shapes'
  <2> DEFINE listening == {s \in Seats : seat[s] = "Streaming"}
  <2>1. Cardinality(listening) \in Int
    <3>1. IsFiniteSet(listening)
      BY SeatsAssumption, FS_Subset
    <3>2. Cardinality(listening) \in Nat
      BY <3>1, FS_CardinalityType
    <3> QED BY <3>2
  <2>2. [slot |-> slot, todo |-> listening] \in Broadcast
    BY DEF Broadcast
  <2>3. speaker' = [slot |-> slot, todo |-> listening] /\ soundHolders' = [soundHolders EXCEPT ![slot] = 1 + Cardinality(listening)]
    BY <1>1 DEF PublishAudio
  <2> HIDE DEF listening
  <2>4. soundHolders' \in [SoundSlots -> Int] /\ packets' \in 0 .. MaxPackets
    BY <1>1, <2>1, <2>3, SeatsAssumption DEF PublishAudio, Shapes
  <2> QED BY <1>1, <2>2, <2>3, <2>4 DEF PublishAudio, Shapes, guestVars, encoderVars
<1>2. ASSUME NEW s \in Seats, PushAudio(s) PROVE Shapes'
  <2>1. speaker \in Broadcast /\ speaker.slot \in SoundSlots
    BY <1>2 DEF PushAudio, Shapes, Broadcast
  <2>2. speaker' \in Broadcast
    BY <1>2, <2>1 DEF PushAudio, Broadcast
  <2>3. /\ audio' \in [Seats -> Seq(SoundSlots)] /\ \A t \in Seats : Len(audio'[t]) <= SoundDepth
        /\ soundHolders' \in [SoundSlots -> Int]
    <3>1. CASE Len(audio[s]) < SoundDepth
      <4>1. audio' = [audio EXCEPT ![s] = Append(audio[s], speaker.slot)] /\ soundHolders' = soundHolders
        BY <1>2, <3>1 DEF PushAudio
      <4>2. audio[s] \in Seq(SoundSlots)
        BY DEF Shapes
      <4>3. Append(audio[s], speaker.slot) \in Seq(SoundSlots) /\ Len(Append(audio[s], speaker.slot)) <= SoundDepth
        BY <2>1, <3>1, <4>2, SeatsAssumption
      <4> QED BY <4>1, <4>3 DEF Shapes
    <3>2. CASE ~(Len(audio[s]) < SoundDepth)
      BY <1>2, <2>1, <3>2 DEF PushAudio, Shapes
    <3> QED BY <3>1, <3>2
  <2> QED BY <1>2, <2>2, <2>3 DEF PushAudio, Shapes, guestVars, encoderVars
<1>3. CASE AudioPublished
  <2>1. speaker.slot \in SoundSlots
    BY <1>3 DEF AudioPublished, Shapes, Broadcast
  <2>2. soundHolders' \in [SoundSlots -> Int]
    BY <1>3, <2>1 DEF AudioPublished, Shapes
  <2> QED BY <1>3, <2>2 DEF AudioPublished, Shapes, guestVars, encoderVars
<1> QED BY <1>1, <1>2, <1>3 DEF SoundStep

(* The entries of some guests are as many as the joins they were made of. *)
LEMMA TargetsCount ==
  ASSUME NEW S \in SUBSET Active, \A e, f \in S : e.guest = f.guest => e = f,
         NEW todo, todo = {[seat |-> e.seat, guest |-> e.guest] : e \in S}
  PROVE  /\ IsFiniteSet(S) /\ Cardinality(S) \in Nat
         /\ todo \in SUBSET Join /\ IsFiniteSet(todo) /\ Cardinality(todo) = Cardinality(S)
<1> DEFINE f == [e \in S |-> e.guest]
           h == [e \in S |-> [seat |-> e.seat, guest |-> e.guest]]
<1>1. f \in [S -> Guests] /\ \A e, d \in S : f[e] = f[d] => e = d
  BY DEF Active
<1>2. f \in Injection(S, Guests)
  <2> HIDE DEF f
  <2> QED BY <1>1 DEF Injection, IsInjective
<1>3. IsFiniteSet(S)
  BY <1>2, SeatsAssumption, FS_Injection
<1>4. h \in [S -> todo] /\ (\A t \in todo : \E e \in S : h[e] = t) /\ \A e, d \in S : h[e] = h[d] => e = d
  <2>1. ASSUME NEW e \in S, NEW d \in S, h[e] = h[d] PROVE e = d
    <3>1. [seat |-> e.seat, guest |-> e.guest] = [seat |-> d.seat, guest |-> d.guest]
      BY <2>1
    <3>2. e.guest = d.guest
      BY <3>1
    <3> QED BY <3>2
  <2> QED BY <2>1
<1>5. h \in Bijection(S, todo)
  <2> HIDE DEF h
  <2> QED BY <1>4 DEF Bijection, Injection, Surjection, IsInjective
<1>6. IsFiniteSet(todo) /\ Cardinality(todo) = Cardinality(S)
  BY <1>3, <1>5, FS_Bijection DEF ExistsBijection
<1>7. todo \in SUBSET Join
  BY DEF Active, Join
<1> QED BY <1>3, <1>6, <1>7, FS_CardinalityType

(* The roster with its latches set as gate says. *)
Regated(gate) == {[d EXCEPT !.pending = gate[d]] : d \in active}

(* What publishing a frame sets, spelled out. *)
PublishSets(key, room, slot) ==
    /\ frames + 1 \in 1 .. MaxFrames
    /\ writer' \in Publication /\ writer'.slot = slot /\ writer'.frame = frames + 1
    /\ writer'.refused = {} /\ IsFiniteSet(writer'.todo)
    /\ writer'.todo = {[seat |-> e.seat, guest |-> e.guest] : e \in Admitted(key, room)}
    /\ holders' = [holders EXCEPT ![slot] = 1 + Cardinality(writer'.todo)]
    /\ Cardinality(writer'.todo) \in Nat
    /\ content' = [content EXCEPT ![slot] = frames + 1]
    /\ active' = Regated([d \in active |-> d \notin Admitted(key, room)])
    /\ active' \in SUBSET Active

(* A publication sets exactly what PublishSets says. *)
LEMMA Publishing ==
  ASSUME Shapes, Once, NEW key \in BOOLEAN, NEW room \in SUBSET active, NEW slot \in Slots,
         Publish(key, room, slot)
  PROVE  PublishSets(key, room, slot)
<1> DEFINE taking == Admitted(key, room)
           todo == {[seat |-> e.seat, guest |-> e.guest] : e \in taking}
<1>1. taking \in SUBSET active /\ active \in SUBSET Active
  BY DEF Admitted, Shapes
<1>2. \A e, f \in taking : e.guest = f.guest => e = f
  BY <1>1 DEF Once
<1>3. /\ frames + 1 \in 1 .. MaxFrames
  BY SeatsAssumption DEF Publish, Encoded, Shapes
<1>4. /\ holders' = [holders EXCEPT ![slot] = Holds(taking)]
      /\ active' = Latched(active \ taking) \cup {[e EXCEPT !.pending = FALSE] : e \in taking}
      /\ writer' = [slot |-> slot, frame |-> frames + 1, todo |-> todo, refused |-> {}]
      /\ content' = [content EXCEPT ![slot] = frames + 1]
  BY DEF Publish
<1> HIDE DEF taking
<1>5. /\ IsFiniteSet(taking) /\ Cardinality(taking) \in Nat
      /\ todo \in SUBSET Join /\ IsFiniteSet(todo) /\ Cardinality(todo) = Cardinality(taking)
  <2>1. taking \in SUBSET Active /\ todo = {[seat |-> e.seat, guest |-> e.guest] : e \in taking}
    BY <1>1
  <2> HIDE DEF todo
  <2> QED BY <1>2, <2>1, TargetsCount
<1>6. Holds(taking) = 1 + Cardinality(todo)
  BY <1>5 DEF Holds
<1>7. active' \in SUBSET Active
  <2>1. Latched(active \ taking) \in SUBSET Active
    BY <1>1, LatchedType
  <2>2. \A e \in taking : [e EXCEPT !.pending = FALSE] \in Active
    BY <1>1, LatchKeeps
  <2> QED BY <1>4, <2>1, <2>2
<1>8. todo = {[seat |-> e.seat, guest |-> e.guest] : e \in taking}
  OBVIOUS
<1> HIDE DEF todo
<1>9. /\ writer' \in Publication /\ writer'.slot = slot /\ writer'.frame = frames + 1
      /\ writer'.refused = {} /\ writer'.todo = todo
  BY <1>3, <1>4, <1>5 DEF Publication
<1>10. active' = Regated([d \in active |-> d \notin taking])
  BY <1>1, <1>4 DEF Regated, Latched
<1> QED BY <1>3, <1>4, <1>5, <1>6, <1>7, <1>8, <1>9, <1>10 DEF taking, PublishSets

(* What may be left of a queue after one of its elements. *)
LEMMA AfterType ==
  ASSUME NEW T, NEW q \in Seq(T), NEW k \in DOMAIN q, NEW r \in After(q, k), NEW n \in Nat, Len(q) <= n
  PROVE  r \in Seq(T) /\ Len(r) <= n
<1>1. SubSeq(q, k + 1, Len(q)) \in Seq(T) /\ Len(SubSeq(q, k + 1, Len(q))) <= Len(q) /\ Len(q) \in Nat
  OBVIOUS
<1>2. CASE r = <<>>
  BY <1>2
<1>3. CASE r = SubSeq(q, k + 1, Len(q))
  <2>1. r \in Seq(T) /\ Len(r) <= Len(q)
    BY <1>1, <1>3
  <2>2. Len(r) \in Nat
    BY <2>1
  <2> QED BY <1>1, <2>1, <2>2
<1> QED BY <1>2, <1>3 DEF After

(* A release beside a guest's pop keeps the types. *)
LEMMA ContendedShapes ==
  ASSUME Shapes, Threads, NEW g \in Guests, ArrivalContended(g)
  PROVE  Shapes'
<1> PICK s \in Seats : s = at[g]
  BY DEF ArrivalContended, Threads
<1>1. /\ ring[s] \in Seq(Frame) /\ Len(ring[s]) <= Depth /\ Len(ring[s]) \in Nat
      /\ audio[s] \in Seq(SoundSlots) /\ Len(audio[s]) <= SoundDepth /\ Len(audio[s]) \in Nat
  BY DEF Shapes
<1>2. \A i : Cardinality(Queued({s}, i)) \in Int /\ Cardinality(Sounding({s}, i)) \in Int
  <2> SUFFICES ASSUME NEW i PROVE Cardinality(Queued({s}, i)) \in Int /\ Cardinality(Sounding({s}, i)) \in Int
    OBVIOUS
  <2>1. IsFiniteSet({s})
    BY FS_Singleton
  <2>2. 1 \in Int /\ Depth \in Int /\ SoundDepth \in Int
    BY SeatsAssumption
  <2>3. IsFiniteSet(1 .. Depth) /\ IsFiniteSet(1 .. SoundDepth)
    BY <2>2, FS_Interval
  <2>4. IsFiniteSet({s} \X (1 .. Depth)) /\ IsFiniteSet({s} \X (1 .. SoundDepth))
    BY <2>1, <2>3, FS_Product
  <2>5. Queued({s}, i) \in SUBSET ({s} \X (1 .. Depth)) /\ Sounding({s}, i) \in SUBSET ({s} \X (1 .. SoundDepth))
    BY DEF Queued, Sounding
  <2>6. IsFiniteSet(Queued({s}, i)) /\ IsFiniteSet(Sounding({s}, i))
    BY <2>4, <2>5, FS_Subset
  <2>7. Cardinality(Queued({s}, i)) \in Nat /\ Cardinality(Sounding({s}, i)) \in Nat
    BY <2>6, FS_CardinalityType
  <2> QED BY <2>7
<1>3. <<>> \in Seq(Frame) /\ <<>> \in Seq(SoundSlots) /\ Len(<<>>) <= Depth /\ Len(<<>>) <= SoundDepth
  BY SeatsAssumption
<1>4. joins' \in Seq(Join)
  <2>1. joins # <<>> /\ joins' = Tail(joins) /\ joins \in Seq(Join)
    BY DEF ArrivalContended, Shapes
  <2> QED BY <2>1
<1> DEFINE Typed ==
      /\ ring' \in [Seats -> Seq(Frame)] /\ \A t \in Seats : Len(ring'[t]) <= Depth
      /\ audio' \in [Seats -> Seq(SoundSlots)] /\ \A t \in Seats : Len(audio'[t]) <= SoundDepth
      /\ holders' \in [Slots -> Int] /\ soundHolders' \in [SoundSlots -> Int]
      /\ held' \in [Guests -> Frame \cup {None}] /\ last' \in [Guests -> 0 .. MaxFrames]
<1>5. ASSUME TakesBeside(g, s) PROVE Typed
  <2>1. PICK k \in DOMAIN ring[s], spared \in {0, 1} :
               /\ held' = [held EXCEPT ![g] = ring[s][k]]
               /\ last' = [last EXCEPT ![g] = ring[s][k].frame]
               /\ \E queue \in After(ring[s], k) : ring' = [ring EXCEPT ![s] = queue]
               /\ holders' = [i \in Slots |-> holders[i] - Cardinality(Queued({s}, i))
                                 + (IF i = ring[s][k].slot THEN spared ELSE 0)]
               /\ audio' = [audio EXCEPT ![s] = <<>>]
               /\ soundHolders' = [i \in SoundSlots |-> soundHolders[i] - Cardinality(Sounding({s}, i))]
    BY <1>5 DEF TakesBeside
  <2>2. ring[s][k] \in Frame
    BY <1>1
  <2>3. ring[s][k].frame \in 0 .. MaxFrames
    BY <2>2, SeatsAssumption DEF Frame
  <2>4. held' \in [Guests -> Frame \cup {None}] /\ last' \in [Guests -> 0 .. MaxFrames]
    BY <2>1, <2>2, <2>3 DEF Shapes
  <2>5. \A i : (IF i = ring[s][k].slot THEN spared ELSE 0) \in Int
    OBVIOUS
  <2>6. holders' \in [Slots -> Int]
    <3>1. \A i \in Slots : holders[i] - Cardinality(Queued({s}, i))
                              + (IF i = ring[s][k].slot THEN spared ELSE 0) \in Int
      <4> SUFFICES ASSUME NEW i \in Slots
                   PROVE  holders[i] - Cardinality(Queued({s}, i))
                              + (IF i = ring[s][k].slot THEN spared ELSE 0) \in Int
        OBVIOUS
      <4>1. PICK n \in Int : n = (IF i = ring[s][k].slot THEN spared ELSE 0)
        BY <2>5
      <4>2. holders[i] \in Int /\ Cardinality(Queued({s}, i)) \in Int
        BY <1>2 DEF Shapes
      <4>3. holders[i] - Cardinality(Queued({s}, i)) + n \in Int
        BY <4>2
      <4> QED BY <4>1, <4>3
    <3> QED BY <2>1, <3>1
  <2>7. soundHolders' \in [SoundSlots -> Int]
    <3>1. ASSUME NEW i \in SoundSlots PROVE soundHolders[i] - Cardinality(Sounding({s}, i)) \in Int
      <4>1. soundHolders[i] \in Int
        BY DEF Shapes
      <4>2. Cardinality(Sounding({s}, i)) \in Int
        BY <1>2
      <4> QED BY <4>1, <4>2
    <3>2. soundHolders' = [i \in SoundSlots |-> soundHolders[i] - Cardinality(Sounding({s}, i))]
      BY <2>1
    <3> QED BY <3>1, <3>2
  <2>8. PICK queue \in After(ring[s], k) : ring' = [ring EXCEPT ![s] = queue]
    BY <2>1
  <2>9. queue \in Seq(Frame) /\ Len(queue) <= Depth
    <3>1. Depth \in Nat /\ SoundDepth \in Nat
      BY SeatsAssumption
    <3> QED BY <1>1, <3>1, AfterType
  <2> QED BY <1>3, <2>1, <2>4, <2>6, <2>7, <2>8, <2>9 DEF Shapes
<1>6. ASSUME HearsBeside(s) PROVE Typed
  <2>1. PICK k \in DOMAIN audio[s] :
               /\ \E queue \in After(audio[s], k) : audio' = [audio EXCEPT ![s] = queue]
               /\ soundHolders' = [i \in SoundSlots |-> soundHolders[i] - Cardinality(Sounding({s}, i))
                                      - (IF i = audio[s][k] THEN 1 ELSE 0)]
               /\ ring' = [ring EXCEPT ![s] = <<>>]
               /\ holders' = [i \in Slots |-> holders[i] - Cardinality(Queued({s}, i))]
               /\ UNCHANGED <<held, last>>
    BY <1>6 DEF HearsBeside
  <2>2. soundHolders' \in [SoundSlots -> Int]
    <3>1. \A i \in SoundSlots : soundHolders[i] - Cardinality(Sounding({s}, i))
                                   - (IF i = audio[s][k] THEN 1 ELSE 0) \in Int
      <4> SUFFICES ASSUME NEW i \in SoundSlots
                   PROVE  soundHolders[i] - Cardinality(Sounding({s}, i))
                              - (IF i = audio[s][k] THEN 1 ELSE 0) \in Int
        OBVIOUS
      <4>1. PICK n \in Int : n = (IF i = audio[s][k] THEN 1 ELSE 0)
        OBVIOUS
      <4>2. soundHolders[i] \in Int /\ Cardinality(Sounding({s}, i)) \in Int
        BY <1>2 DEF Shapes
      <4>3. soundHolders[i] - Cardinality(Sounding({s}, i)) - n \in Int
        BY <4>2
      <4> QED BY <4>1, <4>3
    <3> QED BY <2>1, <3>1
  <2>3. holders' \in [Slots -> Int]
    <3>1. ASSUME NEW i \in Slots PROVE holders[i] - Cardinality(Queued({s}, i)) \in Int
      <4>1. holders[i] \in Int
        BY DEF Shapes
      <4>2. Cardinality(Queued({s}, i)) \in Int
        BY <1>2
      <4> QED BY <4>1, <4>2
    <3>2. holders' = [i \in Slots |-> holders[i] - Cardinality(Queued({s}, i))]
      BY <2>1
    <3> QED BY <3>1, <3>2
  <2>4. PICK queue \in After(audio[s], k) : audio' = [audio EXCEPT ![s] = queue]
    BY <2>1
  <2>5. queue \in Seq(SoundSlots) /\ Len(queue) <= SoundDepth
    <3>1. Depth \in Nat /\ SoundDepth \in Nat
      BY SeatsAssumption
    <3> QED BY <1>1, <3>1, AfterType
  <2> QED BY <1>3, <2>1, <2>2, <2>3, <2>4, <2>5 DEF Shapes
<1>7. Typed
  <2> HIDE DEF Typed
  <2> QED BY <1>5, <1>6 DEF ArrivalContended
<1> QED BY <1>4, <1>7 DEF ArrivalContended, Shapes, encoderVars

(* A step of the loop's thread keeps the types. *)
LEMMA LoopShapes ==
  ASSUME Shapes, Threads, Once, LoopStep
  PROVE  Shapes'
<1>1. CASE Wait
  <2>1. Leaving \in SUBSET Seats
    BY DEF Leaving
  <2>2. /\ ring' \in [Seats -> Seq(Frame)] /\ \A s \in Seats : Len(ring'[s]) <= Depth
        /\ audio' \in [Seats -> Seq(SoundSlots)] /\ \A s \in Seats : Len(audio'[s]) <= SoundDepth
        /\ holders' \in [Slots -> Int] /\ soundHolders' \in [SoundSlots -> Int]
    BY <1>1, <2>1, ReleaseShapes DEF Wait
  <2>3. seat' \in [Seats -> {"Free", "Claimed", "Streaming", "Leaving"}]
    BY <1>1 DEF Wait, Freed, Shapes
  <2>4. loop' \in {"waiting", "building"} /\ fallback' \subseteq {"codec", "output"}
    BY <1>1 DEF Wait, Shapes
  <2> QED BY <1>1, <2>2, <2>3, <2>4 DEF Wait, Shapes, guestVars
<1>2. CASE Build
  BY <1>2 DEF Build, Shapes, guestVars, soundVars
<1>3. CASE Failed
  <2>1. active' \in {active, {}} /\ fallback' \subseteq fallback
    BY <1>3 DEF Failed, Shapes
  <2>2. exits' \in 0 .. MaxExits /\ epoch' \in 0 .. exits'
    BY <1>3, SeatsAssumption DEF Failed, Shapes
  <2> QED BY <1>3, <2>1, <2>2 DEF Failed, Shapes, guestVars, soundVars
<1>4. ASSUME NEW exit \in {"Reconfigure", "Rediscover"}, Rebuild(exit) PROVE Shapes'
  <2>1. active' \in SUBSET Active
    BY <1>4, LatchedType DEF Rebuild, Shapes
  <2>2. exits' \in 0 .. MaxExits /\ epoch' \in 0 .. exits'
    BY <1>4, SeatsAssumption DEF Rebuild, Shapes
  <2>3. fallback' \subseteq {"codec", "output"}
    BY <1>4 DEF Rebuild, Shapes
  <2> QED BY <1>4, <2>1, <2>2, <2>3 DEF Rebuild, Shapes, guestVars, soundVars
<1>5. CASE Arrival
  <2>1. joins \in Seq(Join) /\ joins # <<>>
    BY <1>5 DEF Arrival, Shapes
  <2>2. Head(joins) \in Join /\ joins' \in Seq(Join)
    BY <1>5, <2>1 DEF Arrival
  <2>3. Head(joins).seat \in Seats
    BY <2>2 DEF Join
  <2>4. CASE seat[Head(joins).seat] = "Claimed"
    BY <1>5, <2>2, <2>4 DEF Arrival, Shapes, guestVars, encoderVars
  <2>5. CASE seat[Head(joins).seat] # "Claimed"
    <3>1. Release({Head(joins).seat}) /\ UNCHANGED <<loop, admitting>>
      BY <1>5, <2>5 DEF Arrival
    <3>2. {Head(joins).seat} \in SUBSET Seats
      BY <2>3
    <3>3. /\ ring' \in [Seats -> Seq(Frame)] /\ \A s \in Seats : Len(ring'[s]) <= Depth
          /\ audio' \in [Seats -> Seq(SoundSlots)] /\ \A s \in Seats : Len(audio'[s]) <= SoundDepth
          /\ holders' \in [Slots -> Int] /\ soundHolders' \in [SoundSlots -> Int]
      BY <3>1, <3>2, ReleaseShapes
    <3> QED BY <1>5, <2>2, <3>1, <3>3 DEF Arrival, Shapes, guestVars, encoderVars
  <2> QED BY <2>4, <2>5
<1>6. CASE Admit
  <2>1. admitting \in Join
    BY <1>6 DEF Admit, Shapes, Threads
  <2>2. /\ seat' \in [Seats -> {"Free", "Claimed", "Streaming", "Leaving"}]
        /\ active' \in SUBSET Active
    <3>1. admitting.seat \in Seats /\ admitting.guest \in Guests
      BY <2>1 DEF Join
    <3>2. [seat |-> admitting.seat, guest |-> admitting.guest, pending |-> TRUE] \in Active
      BY <3>1 DEF Active
    <3> QED BY <1>6, <3>1, <3>2 DEF Admit, Shapes
  <2> QED BY <1>6, <2>2 DEF Admit, Shapes, guestVars, encoderVars, soundVars
<1>7. CASE Retire
  <2>1. Left \in SUBSET Seats
    BY DEF Left, Leaving
  <2>2. /\ ring' \in [Seats -> Seq(Frame)] /\ \A s \in Seats : Len(ring'[s]) <= Depth
        /\ audio' \in [Seats -> Seq(SoundSlots)] /\ \A s \in Seats : Len(audio'[s]) <= SoundDepth
        /\ holders' \in [Slots -> Int] /\ soundHolders' \in [SoundSlots -> Int]
    BY <1>7, <2>1, ReleaseShapes DEF Retire
  <2>3. seat' \in [Seats -> {"Free", "Claimed", "Streaming", "Leaving"}]
    BY <1>7 DEF Retire, Freed, Shapes
  <2>4. active' \in SUBSET active
    BY <1>7 DEF Retire, Remaining
  <2> QED BY <1>7, <2>2, <2>3, <2>4 DEF Retire, Shapes, guestVars, encoderVars
<1>8. CASE Pass
  BY <1>8 DEF Pass, Shapes, guestVars, encoderVars, soundVars
<1>9. ASSUME NEW key \in BOOLEAN, Encoded(key)
      PROVE  /\ frames' \in 0 .. MaxFrames /\ keys' \subseteq 1 .. frames' /\ fresh' \in BOOLEAN
             /\ epoch' \in 0 .. exits' /\ fallback' \subseteq {"codec", "output"} /\ exits' \in 0 .. MaxExits
  <2>1. frames' = frames + 1 /\ frames' \in 0 .. MaxFrames /\ keys' \subseteq keys \cup {frames + 1}
    BY <1>9, SeatsAssumption DEF Encoded, Shapes
  <2>2. keys' \subseteq 1 .. frames'
    BY <2>1 DEF Shapes
  <2> QED BY <1>9, <2>1, <2>2 DEF Encoded, Shapes
<1>10. ASSUME NEW key \in BOOLEAN, Withhold(key) PROVE Shapes'
  <2>1. active' \in SUBSET Active
    BY <1>10, LatchedType DEF Withhold, Shapes
  <2> QED BY <1>9, <1>10, <2>1 DEF Withhold, Shapes, guestVars, soundVars
<1>11. ASSUME NEW key \in BOOLEAN, NEW room \in SUBSET active, NEW slot \in Slots, Publish(key, room, slot)
       PROVE  Shapes'
  <2>1. /\ frames + 1 \in 1 .. MaxFrames
        /\ writer' \in Publication
        /\ holders' = [holders EXCEPT ![slot] = 1 + Cardinality(writer'.todo)]
        /\ Cardinality(writer'.todo) \in Nat
        /\ content' = [content EXCEPT ![slot] = frames + 1]
        /\ active' \in SUBSET Active
    BY <1>11, Publishing DEF PublishSets
  <2>2. holders' \in [Slots -> Int] /\ content' \in [Slots -> 0 .. MaxFrames]
    BY <2>1, SeatsAssumption DEF Shapes
  <2>3. Encoded(key)
    BY <1>11 DEF Publish
  <2> QED BY <1>9, <1>11, <2>1, <2>2, <2>3 DEF Publish, Shapes, guestVars, soundVars
<1>12. ASSUME writer # None, NEW target \in writer.todo, Push(target) PROVE Shapes'
  <2>1. writer \in Publication /\ target \in Join /\ target.seat \in Seats /\ target.guest \in Guests
    BY <1>12 DEF Shapes, Publication, Join
  <2>2. writer.slot \in Slots /\ [slot |-> writer.slot, frame |-> writer.frame] \in Frame
    BY <2>1 DEF Publication, Frame
  <2>3. CASE Fits(ring[target.seat])
    <3> DEFINE x == [slot |-> writer.slot, frame |-> writer.frame]
               q == ring[target.seat]
    <3>1. /\ ring' = [ring EXCEPT ![target.seat] = Append(q, x)] /\ holders' = holders
          /\ writer' = [writer EXCEPT !.todo = @ \ {target}]
      BY <1>12, <2>3 DEF Push
    <3>2. q \in Seq(Frame) /\ x \in Frame /\ Len(q) < Depth
      BY <2>1, <2>2, <2>3 DEF Shapes, Fits
    <3>3. writer' \in Publication
      BY <2>1, <3>1 DEF Publication
    <3> HIDE DEF x, q
    <3>4. Append(q, x) \in Seq(Frame) /\ Len(Append(q, x)) <= Depth
      BY <3>2, SeatsAssumption
    <3>5. ring' \in [Seats -> Seq(Frame)] /\ \A s \in Seats : Len(ring'[s]) <= Depth
      BY <3>1, <3>4 DEF Shapes
    <3> QED BY <1>12, <3>1, <3>3, <3>5 DEF Push, Shapes, guestVars, encoderVars, soundVars
  <2>4. CASE ~Fits(ring[target.seat])
    <3>1. /\ holders' = [holders EXCEPT ![writer.slot] = @ - 1] /\ ring' = ring
          /\ writer' = [writer EXCEPT !.todo = @ \ {target}, !.refused = @ \cup {target.guest}]
      BY <1>12, <2>4 DEF Push, GiveBack
    <3>2. writer' \in Publication
      BY <2>1, <3>1 DEF Publication
    <3>3. holders' \in [Slots -> Int]
      BY <2>2, <3>1 DEF Shapes
    <3> QED BY <1>12, <3>1, <3>2, <3>3 DEF Push, Shapes, guestVars, encoderVars, soundVars
  <2> QED BY <2>3, <2>4
<1>13. CASE Published
  <2>1. writer \in Publication /\ writer.slot \in Slots
    BY <1>13 DEF Published, Threads, Shapes, Publication
  <2>2. holders' \in [Slots -> Int]
    BY <1>13, <2>1 DEF Published, Shapes
  <2>3. active' \in SUBSET Active
    <3>1. Refused \in SUBSET Active
      BY DEF Refused, Shapes
    <3>2. Latched(Refused) \in SUBSET Active
      BY <3>1, LatchedType
    <3> QED BY <1>13, <3>2 DEF Published, Shapes
  <2> QED BY <1>13, <2>2, <2>3 DEF Published, Shapes, guestVars, encoderVars, soundVars
<1> QED BY <1>1, <1>2, <1>3, <1>4, <1>5, <1>6, <1>7, <1>8, <1>10, <1>11, <1>12, <1>13, ContendedShapes DEF LoopStep

(* Every step keeps the types. *)
LEMMA NextShapes ==
  ASSUME Shapes, Threads, Once, [Next]_vars
  PROVE  Shapes'
<1>1. CASE UNCHANGED vars
  BY <1>1 DEF vars, guestVars, encoderVars, soundVars, Shapes
<1> QED BY <1>1, GuestShapes, LoopShapes, SoundShapes DEF Next

-----------------------------------------------------------------------------
(* Where the loop's thread stands, and where a guest is announced *)

(* Every step leaves the loop's thread holding what its position says. *)
LEMMA NextThreads ==
  ASSUME Shapes, Threads, Once, [Next]_vars
  PROVE  Threads'
<1>0. CASE UNCHANGED vars
  BY <1>0 DEF vars, guestVars, encoderVars, soundVars, Threads
<1>1. CASE GuestStep
  <2> PICK g \in Guests : \/ \E s \in Seats : Claim(g, s)
                          \/ Announce(g)
                          \/ NextFrame(g) \/ DropFrame(g) \/ NextAudio(g) \/ Leave(g)
    BY <1>1 DEF GuestStep
  <2>1. ASSUME NEW s \in Seats, Claim(g, s) PROVE Threads'
    BY <2>1 DEF Claim, Threads, Shapes, soundVars
  <2>2. CASE Announce(g)
    BY <2>2 DEF Announce, Threads, Shapes, soundVars
  <2>3. CASE NextFrame(g)
    BY <2>3 DEF NextFrame, Threads, soundVars
  <2>4. CASE DropFrame(g)
    BY <2>4 DEF DropFrame, Threads, soundVars
  <2>5. CASE NextAudio(g)
    BY <2>5 DEF NextAudio, Threads, guestVars
  <2>6. CASE Leave(g)
    BY <2>6 DEF Leave, Threads, Shapes, soundVars
  <2> QED BY <2>1, <2>2, <2>3, <2>4, <2>5, <2>6
<1>2. CASE LoopStep
  <2>1. CASE Wait
    BY <2>1 DEF Wait, Threads, guestVars
  <2>2. CASE Build
    BY <2>2 DEF Build, Threads, guestVars, soundVars
  <2>3. CASE Failed
    BY <2>3 DEF Failed, Threads, guestVars, soundVars
  <2>4. ASSUME NEW exit \in {"Reconfigure", "Rediscover"}, Rebuild(exit) PROVE Threads'
    BY <2>4 DEF Rebuild, Threads, guestVars, soundVars
  <2>5. CASE Arrival
    <3>1. joins \in Seq(Join) /\ joins # <<>>
      BY <2>5 DEF Arrival, Shapes
    <3>2. Head(joins) # None
      BY <3>1, NoneAssumption
    <3> QED BY <2>5, <3>2 DEF Arrival, Threads, guestVars
  <2>6. CASE Admit
    BY <2>6 DEF Admit, Threads, guestVars, soundVars
  <2>7. CASE Retire
    BY <2>7 DEF Retire, Threads, guestVars
  <2>8. CASE Pass
    BY <2>8 DEF Pass, Threads, guestVars, soundVars
  <2>9. ASSUME NEW key \in BOOLEAN, Withhold(key) PROVE Threads'
    BY <2>9 DEF Withhold, Threads, guestVars, soundVars
  <2>10. ASSUME NEW key \in BOOLEAN, NEW room \in SUBSET active, NEW slot \in Slots, Publish(key, room, slot)
         PROVE  Threads'
    <3>1. /\ writer' \in Publication /\ writer'.slot = slot /\ writer'.frame = frames + 1
          /\ IsFiniteSet(writer'.todo) /\ content' = [content EXCEPT ![slot] = frames + 1]
      <4>1. PublishSets(key, room, slot)
        BY <2>10, Publishing
      <4> QED BY <4>1 DEF PublishSets
    <3>2. writer' # None /\ content'[writer'.slot] = writer'.frame
      BY <3>1, NoneAssumption DEF Shapes
    <3> QED BY <2>10, <3>1, <3>2 DEF Publish, Encoded, Threads, guestVars, soundVars
  <2>11. ASSUME writer # None, NEW target \in writer.todo, Push(target) PROVE Threads'
    <3>1. writer \in Publication
      BY <2>11 DEF Shapes
    <3>2. /\ writer' \in Publication /\ writer'.slot = writer.slot /\ writer'.frame = writer.frame
          /\ writer'.todo = writer.todo \ {target}
      <4>1. target.guest \in Guests
        BY <2>11, <3>1 DEF Publication, Join
      <4>2. \/ writer' = [writer EXCEPT !.todo = @ \ {target}]
            \/ writer' = [writer EXCEPT !.todo = @ \ {target}, !.refused = @ \cup {target.guest}]
        BY <2>11 DEF Push
      <4> QED BY <3>1, <4>1, <4>2 DEF Publication
    <3>3. IsFiniteSet(writer'.todo) /\ writer' # None
      BY <2>11, <3>2, NoneAssumption, FS_RemoveElement DEF Threads
    <3> QED BY <2>11, <3>2, <3>3 DEF Push, Threads, guestVars, soundVars
  <2>12. CASE Published
    BY <2>12 DEF Published, Threads, guestVars, soundVars
  <2>13. ASSUME NEW g \in Guests, ArrivalContended(g) PROVE Threads'
    BY <2>13 DEF ArrivalContended, Threads
  <2> QED BY <1>2, <2>1, <2>2, <2>3, <2>4, <2>5, <2>6, <2>7, <2>8, <2>9, <2>10, <2>11, <2>12, <2>13 DEF LoopStep
<1>3. CASE SoundStep
  <2>1. ASSUME NEW slot \in SoundSlots, PublishAudio(slot) PROVE Threads'
    <3> DEFINE listening == {s \in Seats : seat[s] = "Streaming"}
    <3>1. IsFiniteSet(listening)
      BY SeatsAssumption, FS_Subset
    <3>2. speaker'.todo = listening
      BY <2>1 DEF PublishAudio
    <3> HIDE DEF listening
    <3> QED BY <2>1, <3>1, <3>2 DEF PublishAudio, Threads, guestVars
  <2>2. ASSUME NEW s \in Seats, PushAudio(s) PROVE Threads'
    <3>1. speaker'.todo = speaker.todo \ {s} /\ speaker # None
      BY <2>2 DEF PushAudio, Shapes, Broadcast
    <3>2. IsFiniteSet(speaker'.todo)
      BY <3>1, FS_RemoveElement DEF Threads
    <3> QED BY <2>2, <3>2 DEF PushAudio, Threads, guestVars
  <2>3. CASE AudioPublished
    BY <2>3 DEF AudioPublished, Threads, guestVars
  <2> QED BY <1>3, <2>1, <2>2, <2>3 DEF SoundStep
<1> QED BY <1>0, <1>1, <1>2, <1>3 DEF Next

(* Every entry of one roster has its like in the other. *)
SameRoster(S) ==
    /\ S \subseteq Active
    /\ \A e \in S : \E d \in active : e.seat = d.seat /\ e.guest = d.guest
    /\ \A d \in active : \E e \in S : e.seat = d.seat /\ e.guest = d.guest
    /\ \A e, f \in S : e.guest = f.guest => e = f

(* Setting latches moves nobody. *)
LEMMA RegatedRoster ==
  ASSUME Shapes, Once, NEW gate \in [active -> BOOLEAN]
  PROVE  SameRoster(Regated(gate))
<1>1. ASSUME NEW e \in Regated(gate)
      PROVE  \E d \in active : e = [d EXCEPT !.pending = gate[d]] /\ e \in Active /\ e.seat = d.seat /\ e.guest = d.guest
  <2>1. PICK d \in active : e = [d EXCEPT !.pending = gate[d]]
    BY DEF Regated
  <2>2. d \in Active /\ gate[d] \in BOOLEAN
    BY DEF Shapes
  <2>3. e \in Active /\ e.seat = d.seat /\ e.guest = d.guest
    BY <2>1, <2>2, LatchKeeps
  <2> QED BY <2>1, <2>3
<1>2. ASSUME NEW d \in active
      PROVE  \E e \in Regated(gate) : e.seat = d.seat /\ e.guest = d.guest
  <2>1. d \in Active /\ gate[d] \in BOOLEAN
    BY DEF Shapes
  <2>2. [d EXCEPT !.pending = gate[d]] \in Regated(gate)
    BY DEF Regated
  <2> QED BY <2>1, <2>2, LatchKeeps
<1>3. ASSUME NEW e \in Regated(gate), NEW f \in Regated(gate), e.guest = f.guest PROVE e = f
  <2>1. PICK d \in active : e = [d EXCEPT !.pending = gate[d]] /\ e.guest = d.guest
    BY <1>1
  <2>2. PICK c \in active : f = [c EXCEPT !.pending = gate[c]] /\ f.guest = c.guest
    BY <1>1
  <2>3. d = c
    BY <1>3, <2>1, <2>2 DEF Once
  <2> QED BY <2>1, <2>2, <2>3
<1> QED BY <1>1, <1>2, <1>3 DEF SameRoster

(* Shutting every gate is a change of gates alone, every one of them shut. *)
LEMMA LatchedIsRegated ==
  Latched(active) = Regated([d \in active |-> TRUE])
BY DEF Latched, Regated

(* Shutting the gate of every refused entry is a change of gates alone. *)
LEMMA RefusedIsRegated ==
  ASSUME Shapes
  PROVE  (active \ Refused) \cup Latched(Refused) = Regated([d \in active |-> d.pending \/ d \in Refused])
<1> DEFINE gate == [d \in active |-> d.pending \/ d \in Refused]
<1>1. Refused \in SUBSET active /\ active \in SUBSET Active
  BY DEF Refused, Shapes
<1>2. ASSUME NEW d \in active \ Refused PROVE [d EXCEPT !.pending = gate[d]] = d
  <2>1. gate[d] = d.pending
    BY <1>1, <1>2 DEF Active
  <2> HIDE DEF gate
  <2> QED BY <1>1, <2>1 DEF Active
<1>3. ASSUME NEW d \in Refused PROVE [d EXCEPT !.pending = gate[d]] = [d EXCEPT !.pending = TRUE]
  <2>1. gate[d] = TRUE
    BY <1>1
  <2> QED BY <2>1
<1> HIDE DEF gate
<1>4. (active \ Refused) \cup Latched(Refused) = {[d EXCEPT !.pending = gate[d]] : d \in active}
  BY <1>1, <1>2, <1>3 DEF Latched
<1> QED BY <1>4 DEF Regated, gate

(* A roster of the same guests leaves them announced once. *)
LEMMA SameGuests ==
  ASSUME Once, SameRoster(active'), UNCHANGED <<stage, joins, admitting>>
  PROVE  Once'
BY DEF Once, Announced, SameRoster

(* Who was announced stays announced. *)
LEMMA StillAnnounced ==
  ASSUME Shapes, Once, UNCHANGED <<active, joins, admitting>>,
         \A h \in Guests : stage[h] \in {"seated", "gone"} => stage'[h] \in {"seated", "gone"}
  PROVE  Once'
<1>1. /\ \A e \in active : e.guest \in Guests
      /\ admitting # None => admitting.guest \in Guests
  BY DEF Shapes, Active, Join
<1>2. \A k \in DOMAIN joins : joins[k].guest \in Guests
  <2>1. \A k \in DOMAIN joins : joins[k] \in Join
    BY DEF Shapes
  <2> QED BY <2>1 DEF Join
<1> QED BY <1>1, <1>2 DEF Once, Announced

(* Every step keeps a guest announced at most once. *)
LEMMA NextOnce ==
  ASSUME Shapes, Threads, Once, [Next]_vars
  PROVE  Once'
<1>0. CASE UNCHANGED <<stage, active, joins, admitting>>
  BY <1>0 DEF Once, Announced
<1>1. CASE GuestStep
  <2> PICK g \in Guests : \/ \E s \in Seats : Claim(g, s)
                          \/ Announce(g)
                          \/ NextFrame(g) \/ DropFrame(g) \/ NextAudio(g) \/ Leave(g)
    BY <1>1 DEF GuestStep
  <2>1. ASSUME NEW s \in Seats, Claim(g, s) PROVE Once'
    <3>1. UNCHANGED <<active, joins, admitting>>
      BY <2>1 DEF Claim
    <3>2. \A h \in Guests : stage[h] \in {"seated", "gone"} => stage'[h] \in {"seated", "gone"}
      BY <2>1 DEF Claim, Shapes
    <3> QED BY <3>1, <3>2, StillAnnounced
  <2>2. CASE Announce(g)
    <3> DEFINE j == [seat |-> at[g], guest |-> g]
    <3>1. joins' = Append(joins, j) /\ j.guest = g /\ joins \in Seq(Join)
      BY <2>2 DEF Announce, Shapes
    <3> HIDE DEF j
    <3>2. DOMAIN joins' = 1 .. Len(joins) + 1 /\ DOMAIN joins = 1 .. Len(joins) /\ Len(joins) \in Nat
      BY <3>1
    <3>3. joins'[Len(joins) + 1].guest = g /\ \A k \in DOMAIN joins : joins'[k] = joins[k]
      BY <3>1
    <3>4. stage[g] = "claiming" /\ \A h \in Guests : stage'[h] = IF h = g THEN "seated" ELSE stage[h]
      BY <2>2 DEF Announce, Shapes
    <3>5. UNCHANGED <<active, admitting>>
      BY <2>2 DEF Announce
    <3>6. \A h \in Guests : Announced(h) => stage'[h] \in {"seated", "gone"} /\ h # g
      BY <3>4 DEF Announced
    <3>7. (\A e \in active : e.guest \in Guests) /\ (admitting # None => admitting.guest \in Guests)
      BY DEF Shapes, Active, Join
    <3>8. \A k \in DOMAIN joins : joins[k].guest \in Guests
      <4>1. \A k \in 1 .. Len(joins) : joins[k] \in Join
        BY <3>1
      <4> QED BY <3>2, <4>1 DEF Join
    <3>9. stage'[g] = "seated"
      BY <3>4
    <3>10. \A k \in DOMAIN joins' : k \in DOMAIN joins \/ k = Len(joins) + 1
      BY <3>2
    <3>11. \A k \in DOMAIN joins' :
              /\ stage'[joins'[k].guest] \in {"seated", "gone"}
              /\ \A e \in active : e.guest # joins'[k].guest
              /\ admitting # None => admitting.guest # joins'[k].guest
      <4> SUFFICES ASSUME NEW k \in DOMAIN joins'
                   PROVE  /\ stage'[joins'[k].guest] \in {"seated", "gone"}
                          /\ \A e \in active : e.guest # joins'[k].guest
                          /\ admitting # None => admitting.guest # joins'[k].guest
        OBVIOUS
      <4>1. CASE k \in DOMAIN joins
        BY <3>3, <3>6, <3>8, <4>1 DEF Once
      <4>2. CASE k = Len(joins) + 1
        BY <3>3, <3>6, <3>7, <3>9, <4>2 DEF Once
      <4> QED BY <3>10, <4>1, <4>2
    <3>12. \A k, l \in DOMAIN joins' : joins'[k].guest = joins'[l].guest => k = l
      <4>1. \A k \in DOMAIN joins : joins'[k].guest = joins[k].guest /\ joins[k].guest # g
        BY <3>3, <3>6, <3>8 DEF Once
      <4> QED BY <3>3, <3>10, <4>1 DEF Once
    <3> QED BY <3>5, <3>6, <3>7, <3>11, <3>12 DEF Once, Announced
  <2>3. CASE NextFrame(g) \/ DropFrame(g) \/ NextAudio(g)
    BY <1>0, <2>3 DEF NextFrame, DropFrame, NextAudio, guestVars
  <2>4. CASE Leave(g)
    <3>1. UNCHANGED <<active, joins, admitting>>
      BY <2>4 DEF Leave
    <3>2. \A h \in Guests : stage[h] \in {"seated", "gone"} => stage'[h] \in {"seated", "gone"}
      BY <2>4 DEF Leave, Shapes
    <3> QED BY <3>1, <3>2, StillAnnounced
  <2> QED BY <2>1, <2>2, <2>3, <2>4
<1>2. CASE LoopStep
  <2>1. CASE Wait \/ Build \/ Pass
    BY <1>0, <2>1 DEF Wait, Build, Pass, guestVars
  <2>2. CASE Failed
    <3>1. active' \in {active, {}} /\ UNCHANGED <<stage, joins, admitting>>
      BY <2>2 DEF Failed, Shapes, guestVars
    <3> QED BY <3>1 DEF Once, Announced
  <2>3. ASSUME active' = Latched(active), UNCHANGED <<stage, joins, admitting>> PROVE Once'
    <3>1. SameRoster(active')
      BY <2>3, LatchedIsRegated, RegatedRoster
    <3> QED BY <2>3, <3>1, SameGuests
  <2>4. ASSUME NEW exit \in {"Reconfigure", "Rediscover"}, Rebuild(exit) PROVE Once'
    BY <2>3, <2>4 DEF Rebuild, guestVars
  <2>5. CASE Arrival \/ \E g \in Guests : ArrivalContended(g)
    <3>1. joins \in Seq(Join) /\ joins # <<>> /\ joins' = Tail(joins)
      BY <2>5 DEF Arrival, ArrivalContended, Shapes
    <3>2. /\ 1 \in DOMAIN joins /\ Head(joins) = joins[1]
          /\ \A k \in DOMAIN joins' : k \in Nat /\ k + 1 \in DOMAIN joins /\ k + 1 # 1 /\ joins'[k] = joins[k + 1]
      BY <3>1
    <3>3. UNCHANGED <<stage, active>> /\ admitting' \in {admitting, joins[1]}
      BY <2>5, <3>2 DEF Arrival, ArrivalContended, guestVars
    <3>4. admitting = None
      BY <2>5 DEF Arrival, ArrivalContended, Threads
    <3>5. \A k \in DOMAIN joins' :
             /\ stage'[joins'[k].guest] \in {"seated", "gone"}
             /\ \A e \in active : e.guest # joins'[k].guest
             /\ joins[1].guest # joins'[k].guest
      <4> SUFFICES ASSUME NEW k \in DOMAIN joins'
                   PROVE  /\ stage'[joins'[k].guest] \in {"seated", "gone"}
                          /\ \A e \in active : e.guest # joins'[k].guest
                          /\ joins[1].guest # joins'[k].guest
        OBVIOUS
      <4>1. k + 1 \in DOMAIN joins /\ k + 1 # 1 /\ joins'[k] = joins[k + 1]
        BY <3>2
      <4> QED BY <3>2, <3>3, <4>1 DEF Once, Announced
    <3>6. \A k, l \in DOMAIN joins' : joins'[k].guest = joins'[l].guest => k = l
      <4> SUFFICES ASSUME NEW k \in DOMAIN joins', NEW l \in DOMAIN joins', joins'[k].guest = joins'[l].guest
                   PROVE  k = l
        OBVIOUS
      <4>1. k + 1 = l + 1
        BY <3>2 DEF Once
      <4> QED BY <3>2, <4>1
    <3>7. Announced(joins[1].guest) /\ \A e \in active : e.guest # joins[1].guest
      BY <3>2 DEF Once
    <3> QED BY <3>3, <3>4, <3>5, <3>6, <3>7 DEF Once, Announced
  <2>6. CASE Admit
    <3>1. admitting # None /\ admitting \in Join
      BY <2>6 DEF Admit, Threads, Shapes
    <3> DEFINE n == [seat |-> admitting.seat, guest |-> admitting.guest, pending |-> TRUE]
    <3>2. n.guest = admitting.guest /\ active' = active \cup {n} /\ admitting' = None /\ UNCHANGED <<stage, joins>>
      BY <2>6 DEF Admit, guestVars
    <3> HIDE DEF n
    <3> QED BY <3>1, <3>2 DEF Once, Announced
  <2>7. CASE Retire
    <3>1. active' \in SUBSET active /\ UNCHANGED <<stage, joins, admitting>>
      BY <2>7 DEF Retire, Remaining, guestVars
    <3> QED BY <3>1 DEF Once, Announced
  <2>8. ASSUME NEW key \in BOOLEAN, Withhold(key) PROVE Once'
    BY <2>3, <2>8 DEF Withhold, guestVars
  <2>9. ASSUME NEW key \in BOOLEAN, NEW room \in SUBSET active, NEW slot \in Slots, Publish(key, room, slot)
        PROVE  Once'
    <3>1. SameRoster(active')
      BY <2>9, Publishing, RegatedRoster DEF PublishSets
    <3> QED BY <2>9, <3>1, SameGuests DEF Publish, guestVars
  <2>10. ASSUME writer # None, NEW target \in writer.todo, Push(target) PROVE Once'
    BY <1>0, <2>10 DEF Push, guestVars
  <2>11. CASE Published
    <3>1. SameRoster(active')
      BY <2>11, RefusedIsRegated, RegatedRoster DEF Published
    <3> QED BY <2>11, <3>1, SameGuests DEF Published, guestVars
  <2> QED BY <1>2, <2>1, <2>2, <2>4, <2>5, <2>6, <2>7, <2>8, <2>9, <2>10, <2>11 DEF LoopStep
<1>3. CASE SoundStep
  BY <1>0, <1>3 DEF SoundStep, PublishAudio, PushAudio, AudioPublished, guestVars
<1>4. CASE UNCHANGED vars
  BY <1>0, <1>4 DEF vars, guestVars
<1> QED BY <1>1, <1>2, <1>3, <1>4 DEF Next

-----------------------------------------------------------------------------
(* Every hold comes back *)

FramesOf(i) == {f \in Frame : f.slot = i}

(* How often a slot is queued, how often it is held, and what the thread   *)
(* that publishes it has still to hand over.                               *)
Waiting(q, i) == Cardinality(Places(q, Seats, Depth, FramesOf(i)))
Heard(q, i) == Cardinality(Places(q, Seats, SoundDepth, {i}))
Holding(h, i) == {g \in Guests : h[g] # None /\ h[g].slot = i}
Own(w, i) == IF w # None /\ w.slot = i THEN 1 + Cardinality(w.todo) ELSE 0

Exact(count, q, h, w) ==
    \A i \in Slots : count[i] = Waiting(q, i) + Cardinality(Holding(h, i)) + Own(w, i)
ExactSound(count, q, w) == \A i \in SoundSlots : count[i] = Heard(q, i) + Own(w, i)

(* The places of a slot, with the queues as a parameter. *)
LEMMA QueuedPlaces ==
  ASSUME NEW q \in [Seats -> Seq(Frame)], NEW which \in SUBSET Seats, NEW i
  PROVE  {p \in which \X (1 .. Depth) : p[2] \in DOMAIN q[p[1]] /\ q[p[1]][p[2]].slot = i}
            = Places(q, which, Depth, FramesOf(i))
<1>1. ASSUME NEW p \in which \X (1 .. Depth), p[2] \in DOMAIN q[p[1]]
      PROVE  q[p[1]][p[2]] \in Frame
  <2>1. q[p[1]] \in Seq(Frame)
    OBVIOUS
  <2>2. DOMAIN q[p[1]] = 1 .. Len(q[p[1]])
    BY <2>1
  <2> QED BY <1>1, <2>1, <2>2
<1> QED BY <1>1 DEF Places, FramesOf

(* The places a slot of sound is queued at, as places of the rings of sound. *)
LEMMA SoundingPlaces ==
  ASSUME NEW q, NEW which \in SUBSET Seats, NEW i
  PROVE  {p \in which \X (1 .. SoundDepth) : p[2] \in DOMAIN q[p[1]] /\ q[p[1]][p[2]] = i}
            = Places(q, which, SoundDepth, {i})
BY DEF Places

(* HoldsCounted, said of the values of the variables. *)
LEMMA CountedIsExact ==
  ASSUME Shapes, ~contended
  PROVE  HoldsCounted <=> Exact(holders, ring, held, writer) /\ ExactSound(soundHolders, audio, speaker)
<1>1. \A i \in Slots : Queued(Seats, i) = Places(ring, Seats, Depth, FramesOf(i))
  BY QueuedPlaces DEF Shapes, Queued
<1>2. \A i \in SoundSlots : Sounding(Seats, i) = Places(audio, Seats, SoundDepth, {i})
  BY SoundingPlaces DEF Sounding
<1> QED BY <1>1, <1>2, Zenon DEF HoldsCounted, Exact, ExactSound, Waiting, Heard, Holding, Own

(* HoldsCounted after a step, from the counts of the primed values. *)
LEMMA ExactIsCounted ==
  ASSUME Shapes', Exact(holders', ring', held', writer'), ExactSound(soundHolders', audio', speaker')
  PROVE  HoldsCounted'
<1>1. \A i \in Slots : Queued(Seats, i)' = Places(ring', Seats, Depth, FramesOf(i))
  BY QueuedPlaces DEF Shapes, Queued
<1>2. \A i \in SoundSlots : Sounding(Seats, i)' = Places(audio', Seats, SoundDepth, {i})
  BY SoundingPlaces DEF Sounding
<1> QED BY <1>1, <1>2, Zenon DEF HoldsCounted, Exact, ExactSound, Waiting, Heard, Holding, Own

(* The parts of a count are natural numbers. *)
LEMMA CountTypes ==
  ASSUME NEW q, NEW h, NEW i
  PROVE  /\ Waiting(q, i) \in Nat /\ Heard(q, i) \in Nat
         /\ IsFiniteSet(Holding(h, i)) /\ Cardinality(Holding(h, i)) \in Nat
<1>1. Seats \in SUBSET Seats /\ Depth \in Nat /\ SoundDepth \in Nat
  BY SeatsAssumption
<1>2. Waiting(q, i) \in Nat /\ Heard(q, i) \in Nat
  BY <1>1, PlacesFinite DEF Waiting, Heard
<1>3. Holding(h, i) \in SUBSET Guests
  BY DEF Holding
<1>4. IsFiniteSet(Holding(h, i))
  BY <1>3, SeatsAssumption, FS_Subset
<1> QED BY <1>2, <1>4, FS_CardinalityType

(* The references to a slot that a writer still holds are a natural number. *)
LEMMA OwnType ==
  ASSUME NEW w, NEW i, w # None => IsFiniteSet(w.todo)
  PROVE  Own(w, i) \in Nat
<1>1. CASE w # None /\ w.slot = i
  <2>1. Cardinality(w.todo) \in Nat
    BY <1>1, FS_CardinalityType
  <2> QED BY <1>1, <2>1 DEF Own
<1>2. CASE ~(w # None /\ w.slot = i)
  BY <1>2 DEF Own
<1> QED BY <1>1, <1>2

(* release gives back exactly what was queued. *)
LEMMA ReleaseExact ==
  ASSUME Shapes, Exact(holders, ring, held, writer), ExactSound(soundHolders, audio, speaker),
         NEW which \in SUBSET Seats, Release(which), UNCHANGED <<held, writer, speaker>>,
         Threads
  PROVE  Exact(holders', ring', held', writer') /\ ExactSound(soundHolders', audio', speaker')
<1>0. Depth \in Nat /\ SoundDepth \in Nat /\ Seats \in SUBSET Seats
  BY SeatsAssumption
<1>1. ASSUME NEW i \in Slots
      PROVE  holders'[i] = Waiting(ring', i) + Cardinality(Holding(held', i)) + Own(writer', i)
  <2>1. ring' = [s \in Seats |-> IF s \in which THEN <<>> ELSE ring[s]]
    BY DEF Release
  <2>2. Queued(which, i) = Places(ring, which, Depth, FramesOf(i))
    BY QueuedPlaces DEF Shapes, Queued
  <2>3. Waiting(ring', i) = Waiting(ring, i) - Cardinality(Queued(which, i))
    BY <1>0, <2>1, <2>2, PlacesEmptied DEF Waiting
  <2>4. Cardinality(Queued(which, i)) \in Nat
    BY <1>0, <2>2, PlacesFinite
  <2>5. holders'[i] = holders[i] - Cardinality(Queued(which, i))
    BY DEF Release
  <2>6. Waiting(ring, i) \in Nat /\ Cardinality(Holding(held, i)) \in Nat /\ Own(writer, i) \in Nat
    BY CountTypes, OwnType DEF Threads
  <2>7. holders[i] = Waiting(ring, i) + Cardinality(Holding(held, i)) + Own(writer, i)
    BY DEF Exact
  <2> QED BY <2>3, <2>4, <2>5, <2>6, <2>7
<1>2. ASSUME NEW i \in SoundSlots
      PROVE  soundHolders'[i] = Heard(audio', i) + Own(speaker', i)
  <2>1. audio' = [s \in Seats |-> IF s \in which THEN <<>> ELSE audio[s]]
    BY DEF Release
  <2>2. Sounding(which, i) = Places(audio, which, SoundDepth, {i})
    BY SoundingPlaces DEF Sounding
  <2>3. Heard(audio', i) = Heard(audio, i) - Cardinality(Sounding(which, i))
    BY <1>0, <2>1, <2>2, PlacesEmptied DEF Heard
  <2>4. Cardinality(Sounding(which, i)) \in Nat
    BY <1>0, <2>2, PlacesFinite
  <2>5. soundHolders'[i] = soundHolders[i] - Cardinality(Sounding(which, i))
    BY DEF Release
  <2>6. Heard(audio, i) \in Nat /\ Own(speaker, i) \in Nat
    BY CountTypes, OwnType DEF Threads
  <2>7. soundHolders[i] = Heard(audio, i) + Own(speaker, i)
    BY DEF ExactSound
  <2> QED BY <2>3, <2>4, <2>5, <2>6, <2>7
<1> QED BY <1>1, <1>2 DEF Exact, ExactSound

(* A step of a guest keeps the counts exact. *)
LEMMA GuestExact ==
  ASSUME Shapes, Threads, Exact(holders, ring, held, writer), ExactSound(soundHolders, audio, speaker),
         GuestStep
  PROVE  Exact(holders', ring', held', writer') /\ ExactSound(soundHolders', audio', speaker')
<1> PICK g \in Guests : \/ \E s \in Seats : Claim(g, s)
                        \/ Announce(g)
                        \/ NextFrame(g) \/ DropFrame(g) \/ NextAudio(g) \/ Leave(g)
  BY DEF GuestStep
<1>0. Depth \in Nat /\ SoundDepth \in Nat
  BY SeatsAssumption
<1>1. CASE (\E s \in Seats : Claim(g, s)) \/ Announce(g) \/ Leave(g)
  <2>1. UNCHANGED <<holders, ring, held, writer, soundHolders, audio, speaker>>
    BY <1>1 DEF Claim, Announce, Leave, soundVars
  <2> QED BY <2>1
<1>2. CASE NextFrame(g)
  <2> DEFINE s == at[g]
             x == Head(ring[s])
  <2>1. s \in Seats /\ ring \in [Seats -> Seq(Frame)] /\ ring[s] # <<>> /\ Len(ring[s]) <= Depth
    BY <1>2 DEF NextFrame, Threads, Shapes
  <2>2. x \in Frame /\ x # None
    <3>1. ring[s] \in Seq(Frame)
      BY <2>1
    <3> QED BY <2>1, <3>1, NoneAssumption
  <2>3. /\ held[g] = None /\ held' = [held EXCEPT ![g] = x]
        /\ ring' = [ring EXCEPT ![s] = Tail(@)]
        /\ UNCHANGED <<holders, writer, soundHolders, audio, speaker>>
    BY <1>2 DEF NextFrame, soundVars
  <2>4. held \in [Guests -> Frame \cup {None}]
    BY DEF Shapes
  <2>5. ASSUME NEW i \in Slots
        PROVE  holders'[i] = Waiting(ring', i) + Cardinality(Holding(held', i)) + Own(writer', i)
    <3>1. Waiting(ring', i) = Waiting(ring, i) - (IF x \in FramesOf(i) THEN 1 ELSE 0)
      <4> HIDE DEF s
      <4>1. Popped(Frame, ring, ring', s, Depth)
        BY <1>0, <2>1, <2>3 DEF Popped
      <4>2. Cardinality(Places(ring', Seats, Depth, FramesOf(i))) =
              Cardinality(Places(ring, Seats, Depth, FramesOf(i))) - (IF Head(ring[s]) \in FramesOf(i) THEN 1 ELSE 0)
        BY <4>1, PlacesPopped
      <4> QED BY <4>2 DEF Waiting
    <3> HIDE DEF x, s
    <3>2. x \in FramesOf(i) <=> x.slot = i
      BY <2>2 DEF FramesOf
    <3>3. g \notin Holding(held, i) /\ Holding(held', i) = IF x.slot = i THEN Holding(held, i) \cup {g} ELSE Holding(held, i)
      BY <2>2, <2>3, <2>4 DEF Holding
    <3>4. IsFiniteSet(Holding(held, i))
      BY CountTypes
    <3>5. Cardinality(Holding(held', i)) = Cardinality(Holding(held, i)) + (IF x.slot = i THEN 1 ELSE 0)
      <4>1. Cardinality(Holding(held, i) \cup {g}) = Cardinality(Holding(held, i)) + 1
        BY <3>3, <3>4, FS_AddElement
      <4>2. Cardinality(Holding(held, i)) \in Nat
        BY CountTypes
      <4> QED BY <3>3, <4>1, <4>2
    <3>6. Waiting(ring, i) \in Nat /\ Cardinality(Holding(held, i)) \in Nat /\ Own(writer, i) \in Nat
      BY CountTypes, OwnType DEF Threads
    <3>7. holders[i] = Waiting(ring, i) + Cardinality(Holding(held, i)) + Own(writer, i)
      BY DEF Exact
    <3>8. holders'[i] = holders[i] /\ Own(writer', i) = Own(writer, i)
      BY <2>3
    <3> QED BY <3>1, <3>2, <3>5, <3>6, <3>7, <3>8
  <2> QED BY <2>3, <2>5 DEF Exact
<1>3. CASE DropFrame(g)
  <2> DEFINE x == held[g]
  <2>1. held \in [Guests -> Frame \cup {None}] /\ x \in Frame /\ x # None /\ x.slot \in Slots
    BY <1>3 DEF DropFrame, Shapes, Frame
  <2>2. /\ holders' = [holders EXCEPT ![x.slot] = @ - 1] /\ held' = [held EXCEPT ![g] = None]
        /\ UNCHANGED <<ring, writer, soundHolders, audio, speaker>>
    BY <1>3 DEF DropFrame, soundVars
  <2>3. ASSUME NEW i \in Slots
        PROVE  holders'[i] = Waiting(ring', i) + Cardinality(Holding(held', i)) + Own(writer', i)
    <3>1. (g \in Holding(held, i) <=> x.slot = i) /\ Holding(held', i) = Holding(held, i) \ {g}
      BY <2>1, <2>2 DEF Holding
    <3>2. IsFiniteSet(Holding(held, i)) /\ Cardinality(Holding(held, i)) \in Nat /\ Waiting(ring, i) \in Nat /\ Own(writer, i) \in Nat
      BY CountTypes, OwnType DEF Threads
    <3>3. Cardinality(Holding(held', i)) = Cardinality(Holding(held, i)) - (IF x.slot = i THEN 1 ELSE 0)
      <4>1. Cardinality(Holding(held, i) \ {g}) = IF g \in Holding(held, i) THEN Cardinality(Holding(held, i)) - 1 ELSE Cardinality(Holding(held, i))
        BY <3>2, FS_RemoveElement
      <4> QED BY <3>1, <3>2, <4>1
    <3>4. holders'[i] = holders[i] - (IF x.slot = i THEN 1 ELSE 0) /\ holders[i] \in Int
      BY <2>1, <2>2 DEF Shapes
    <3>5. holders[i] = Waiting(ring, i) + Cardinality(Holding(held, i)) + Own(writer, i)
      BY DEF Exact
    <3>6. Waiting(ring', i) = Waiting(ring, i) /\ Own(writer', i) = Own(writer, i)
      BY <2>2
    <3> HIDE DEF x
    <3> QED BY <3>2, <3>3, <3>4, <3>5, <3>6
  <2> QED BY <2>2, <2>3 DEF Exact
<1>4. CASE NextAudio(g)
  <2> DEFINE s == at[g]
             x == Head(audio[s])
  <2>1. s \in Seats /\ audio \in [Seats -> Seq(SoundSlots)] /\ audio[s] # <<>> /\ Len(audio[s]) <= SoundDepth
    BY <1>4 DEF NextAudio, Threads, Shapes
  <2>2. x \in SoundSlots
    <3>1. audio[s] \in Seq(SoundSlots)
      BY <2>1
    <3> QED BY <2>1, <3>1
  <2>3. /\ soundHolders' = [soundHolders EXCEPT ![x] = @ - 1]
        /\ audio' = [audio EXCEPT ![s] = Tail(@)]
        /\ UNCHANGED <<holders, ring, held, writer, speaker>>
    BY <1>4 DEF NextAudio, guestVars
  <2>4. ASSUME NEW i \in SoundSlots
        PROVE  soundHolders'[i] = Heard(audio', i) + Own(speaker', i)
    <3>1. Heard(audio', i) = Heard(audio, i) - (IF x \in {i} THEN 1 ELSE 0)
      <4> HIDE DEF s
      <4>1. Popped(SoundSlots, audio, audio', s, SoundDepth)
        BY <1>0, <2>1, <2>3 DEF Popped
      <4>2. Cardinality(Places(audio', Seats, SoundDepth, {i})) =
              Cardinality(Places(audio, Seats, SoundDepth, {i})) - (IF Head(audio[s]) \in {i} THEN 1 ELSE 0)
        BY <4>1, PlacesPopped
      <4> QED BY <4>2 DEF Heard
    <3> HIDE DEF x, s
    <3>2. Heard(audio, i) \in Nat /\ Own(speaker, i) \in Nat
      BY CountTypes, OwnType DEF Threads
    <3>3. soundHolders'[i] = soundHolders[i] - (IF x = i THEN 1 ELSE 0) /\ soundHolders[i] \in Int
      BY <2>2, <2>3 DEF Shapes
    <3>4. soundHolders[i] = Heard(audio, i) + Own(speaker, i)
      BY DEF ExactSound
    <3>5. Own(speaker', i) = Own(speaker, i)
      BY <2>3
    <3> QED BY <3>1, <3>2, <3>3, <3>4, <3>5
  <2> QED BY <2>3, <2>4 DEF ExactSound
<1> QED BY <1>1, <1>2, <1>3, <1>4

(* What a publishing thread has still to hand over, one push later. *)
LEMMA OwnPushed ==
  ASSUME NEW w, NEW v, NEW t, NEW i, w # None, v # None, v.slot = w.slot,
         IsFiniteSet(w.todo), t \in w.todo, v.todo = w.todo \ {t}
  PROVE  Own(v, i) = Own(w, i) - (IF w.slot = i THEN 1 ELSE 0)
<1>1. Cardinality(v.todo) = Cardinality(w.todo) - 1 /\ Cardinality(w.todo) \in Nat
  BY FS_RemoveElement, FS_CardinalityType
<1> QED BY <1>1 DEF Own

(* A step of the loop keeps the counts exact. *)
LEMMA LoopExact ==
  ASSUME Shapes, Threads, Once, Exact(holders, ring, held, writer),
         ExactSound(soundHolders, audio, speaker), LoopStep, ~contended'
  PROVE  Exact(holders', ring', held', writer') /\ ExactSound(soundHolders', audio', speaker')
<1>0. Depth \in Nat /\ SoundDepth \in Nat
  BY SeatsAssumption
<1>1. CASE UNCHANGED <<holders, ring, held, writer, soundHolders, audio, speaker>>
  BY <1>1
<1>2. CASE Wait
  <2>1. Leaving \in SUBSET Seats /\ Release(Leaving) /\ UNCHANGED <<held, writer, speaker>>
    BY <1>2 DEF Leaving, Wait, guestVars
  <2> QED BY <2>1, ReleaseExact
<1>3. CASE Retire
  <2>1. Left \in SUBSET Seats /\ Release(Left) /\ UNCHANGED <<held, writer, speaker>>
    BY <1>3 DEF Left, Leaving, Retire, guestVars
  <2> QED BY <2>1, ReleaseExact
<1>4. CASE Arrival
  <2>1. CASE seat[Head(joins).seat] = "Claimed"
    BY <1>1, <1>4, <2>1 DEF Arrival, guestVars
  <2>2. CASE seat[Head(joins).seat] # "Claimed"
    <3>1. joins \in Seq(Join) /\ joins # <<>>
      BY <1>4 DEF Arrival, Shapes
    <3>2. Head(joins) \in Join
      BY <3>1
    <3>3. {Head(joins).seat} \in SUBSET Seats
      BY <3>2 DEF Join
    <3>4. Release({Head(joins).seat}) /\ UNCHANGED <<held, writer, speaker>>
      BY <1>4, <2>2 DEF Arrival, guestVars
    <3> QED BY <3>3, <3>4, ReleaseExact
  <2> QED BY <2>1, <2>2
<1>5. CASE Build \/ Failed \/ (\E exit \in {"Reconfigure", "Rediscover"} : Rebuild(exit)) \/ Admit \/ Pass \/ (\E key \in BOOLEAN : Withhold(key))
  BY <1>1, <1>5 DEF Build, Failed, Rebuild, Admit, Pass, Withhold, guestVars, soundVars
<1>6. ASSUME NEW key \in BOOLEAN, NEW room \in SUBSET active, NEW slot \in Slots, Publish(key, room, slot)
      PROVE  Exact(holders', ring', held', writer') /\ ExactSound(soundHolders', audio', speaker')
  <2>1. PublishSets(key, room, slot)
    BY <1>6, Publishing
  <2>2. /\ holders[slot] = 0 /\ loop = "pass"
        /\ UNCHANGED <<ring, held, soundHolders, audio, speaker>>
    BY <1>6 DEF Publish, Encoded, guestVars, soundVars
  <2>3. writer = None /\ writer' # None
    BY <2>1, <2>2, NoneAssumption DEF Threads, PublishSets
  <2>4. ASSUME NEW i \in Slots
        PROVE  holders'[i] = Waiting(ring', i) + Cardinality(Holding(held', i)) + Own(writer', i)
    <3>1. Waiting(ring, i) \in Nat /\ Cardinality(Holding(held, i)) \in Nat /\ Own(writer, i) = 0
      BY <2>3, CountTypes DEF Own
    <3>2. holders[i] = Waiting(ring, i) + Cardinality(Holding(held, i)) + Own(writer, i)
      BY DEF Exact
    <3>3. holders'[i] = IF i = slot THEN 1 + Cardinality(writer'.todo) ELSE holders[i]
      BY <2>1 DEF PublishSets, Shapes
    <3>4. Own(writer', i) = (IF i = slot THEN 1 + Cardinality(writer'.todo) ELSE 0) /\ Cardinality(writer'.todo) \in Nat
      BY <2>1, <2>3 DEF PublishSets, Own
    <3>5. Waiting(ring', i) = Waiting(ring, i) /\ Holding(held', i) = Holding(held, i)
      BY <2>2
    <3> QED BY <2>2, <3>1, <3>2, <3>3, <3>4, <3>5
  <2> QED BY <2>2, <2>4 DEF Exact
<1>7. ASSUME writer # None, NEW target \in writer.todo, Push(target)
      PROVE  Exact(holders', ring', held', writer') /\ ExactSound(soundHolders', audio', speaker')
  <2>1. writer \in Publication /\ target \in Join /\ target.seat \in Seats /\ target.guest \in Guests
    BY <1>7 DEF Shapes, Publication, Join
  <2>2. UNCHANGED <<held, soundHolders, audio, speaker>>
    BY <1>7 DEF Push, guestVars, soundVars
  <2>3. writer' # None /\ writer'.slot = writer.slot /\ writer'.todo = writer.todo \ {target}
    <3>1. \/ writer' = [writer EXCEPT !.todo = @ \ {target}]
          \/ writer' = [writer EXCEPT !.todo = @ \ {target}, !.refused = @ \cup {target.guest}]
      BY <1>7 DEF Push
    <3>2. writer' \in Publication /\ writer'.slot = writer.slot /\ writer'.todo = writer.todo \ {target}
      BY <2>1, <3>1 DEF Publication
    <3> QED BY <3>2, NoneAssumption
  <2>4. ASSUME NEW i \in Slots
        PROVE  holders'[i] = Waiting(ring', i) + Cardinality(Holding(held', i)) + Own(writer', i)
    <3>1. Own(writer', i) = Own(writer, i) - (IF writer.slot = i THEN 1 ELSE 0)
      BY <1>7, <2>3, OwnPushed DEF Threads
    <3>2. Waiting(ring, i) \in Nat /\ Cardinality(Holding(held, i)) \in Nat /\ Own(writer, i) \in Nat
      BY CountTypes, OwnType DEF Threads
    <3>3. holders[i] = Waiting(ring, i) + Cardinality(Holding(held, i)) + Own(writer, i)
      BY DEF Exact
    <3>4. Holding(held', i) = Holding(held, i)
      BY <2>2
    <3>5. CASE Fits(ring[target.seat])
      <4> DEFINE x == [slot |-> writer.slot, frame |-> writer.frame]
                 s == target.seat
      <4>1. ring' = [ring EXCEPT ![s] = Append(@, x)] /\ holders' = holders
        BY <1>7, <3>5 DEF Push
      <4>2. x \in Frame /\ x.slot = writer.slot
        BY <2>1 DEF Publication, Frame
      <4> HIDE DEF x
      <4>3. Pushed(Frame, ring, ring', s, x, Depth)
        BY <1>0, <2>1, <3>5, <4>1, <4>2 DEF Pushed, Shapes, Fits
      <4> HIDE DEF s
      <4>4. Waiting(ring', i) = Waiting(ring, i) + (IF x \in FramesOf(i) THEN 1 ELSE 0)
        BY <4>3, PlacesPushed DEF Waiting
      <4>5. x \in FramesOf(i) <=> writer.slot = i
        BY <4>2 DEF FramesOf
      <4> QED BY <3>1, <3>2, <3>3, <3>4, <4>1, <4>4, <4>5
    <3>6. CASE ~Fits(ring[target.seat])
      <4>1. holders' = [holders EXCEPT ![writer.slot] = @ - 1] /\ ring' = ring
        BY <1>7, <3>6 DEF Push, GiveBack
      <4>2. holders'[i] = holders[i] - (IF writer.slot = i THEN 1 ELSE 0)
        <5>1. holders \in [Slots -> Int]
          BY DEF Shapes
        <5> QED BY <4>1, <5>1
      <4> QED BY <3>1, <3>2, <3>3, <3>4, <4>1, <4>2
    <3> QED BY <3>5, <3>6
  <2> QED BY <2>2, <2>4 DEF Exact
<1>8. CASE Published
  <2>1. writer # None /\ writer.todo = {} /\ writer \in Publication
    BY <1>8 DEF Published, Threads, Shapes
  <2>2. /\ holders' = [holders EXCEPT ![writer.slot] = @ - 1] /\ writer' = None
        /\ UNCHANGED <<ring, held, soundHolders, audio, speaker>>
    BY <1>8 DEF Published, guestVars, soundVars
  <2>3. ASSUME NEW i \in Slots
        PROVE  holders'[i] = Waiting(ring', i) + Cardinality(Holding(held', i)) + Own(writer', i)
    <3>1. Waiting(ring, i) \in Nat /\ Cardinality(Holding(held, i)) \in Nat
      BY CountTypes
    <3>2. holders[i] = Waiting(ring, i) + Cardinality(Holding(held, i)) + Own(writer, i)
      BY DEF Exact
    <3>3. Own(writer, i) = (IF writer.slot = i THEN 1 ELSE 0) /\ Own(writer', i) = 0
      BY <2>1, <2>2, FS_EmptySet DEF Own
    <3>4. holders'[i] = holders[i] - (IF writer.slot = i THEN 1 ELSE 0)
      <4>1. holders \in [Slots -> Int]
        BY DEF Shapes
      <4> QED BY <2>2, <4>1
    <3>5. Waiting(ring', i) = Waiting(ring, i) /\ Holding(held', i) = Holding(held, i)
      BY <2>2
    <3> QED BY <3>1, <3>2, <3>3, <3>4, <3>5
  <2> QED BY <2>2, <2>3 DEF Exact
<1>9. ~(\E g \in Guests : ArrivalContended(g))
  BY DEF ArrivalContended
<1> QED BY <1>2, <1>3, <1>4, <1>5, <1>6, <1>7, <1>8, <1>9 DEF LoopStep

(* A step of the audio thread keeps the counts exact. *)
LEMMA SoundExact ==
  ASSUME Shapes, Threads, Exact(holders, ring, held, writer),
         ExactSound(soundHolders, audio, speaker), SoundStep
  PROVE  Exact(holders', ring', held', writer') /\ ExactSound(soundHolders', audio', speaker')
<1>0. UNCHANGED <<holders, ring, held, writer>> /\ Depth \in Nat /\ SoundDepth \in Nat
  BY SeatsAssumption DEF SoundStep, PublishAudio, PushAudio, AudioPublished, guestVars
<1>1. Exact(holders', ring', held', writer')
  BY <1>0
<1>2. ASSUME NEW slot \in SoundSlots, PublishAudio(slot) PROVE ExactSound(soundHolders', audio', speaker')
  <2> DEFINE listening == {s \in Seats : seat[s] = "Streaming"}
  <2>1. /\ speaker = None /\ soundHolders[slot] = 0 /\ audio' = audio
        /\ soundHolders' = [soundHolders EXCEPT ![slot] = 1 + Cardinality(listening)]
        /\ speaker' = [slot |-> slot, todo |-> listening]
    BY <1>2 DEF PublishAudio
  <2>2. speaker' \in Broadcast /\ speaker'.slot = slot /\ speaker'.todo = listening
    BY <2>1 DEF Broadcast
  <2>3. IsFiniteSet(listening)
    BY SeatsAssumption, FS_Subset
  <2> HIDE DEF listening
  <2>4. Cardinality(listening) \in Nat /\ speaker' # None
    BY <2>2, <2>3, FS_CardinalityType, NoneAssumption
  <2>5. ASSUME NEW i \in SoundSlots PROVE soundHolders'[i] = Heard(audio', i) + Own(speaker', i)
    <3>1. Heard(audio, i) \in Nat /\ Own(speaker, i) = 0
      BY <2>1, CountTypes DEF Own
    <3>2. soundHolders[i] = Heard(audio, i) + Own(speaker, i)
      BY DEF ExactSound
    <3>3. soundHolders'[i] = IF i = slot THEN 1 + Cardinality(listening) ELSE soundHolders[i]
      BY <2>1 DEF Shapes
    <3>4. Own(speaker', i) = IF i = slot THEN 1 + Cardinality(listening) ELSE 0
      BY <2>2, <2>4 DEF Own
    <3>5. Heard(audio', i) = Heard(audio, i)
      BY <2>1
    <3> QED BY <2>1, <2>4, <3>1, <3>2, <3>3, <3>4, <3>5
  <2> QED BY <2>5 DEF ExactSound
<1>3. ASSUME NEW s \in Seats, PushAudio(s) PROVE ExactSound(soundHolders', audio', speaker')
  <2>1. speaker # None /\ speaker \in Broadcast /\ s \in speaker.todo
    BY <1>3 DEF PushAudio, Shapes
  <2>2. speaker' # None /\ speaker'.slot = speaker.slot /\ speaker'.todo = speaker.todo \ {s}
    <3>1. speaker' = [speaker EXCEPT !.todo = @ \ {s}]
      BY <1>3 DEF PushAudio
    <3>2. speaker' \in Broadcast /\ speaker'.slot = speaker.slot /\ speaker'.todo = speaker.todo \ {s}
      BY <2>1, <3>1 DEF Broadcast
    <3> QED BY <3>2, NoneAssumption
  <2>3. ASSUME NEW i \in SoundSlots PROVE soundHolders'[i] = Heard(audio', i) + Own(speaker', i)
    <3>1. Own(speaker', i) = Own(speaker, i) - (IF speaker.slot = i THEN 1 ELSE 0)
      BY <2>1, <2>2, OwnPushed DEF Threads
    <3>2. Heard(audio, i) \in Nat /\ Own(speaker, i) \in Nat
      BY CountTypes, OwnType DEF Threads
    <3>3. soundHolders[i] = Heard(audio, i) + Own(speaker, i)
      BY DEF ExactSound
    <3>4. CASE Len(audio[s]) < SoundDepth
      <4>1. audio' = [audio EXCEPT ![s] = Append(@, speaker.slot)] /\ soundHolders' = soundHolders
        BY <1>3, <3>4 DEF PushAudio
      <4>2. Pushed(SoundSlots, audio, audio', s, speaker.slot, SoundDepth)
        BY <1>0, <2>1, <3>4, <4>1 DEF Pushed, Shapes, Broadcast
      <4>3. Heard(audio', i) = Heard(audio, i) + (IF speaker.slot \in {i} THEN 1 ELSE 0)
        BY <4>2, PlacesPushed DEF Heard
      <4> QED BY <3>1, <3>2, <3>3, <4>1, <4>3
    <3>5. CASE ~(Len(audio[s]) < SoundDepth)
      <4>1. soundHolders' = [soundHolders EXCEPT ![speaker.slot] = @ - 1] /\ audio' = audio
        BY <1>3, <3>5 DEF PushAudio
      <4>2. soundHolders'[i] = soundHolders[i] - (IF speaker.slot = i THEN 1 ELSE 0)
        <5>1. soundHolders \in [SoundSlots -> Int]
          BY DEF Shapes
        <5> QED BY <4>1, <5>1
      <4> QED BY <3>1, <3>2, <3>3, <4>1, <4>2
    <3> QED BY <3>4, <3>5
  <2> QED BY <2>3 DEF ExactSound
<1>4. ASSUME AudioPublished PROVE ExactSound(soundHolders', audio', speaker')
  <2>1. /\ speaker # None /\ speaker.todo = {} /\ speaker' = None /\ audio' = audio
        /\ soundHolders' = [soundHolders EXCEPT ![speaker.slot] = @ - 1]
    BY <1>4 DEF AudioPublished
  <2>2. ASSUME NEW i \in SoundSlots PROVE soundHolders'[i] = Heard(audio', i) + Own(speaker', i)
    <3>1. Heard(audio, i) \in Nat /\ soundHolders[i] = Heard(audio, i) + Own(speaker, i)
      BY CountTypes DEF ExactSound
    <3>2. Own(speaker, i) = (IF speaker.slot = i THEN 1 ELSE 0) /\ Own(speaker', i) = 0
      BY <2>1, FS_EmptySet DEF Own
    <3>3. soundHolders'[i] = soundHolders[i] - (IF speaker.slot = i THEN 1 ELSE 0)
      <4>1. soundHolders \in [SoundSlots -> Int]
        BY DEF Shapes
      <4> QED BY <2>1, <4>1
    <3>4. Heard(audio', i) = Heard(audio, i)
      BY <2>1
    <3> QED BY <3>1, <3>2, <3>3, <3>4
  <2> QED BY <2>2 DEF ExactSound
<1> QED BY <1>1, <1>2, <1>3, <1>4 DEF SoundStep

(* A slot with no holders is in nobody's ring and in nobody's hands. *)
LEMMA FreeIsUnused ==
  ASSUME Shapes, Threads, Exact(holders, ring, held, writer), NEW slot \in Slots, holders[slot] = 0
  PROVE  /\ \A s \in Seats : \A k \in DOMAIN ring[s] : ring[s][k].slot # slot
         /\ \A g \in Guests : held[g] # None => held[g].slot # slot
<1>0. Depth \in Nat /\ Seats \in SUBSET Seats
  BY SeatsAssumption
<1>1. Waiting(ring, slot) = 0 /\ Cardinality(Holding(held, slot)) = 0
  <2>1. Waiting(ring, slot) \in Nat /\ Cardinality(Holding(held, slot)) \in Nat /\ Own(writer, slot) \in Nat
    BY CountTypes, OwnType DEF Threads
  <2>2. 0 = Waiting(ring, slot) + Cardinality(Holding(held, slot)) + Own(writer, slot)
    BY DEF Exact
  <2> QED BY <2>1, <2>2
<1>2. Places(ring, Seats, Depth, FramesOf(slot)) = {}
  <2>1. IsFiniteSet(Places(ring, Seats, Depth, FramesOf(slot)))
    BY <1>0, PlacesFinite
  <2> QED BY <1>1, <2>1, FS_EmptySet DEF Waiting
<1>3. Holding(held, slot) = {}
  BY <1>1, CountTypes, FS_EmptySet
<1>4. ASSUME NEW s \in Seats, NEW k \in DOMAIN ring[s], ring[s][k].slot = slot PROVE FALSE
  <2>1. ring[s] \in Seq(Frame) /\ Len(ring[s]) <= Depth
    BY DEF Shapes
  <2>2. k \in 1 .. Depth /\ ring[s][k] \in Frame
    BY <1>0, <2>1
  <2>3. <<s, k>> \in Places(ring, Seats, Depth, FramesOf(slot))
    BY <1>4, <2>2 DEF Places, FramesOf
  <2> QED BY <1>2, <2>3
<1> QED BY <1>3, <1>4 DEF Holding

(* FramesIntact without its exception. *)
Intact ==
    /\ \A s \in Seats : \A i \in DOMAIN ring[s] : content[ring[s][i].slot] = ring[s][i].frame
    /\ \A g \in Guests : held[g] # None => content[held[g].slot] = held[g].frame

(* Every step leaves the frames on their way to guests as they are. *)
LEMMA NextIntact ==
  ASSUME Shapes, Threads, Once, Exact(holders, ring, held, writer), Intact, [Next]_vars, ~contended'
  PROVE  Intact'
<1>0. CASE UNCHANGED <<ring, held, content>>
  BY <1>0 DEF Intact
<1>1. ASSUME NEW which, Release(which), UNCHANGED <<held, content>> PROVE Intact'
  <2>1. \A s \in Seats : ring'[s] \in {<<>>, ring[s]}
    BY <1>1 DEF Release
  <2> QED BY <1>1, <2>1 DEF Intact
<1>2. CASE GuestStep
  <2> PICK g \in Guests : \/ \E s \in Seats : Claim(g, s)
                          \/ Announce(g)
                          \/ NextFrame(g) \/ DropFrame(g) \/ NextAudio(g) \/ Leave(g)
    BY <1>2 DEF GuestStep
  <2>1. CASE (\E s \in Seats : Claim(g, s)) \/ Announce(g) \/ NextAudio(g) \/ Leave(g)
    BY <1>0, <2>1 DEF Claim, Announce, NextAudio, Leave, guestVars
  <2>2. CASE NextFrame(g)
    <3> DEFINE s == at[g]
               q == ring[s]
    <3>1. s \in Seats /\ q \in Seq(Frame) /\ q # <<>>
      BY <2>2 DEF NextFrame, Threads, Shapes
    <3>2. held' = [held EXCEPT ![g] = Head(q)] /\ ring' = [ring EXCEPT ![s] = Tail(q)] /\ content' = content
      BY <2>2 DEF NextFrame
    <3>3. content[Head(q).slot] = Head(q).frame
      <4>1. 1 \in DOMAIN q /\ Head(q) = q[1]
        BY <3>1
      <4> QED BY <3>1, <4>1 DEF Intact
    <3>4. \A k \in DOMAIN Tail(q) : content[Tail(q)[k].slot] = Tail(q)[k].frame
      <4> SUFFICES ASSUME NEW k \in DOMAIN Tail(q) PROVE content[Tail(q)[k].slot] = Tail(q)[k].frame
        OBVIOUS
      <4>1. k + 1 \in DOMAIN q /\ Tail(q)[k] = q[k + 1]
        BY <3>1
      <4> QED BY <3>1, <4>1 DEF Intact
    <3>5. ring \in [Seats -> Seq(Frame)] /\ held \in [Guests -> Frame \cup {None}]
      BY DEF Shapes
    <3> HIDE DEF s, q
    <3>6. \A t \in Seats : \A k \in DOMAIN ring'[t] : content[ring'[t][k].slot] = ring'[t][k].frame
      BY <3>1, <3>2, <3>4, <3>5 DEF Intact
    <3>7. \A h \in Guests : held'[h] # None => content[held'[h].slot] = held'[h].frame
      BY <3>2, <3>3, <3>5 DEF Intact
    <3> QED BY <3>2, <3>6, <3>7 DEF Intact
  <2>3. CASE DropFrame(g)
    <3>1. held' = [held EXCEPT ![g] = None] /\ UNCHANGED <<ring, content>> /\ held \in [Guests -> Frame \cup {None}]
      BY <2>3 DEF DropFrame, Shapes
    <3> QED BY <3>1 DEF Intact
  <2> QED BY <2>1, <2>2, <2>3
<1>3. CASE LoopStep
  <2>1. CASE Wait
    BY <1>1, <2>1 DEF Wait, guestVars
  <2>2. CASE Retire
    BY <1>1, <2>2 DEF Retire, guestVars
  <2>3. CASE Arrival
    <3>1. UNCHANGED <<held, content>> /\ (ring' = ring \/ Release({Head(joins).seat}))
      BY <2>3 DEF Arrival, guestVars
    <3> QED BY <1>0, <1>1, <3>1
  <2>4. CASE Build \/ Failed \/ (\E exit \in {"Reconfigure", "Rediscover"} : Rebuild(exit)) \/ Admit \/ Pass \/ Published
              \/ (\E key \in BOOLEAN : Withhold(key))
    BY <1>0, <2>4 DEF Build, Failed, Rebuild, Admit, Pass, Published, Withhold, guestVars
  <2>5. ASSUME NEW key \in BOOLEAN, NEW room \in SUBSET active, NEW slot \in Slots, Publish(key, room, slot)
        PROVE  Intact'
    <3>1. holders[slot] = 0 /\ UNCHANGED <<ring, held>> /\ content' = [content EXCEPT ![slot] = frames + 1]
      BY <2>5 DEF Publish, guestVars
    <3>2. /\ \A s \in Seats : \A k \in DOMAIN ring[s] : ring[s][k].slot # slot
          /\ \A g \in Guests : held[g] # None => held[g].slot # slot
      BY <3>1, FreeIsUnused
    <3>3. \A i : i # slot => content'[i] = content[i]
      BY <3>1 DEF Shapes
    <3> QED BY <3>1, <3>2, <3>3 DEF Intact
  <2>6. ASSUME writer # None, NEW target \in writer.todo, Push(target) PROVE Intact'
    <3>1. UNCHANGED <<held, content>> /\ content[writer.slot] = writer.frame
      BY <2>6 DEF Push, Threads, guestVars
    <3>2. CASE ~Fits(ring[target.seat])
      BY <1>0, <2>6, <3>1, <3>2 DEF Push
    <3>3. CASE Fits(ring[target.seat])
      <4> DEFINE x == [slot |-> writer.slot, frame |-> writer.frame]
                 s == target.seat
                 q == ring[s]
      <4>1. ring' = [ring EXCEPT ![s] = Append(q, x)]
        BY <2>6, <3>3 DEF Push
      <4>2. s \in Seats /\ q \in Seq(Frame) /\ x.slot = writer.slot /\ x.frame = writer.frame
        BY <2>6 DEF Shapes, Publication, Join
      <4> HIDE DEF x
      <4>3. \A k \in DOMAIN Append(q, x) : Append(q, x)[k] = x \/ (k \in DOMAIN q /\ Append(q, x)[k] = q[k])
        <5> HIDE DEF q
        <5> QED BY <4>2
      <4>4. \A k \in DOMAIN Append(q, x) : content[Append(q, x)[k].slot] = Append(q, x)[k].frame
        BY <3>1, <4>2, <4>3 DEF Intact
      <4>5. ring \in [Seats -> Seq(Frame)]
        BY DEF Shapes
      <4> HIDE DEF s, q
      <4>6. \A t \in Seats : \A k \in DOMAIN ring'[t] : content[ring'[t][k].slot] = ring'[t][k].frame
        BY <4>1, <4>2, <4>4, <4>5 DEF Intact
      <4> QED BY <3>1, <4>6 DEF Intact
    <3> QED BY <3>2, <3>3
  <2>7. ~(\E g \in Guests : ArrivalContended(g))
    BY DEF ArrivalContended
  <2> QED BY <1>3, <2>1, <2>2, <2>3, <2>4, <2>5, <2>6, <2>7 DEF LoopStep
<1>4. CASE SoundStep
  BY <1>0, <1>4 DEF SoundStep, PublishAudio, PushAudio, AudioPublished, guestVars
<1>5. CASE UNCHANGED vars
  BY <1>0, <1>5 DEF vars, guestVars
<1> QED BY <1>2, <1>3, <1>4, <1>5 DEF Next

(* The initial state. *)
LEMMA InitSeatsInv == Init => SeatsInv
<1> SUFFICES ASSUME Init PROVE SeatsInv
  OBVIOUS
<1>1. Shapes
  <2>1. <<>> \in Seq(Frame) /\ <<>> \in Seq(SoundSlots) /\ Len(<<>>) = 0 /\ <<>> \in Seq(Join)
    OBVIOUS
  <2>2. \A s \in Seats : ring[s] = <<>> /\ audio[s] = <<>>
    BY DEF Init
  <2>3. ring \in [Seats -> Seq(Frame)] /\ audio \in [Seats -> Seq(SoundSlots)]
    BY <2>1 DEF Init
  <2>4. \A s \in Seats : Len(ring[s]) <= Depth /\ Len(audio[s]) <= SoundDepth
    BY <2>1, <2>2, SeatsAssumption
  <2>5. /\ seat \in [Seats -> {"Free", "Claimed", "Streaming", "Leaving"}]
        /\ stage \in [Guests -> {"out", "claiming", "seated", "gone"}]
        /\ at \in [Guests -> Seats \cup {None}] /\ held \in [Guests -> Frame \cup {None}]
        /\ last \in [Guests -> 0 .. MaxFrames]
        /\ holders \in [Slots -> Int] /\ content \in [Slots -> 0 .. MaxFrames] /\ soundHolders \in [SoundSlots -> Int]
    BY SeatsAssumption DEF Init
  <2>6. /\ frames \in 0 .. MaxFrames /\ epoch \in 0 .. exits /\ exits \in 0 .. MaxExits /\ packets \in 0 .. MaxPackets
    BY SeatsAssumption DEF Init
  <2>7. /\ joins \in Seq(Join) /\ admitting = None /\ writer = None /\ speaker = None /\ active = {} /\ keys = {}
        /\ fallback = {} /\ fresh \in BOOLEAN /\ loop = "waiting"
    BY <2>1 DEF Init
  <2> QED BY <2>3, <2>4, <2>5, <2>6, <2>7 DEF Shapes
<1>2. Threads /\ Once /\ FramesIntact
  <2>1. DOMAIN joins = {} /\ active = {} /\ \A s \in Seats : DOMAIN ring[s] = {}
    BY DEF Init
  <2> QED BY <2>1 DEF Init, Threads, Once, FramesIntact
<1>3. Exact(holders, ring, held, writer) /\ ExactSound(soundHolders, audio, speaker)
  <2>1. ASSUME NEW i
        PROVE  Places(ring, Seats, Depth, FramesOf(i)) = {} /\ Places(audio, Seats, SoundDepth, {i}) = {}
               /\ Holding(held, i) = {}
    <3>1. \A s \in Seats : DOMAIN ring[s] = {} /\ DOMAIN audio[s] = {}
      BY DEF Init
    <3>2. \A p \in Seats \X (1 .. Depth) : p[1] \in Seats
      OBVIOUS
    <3>3. \A p \in Seats \X (1 .. SoundDepth) : p[1] \in Seats
      OBVIOUS
    <3>4. Holding(held, i) = {}
      BY DEF Init, Holding
    <3> QED BY <3>1, <3>2, <3>3, <3>4 DEF Places
  <2>2. \A i : Waiting(ring, i) = 0 /\ Heard(audio, i) = 0 /\ Cardinality(Holding(held, i)) = 0
    BY <2>1, FS_EmptySet DEF Waiting, Heard
  <2>3. \A i : Own(writer, i) = 0 /\ Own(speaker, i) = 0
    BY DEF Init, Own
  <2> QED BY <2>2, <2>3 DEF Init, Exact, ExactSound
<1>4. HoldsCounted
  BY <1>1, <1>3, CountedIsExact DEF Init
<1>5. TypeOK
  BY <1>1 DEF Init, Shapes, TypeOK
<1> QED BY <1>2, <1>4, <1>5 DEF SeatsInv

(* The type invariant gives the shapes that the lemmas about the roster ask for. *)
LEMMA TypesAreShapes ==
  ASSUME TypeOK
  PROVE  Shapes
BY DEF TypeOK, Shapes

(* A ring that has had two consumers has had them for ever after, and a    *)
(* guest that inherited something has inherited it for ever after.         *)
LEMMA NextHistory ==
  ASSUME inherited \in SUBSET Guests, contended \in BOOLEAN, [Next]_vars
  PROVE  /\ inherited' \in SUBSET Guests /\ contended' \in BOOLEAN
         /\ contended => contended'
         /\ inherited \subseteq inherited'
<1>1. CASE UNCHANGED historyVars
  BY <1>1 DEF historyVars
<1>2. ASSUME NEW g \in Guests, NEW s \in Seats, Claim(g, s)
      PROVE  UNCHANGED contended /\ inherited' \in SUBSET Guests /\ inherited \subseteq inherited'
  BY <1>2 DEF Claim
<1>3. ASSUME NEW g \in Guests, ArrivalContended(g)
      PROVE  contended' = TRUE /\ inherited' = inherited
  BY <1>3 DEF ArrivalContended
<1>4. CASE GuestStep
  <2> PICK g \in Guests : \/ \E s \in Seats : Claim(g, s)
                          \/ Announce(g)
                          \/ NextFrame(g) \/ DropFrame(g) \/ NextAudio(g) \/ Leave(g)
    BY <1>4 DEF GuestStep
  <2>1. CASE Announce(g) \/ NextFrame(g) \/ DropFrame(g) \/ NextAudio(g) \/ Leave(g)
    BY <1>1, <2>1 DEF Announce, NextFrame, DropFrame, NextAudio, Leave
  <2> QED BY <1>2, <2>1
<1>5. CASE LoopStep
  <2>1. CASE \E g \in Guests : ArrivalContended(g)
    BY <1>3, <2>1
  <2>2. CASE ~(\E g \in Guests : ArrivalContended(g))
    BY <1>1, <1>5, <2>2 DEF LoopStep, Wait, Build, Failed, Rebuild, Arrival, Admit, Retire, Pass, Withhold,
                            Publish, Push, Published
  <2> QED BY <2>1, <2>2
<1>6. CASE SoundStep
  BY <1>1, <1>6 DEF SoundStep, PublishAudio, PushAudio, AudioPublished
<1>7. CASE UNCHANGED vars
  BY <1>1, <1>7 DEF vars
<1> QED BY <1>4, <1>5, <1>6, <1>7 DEF Next

(* Every step keeps the invariant. *)
LEMMA NextSeatsInv == SeatsInv /\ [Next]_vars => SeatsInv'
<1> SUFFICES ASSUME SeatsInv, [Next]_vars PROVE SeatsInv'
  OBVIOUS
<1>1. Shapes /\ Threads /\ Once
  BY TypesAreShapes DEF SeatsInv
<1>2. Shapes' /\ Threads' /\ Once'
  BY <1>1, NextShapes, NextThreads, NextOnce
<1>3. inherited' \in SUBSET Guests /\ contended' \in BOOLEAN /\ (contended => contended')
  BY NextHistory DEF SeatsInv, TypeOK
<1>4. TypeOK'
  BY <1>2, <1>3 DEF Shapes, TypeOK
<1>5. HoldsCounted' /\ FramesIntact'
  <2>1. CASE contended'
    BY <2>1 DEF HoldsCounted, FramesIntact
  <2>2. CASE ~contended'
    <3>1. ~contended
      BY <1>3, <2>2
    <3>2. Exact(holders, ring, held, writer) /\ ExactSound(soundHolders, audio, speaker)
      BY <1>1, <3>1, CountedIsExact DEF SeatsInv
    <3>3. Intact
      BY <3>1 DEF SeatsInv, FramesIntact, Intact
    <3>4. Intact'
      BY <1>1, <2>2, <3>2, <3>3, NextIntact
    <3>5. Exact(holders', ring', held', writer') /\ ExactSound(soundHolders', audio', speaker')
      <4>1. CASE UNCHANGED vars
        <5>1. UNCHANGED <<holders, ring, held, writer, soundHolders, audio, speaker>>
          BY <4>1 DEF vars, guestVars, soundVars
        <5> QED BY <3>2, <5>1
      <4>2. CASE GuestStep
        BY <1>1, <3>2, <4>2, GuestExact
      <4>3. CASE LoopStep
        BY <1>1, <2>2, <3>2, <4>3, LoopExact
      <4>4. CASE SoundStep
        BY <1>1, <3>2, <4>4, SoundExact
      <4> QED BY <4>1, <4>2, <4>3, <4>4 DEF Next
    <3>6. HoldsCounted'
      BY <1>2, <3>5, ExactIsCounted
    <3> QED BY <3>4, <3>6 DEF FramesIntact, Intact
  <2> QED BY <2>1, <2>2
<1> QED BY <1>2, <1>4, <1>5 DEF SeatsInv

(***************************************************************************)
(* The two pools, the rings and the threads that hold slots fit together   *)
(* in every reachable state, whatever guests leave and encoders end.       *)
(***************************************************************************)
THEOREM SeatsInvariance == Spec => []SeatsInv
BY InitSeatsInv, NextSeatsInv, PTL DEF Spec

(* No ring grows past its capacity, whoever pops it. *)
THEOREM TypeOKHolds == Spec => []TypeOK
<1>1. SeatsInv => TypeOK
  BY DEF SeatsInv
<1> QED BY <1>1, SeatsInvariance, PTL

(***************************************************************************)
(* Every hold on a slot of either pool comes back: Pool::release is called *)
(* once for each ring, guest and publishing thread that had the slot, as   *)
(* long as no ring has been popped by two threads at the same time.        *)
(***************************************************************************)
THEOREM HoldsCountedHolds == Spec => []HoldsCounted
<1>1. SeatsInv => HoldsCounted
  BY DEF SeatsInv
<1> QED BY <1>1, SeatsInvariance, PTL

(* No slot is written while a guest has its frame queued or in its hands,  *)
(* with the same exception.                                                *)
THEOREM FramesIntactHolds == Spec => []FramesIntact
<1>1. SeatsInv => FramesIntact
  BY DEF SeatsInv
<1> QED BY <1>1, SeatsInvariance, PTL

-----------------------------------------------------------------------------
(* What a seat's state says *)

(* The occupants of a seat change only with where guests are. *)
LEMMA SameOccupants ==
  ASSUME UNCHANGED <<at, stage>>, NEW s
  PROVE  Occupants(s)' = Occupants(s)
BY DEF Occupants

(* A guest that takes a free seat is its only occupant. *)
LEMMA ClaimOccupants ==
  ASSUME Shapes, Discipline, NEW g \in Guests, NEW s \in Seats, Claim(g, s)
  PROVE  /\ Occupants(s)' = {g}
         /\ \A t \in Seats \ {s} : Occupants(t)' = Occupants(t)
<1>1. /\ stage[g] = "out" /\ seat[s] = "Free"
      /\ \A h \in Guests : stage'[h] = IF h = g THEN "claiming" ELSE stage[h]
      /\ \A h \in Guests : at'[h] = IF h = g THEN s ELSE at[h]
  BY DEF Claim, Vacant, Shapes
<1>2. Occupants(s) = {}
  BY <1>1 DEF Discipline
<1> QED BY <1>1, <1>2 DEF Occupants

(* A guest that leaves is an occupant no more. *)
LEMMA LeaveOccupants ==
  ASSUME Shapes, NEW g \in Guests, Leave(g), NEW t
  PROVE  Occupants(t)' = Occupants(t) \ {g}
<1>1. \A h \in Guests : stage'[h] = IF h = g THEN "gone" ELSE stage[h]
  BY DEF Leave, Shapes
<1>2. at' = at
  BY DEF Leave
<1> QED BY <1>1, <1>2 DEF Occupants

(* A seat whose occupants stay gets no clean guest that it had not. *)
LEMMA CleanShrinks ==
  ASSUME inherited \subseteq inherited', NEW s, Occupants(s)' \subseteq Occupants(s)
  PROVE  Clean(s)' \subseteq Clean(s)
BY DEF Clean

(* The clean guests of a seat change only with where guests are. *)
LEMMA SameClean ==
  ASSUME UNCHANGED <<at, stage, inherited>>, NEW s
  PROVE  Clean(s)' = Clean(s)
BY SameOccupants DEF Clean

(***************************************************************************)
(* A step that moves no guest keeps the discipline if the seats with an    *)
(* occupant keep their state, a claimed one its empty ring, and the roster *)
(* and the joins get nothing that was not announced before.                *)
(***************************************************************************)
LEMMA DisciplineKept ==
  ASSUME Discipline, UNCHANGED <<at, stage, inherited>>,
         \A s \in Seats : Occupants(s) # {} => seat'[s] = seat[s],
         \A s \in Seats : Clean(s) # {} /\ seat[s] = "Claimed" /\ ring[s] = <<>> => ring'[s] = <<>>,
         \A e \in active' : \E d \in active : e.seat = d.seat /\ e.guest = d.guest,
         \A k \in DOMAIN joins' : \E l \in DOMAIN joins : joins'[k] = joins[l],
         \/ admitting' \in {admitting, None}
         \/ \E l \in DOMAIN joins : admitting' = joins[l],
         writer' # None => \A t \in writer'.todo : \E e \in active' : e.seat = t.seat /\ e.guest = t.guest
  PROVE  Discipline'
<1>1. \A s : Occupants(s)' = Occupants(s) /\ Clean(s)' = Clean(s)
  BY SameOccupants, SameClean
<1>2. \A s \in Seats : \A g, h \in Occupants(s)' : g = h
  BY <1>1 DEF Discipline
<1>3. \A s \in Seats : seat'[s] \in {"Free", "Leaving"} => Occupants(s)' = {}
  BY <1>1 DEF Discipline
<1>4. ASSUME NEW s \in Seats, NEW g \in Clean(s) PROVE Settled(s, g)'
  <2>1. Settled(s, g) /\ seat'[s] = seat[s] /\ g \in Occupants(s)
    BY DEF Discipline, Clean
  <2>2. seat'[s] = "Claimed" => ring'[s] = <<>>
    BY <2>1 DEF Settled
  <2>3. \A e \in active' : e.seat = s => e.guest = g /\ seat'[s] = "Streaming"
    BY <2>1 DEF Settled
  <2>4. \A k \in DOMAIN joins' : joins'[k].seat = s => joins'[k].guest = g /\ seat'[s] = "Claimed"
    BY <2>1 DEF Settled
  <2>5. admitting' # None /\ admitting'.seat = s => admitting'.guest = g /\ seat'[s] = "Claimed"
    BY <2>1 DEF Settled
  <2> QED BY <2>1, <2>2, <2>3, <2>4, <2>5 DEF Settled
<1> QED BY <1>1, <1>2, <1>3, <1>4 DEF Discipline

(* A guest that takes a seat keeps the discipline: it is settled from the  *)
(* start, or it has inherited something.                                   *)
LEMMA ClaimDiscipline ==
  ASSUME Shapes, Discipline, NEW g \in Guests, NEW s \in Seats, Claim(g, s)
  PROVE  Discipline'
<1>1. /\ Occupants(s)' = {g}
      /\ \A t \in Seats \ {s} : Occupants(t)' = Occupants(t)
  BY ClaimOccupants
<1>2. /\ seat[s] = "Free" /\ seat'[s] = "Claimed" /\ \A t \in Seats \ {s} : seat'[t] = seat[t]
      /\ UNCHANGED <<ring, joins, admitting, active, writer>>
      /\ inherited' = IF Traces(s) THEN inherited \cup {g} ELSE inherited
      /\ \A h \in Guests : h # g => stage'[h] = stage[h]
  BY DEF Claim, Vacant, Shapes
<1>3. \A t \in Seats : \A h, f \in Occupants(t)' : h = f
  BY <1>1 DEF Discipline
<1>4. \A t \in Seats : seat'[t] \in {"Free", "Leaving"} => Occupants(t)' = {}
  BY <1>1, <1>2 DEF Discipline
<1>5. ASSUME NEW t \in Seats, NEW h \in Clean(t)' PROVE Settled(t, h)'
  <2>1. CASE t = s
    <3>1. h = g /\ g \notin inherited'
      BY <1>1, <1>5, <2>1 DEF Clean
    <3>2. ~Traces(s)
      BY <1>2, <3>1
    <3> QED BY <1>2, <2>1, <3>2 DEF Settled, Traces
  <2>2. CASE t # s
    <3>1. h \in Clean(t) /\ h \in Guests /\ h # g
      <4>1. h \in Clean(t) /\ h \in Occupants(t)
        BY <1>1, <1>2, <1>5, <2>2 DEF Clean
      <4>2. stage[g] = "out"
        BY DEF Claim
      <4> QED BY <4>1, <4>2 DEF Occupants
    <3>2. Settled(t, h)
      BY <3>1 DEF Discipline
    <3> QED BY <1>2, <2>2, <3>1, <3>2 DEF Settled
  <2> QED BY <2>1, <2>2
<1>6. writer' # None => \A t \in writer'.todo : \E e \in active' : e.seat = t.seat /\ e.guest = t.guest
  BY <1>2 DEF Discipline
<1> QED BY <1>3, <1>4, <1>5, <1>6 DEF Discipline

(* An announcement keeps the discipline: the Join is of the guest that the *)
(* seat is claimed by.                                                     *)
LEMMA AnnounceDiscipline ==
  ASSUME Shapes, Threads, Discipline, NEW g \in Guests, Announce(g)
  PROVE  Discipline'
<1> DEFINE j == [seat |-> at[g], guest |-> g]
<1>1. /\ stage[g] = "claiming" /\ joins' = Append(joins, j) /\ UNCHANGED <<seat, at, ring, admitting, active, writer, inherited>>
      /\ \A h \in Guests : stage'[h] = IF h = g THEN "seated" ELSE stage[h]
  BY DEF Announce, Shapes, historyVars
<1>2. \A t : Occupants(t)' = Occupants(t)
  BY <1>1 DEF Occupants
<1>3. \A t : Clean(t)' = Clean(t)
  BY <1>1, <1>2 DEF Clean
<1>4. at[g] \in Seats /\ g \in Occupants(at[g])
  BY <1>1 DEF Threads, Occupants
<1>5. j.seat = at[g] /\ j.guest = g /\ joins \in Seq(Join)
  BY DEF Shapes
<1> HIDE DEF j
<1>6. \A k \in DOMAIN joins' : joins'[k] = j \/ (k \in DOMAIN joins /\ joins'[k] = joins[k])
  BY <1>1, <1>5
<1>7. ASSUME NEW t \in Seats, NEW h \in Clean(t) PROVE Settled(t, h)'
  <2>1. Settled(t, h) /\ h \in Occupants(t) /\ h \in Guests
    BY DEF Discipline, Clean, Occupants
  <2>2. stage'[h] = "claiming" => seat[t] = "Claimed"
    BY <1>1, <2>1 DEF Settled
  <2>3. t = at[g] => h = g /\ seat[t] = "Claimed"
    <3>1. t = at[g] => h = g
      BY <1>4, <2>1 DEF Discipline
    <3> QED BY <1>1, <2>1, <3>1 DEF Settled
  <2>4. \A k \in DOMAIN joins' : joins'[k].seat = t => joins'[k].guest = h /\ seat[t] = "Claimed"
    <3> SUFFICES ASSUME NEW k \in DOMAIN joins', joins'[k].seat = t
                 PROVE  joins'[k].guest = h /\ seat[t] = "Claimed"
      OBVIOUS
    <3>1. CASE joins'[k] = j
      BY <1>5, <2>3, <3>1
    <3>2. CASE k \in DOMAIN joins /\ joins'[k] = joins[k]
      BY <2>1, <3>2 DEF Settled
    <3> QED BY <1>6, <3>1, <3>2
  <2> QED BY <1>1, <2>1, <2>2, <2>4 DEF Settled
<1> QED BY <1>1, <1>2, <1>3, <1>7 DEF Discipline

(* A guest that leaves keeps the discipline: its seat has no guest. *)
LEMMA LeaveDiscipline ==
  ASSUME Shapes, Threads, Discipline, NEW g \in Guests, Leave(g)
  PROVE  Discipline'
<1> PICK s \in Seats : s = at[g]
  BY DEF Leave, Threads
<1>1. /\ seat'[s] = "Leaving" /\ g \in Occupants(s)
      /\ \A t \in Seats \ {s} : seat'[t] = seat[t]
      /\ \A h \in Guests : h # g => stage'[h] = stage[h]
      /\ UNCHANGED <<ring, joins, admitting, active, writer, inherited>>
  BY DEF Leave, Shapes, Occupants, historyVars
<1>2. \A t : Occupants(t)' = Occupants(t) \ {g}
  BY LeaveOccupants
<1>3. Occupants(s)' = {}
  BY <1>1, <1>2 DEF Discipline
<1>4. \A t \in Seats : \A h, f \in Occupants(t)' : h = f
  BY <1>2 DEF Discipline
<1>5. \A t \in Seats : seat'[t] \in {"Free", "Leaving"} => Occupants(t)' = {}
  BY <1>1, <1>2, <1>3 DEF Discipline
<1>6. ASSUME NEW t \in Seats, NEW h \in Clean(t)' PROVE Settled(t, h)'
  <2>1. h \in Occupants(t)' /\ t # s
    BY <1>3, <1>6 DEF Clean
  <2>2. h \in Clean(t) /\ h # g /\ h \in Guests
    BY <1>1, <1>2, <1>6, <2>1 DEF Clean, Occupants
  <2>3. Settled(t, h)
    BY <2>2 DEF Discipline
  <2> QED BY <1>1, <2>1, <2>2, <2>3 DEF Settled
<1>7. writer' # None => \A t \in writer'.todo : \E e \in active' : e.seat = t.seat /\ e.guest = t.guest
  BY <1>1 DEF Discipline
<1> QED BY <1>4, <1>5, <1>6, <1>7 DEF Discipline

(* A step of a guest keeps the discipline. *)
LEMMA GuestDiscipline ==
  ASSUME Shapes, Threads, Once, Discipline, GuestStep
  PROVE  Discipline'
<1> PICK g \in Guests : \/ \E s \in Seats : Claim(g, s)
                        \/ Announce(g)
                        \/ NextFrame(g) \/ DropFrame(g) \/ NextAudio(g) \/ Leave(g)
  BY DEF GuestStep
<1>1. CASE NextFrame(g) \/ DropFrame(g) \/ NextAudio(g)
  <2>1. UNCHANGED <<seat, stage, at, joins, admitting, active, writer, inherited>>
    BY <1>1 DEF NextFrame, DropFrame, NextAudio, guestVars, historyVars
  <2>2. \A s \in Seats : ring[s] = <<>> => ring'[s] = <<>>
    BY <1>1 DEF NextFrame, DropFrame, NextAudio, Shapes
  <2>3. writer # None => \A t \in writer.todo : \E e \in active : e.seat = t.seat /\ e.guest = t.guest
    BY DEF Discipline
  <2> QED BY <2>1, <2>2, <2>3, DisciplineKept
<1> QED BY <1>1, ClaimDiscipline, AnnounceDiscipline, LeaveDiscipline

(* The state is stored and the guest enters the roster. *)
LEMMA AdmitDiscipline ==
  ASSUME Shapes, Threads, Once, Discipline, Admit
  PROVE  Discipline'
<1> PICK s \in Seats : s = admitting.seat
  BY DEF Admit, Threads, Shapes, Join
<1> PICK n : n = [seat |-> admitting.seat, guest |-> admitting.guest, pending |-> TRUE]
  OBVIOUS
<1>1. admitting # None /\ writer = None
  BY DEF Admit, Threads
<1>2. /\ seat'[s] = "Streaming" /\ \A t \in Seats \ {s} : seat'[t] = seat[t]
      /\ active' = active \cup {n} /\ n.seat = s /\ n.guest = admitting.guest
      /\ admitting' = None /\ UNCHANGED <<ring, stage, at, joins, writer, inherited>>
  BY DEF Admit, Shapes, guestVars, historyVars
<1>3. \A t : Occupants(t)' = Occupants(t) /\ Clean(t)' = Clean(t)
  BY <1>2, SameOccupants, SameClean
<1>4. \A t \in Seats : seat'[t] \in {"Free", "Leaving"} => Occupants(t) = {}
  BY <1>2 DEF Discipline
<1>5. ASSUME NEW t \in Seats, NEW g \in Clean(t) PROVE Settled(t, g)'
  <2>1. Settled(t, g)
    BY DEF Discipline
  <2>2. CASE t = s
    <3>1. admitting.guest = g /\ seat[s] = "Claimed"
      BY <1>1, <2>1, <2>2 DEF Settled
    <3>2. stage[g] # "claiming"
      BY <1>1, <3>1 DEF Once, Announced
    <3>3. \A e \in active' : e.seat = s => e.guest = g
      BY <1>2, <2>1, <2>2, <3>1 DEF Settled
    <3>4. \A k \in DOMAIN joins : joins[k].seat # s
      BY <1>1, <2>1, <2>2, <3>1 DEF Settled, Once
    <3> QED BY <1>2, <2>2, <3>2, <3>3, <3>4 DEF Settled
  <2>3. CASE t # s
    BY <1>2, <2>1, <2>3 DEF Settled
  <2> QED BY <2>2, <2>3
<1>6. \A t \in Seats : \A g, h \in Occupants(t) : g = h
  BY DEF Discipline
<1> QED BY <1>1, <1>2, <1>3, <1>4, <1>5, <1>6 DEF Discipline

(* A seat that is being left has no guest, nor has one that was freed. *)
LEMMA LeavingIsLeft ==
  ASSUME Discipline, NEW s \in Leaving
  PROVE  s \in Seats /\ Occupants(s) = {} /\ Clean(s) = {}
BY DEF Leaving, Discipline, Clean

(* The Join that is taken, and those that stay; if its seat is not Claimed *)
(* the seat's guest, beside which it releases, inherited something.        *)
LEMMA JoinTaken ==
  ASSUME Shapes, Discipline, joins # <<>>, NEW rest, rest = Tail(joins)
  PROVE  /\ 1 \in DOMAIN joins /\ Head(joins) = joins[1] /\ Head(joins).seat \in Seats
         /\ \A k \in DOMAIN rest : \E l \in DOMAIN joins : rest[k] = joins[l]
         /\ seat[Head(joins).seat] # "Claimed" => Clean(Head(joins).seat) = {}
<1>1. joins \in Seq(Join)
  BY DEF Shapes
<1>2. 1 \in DOMAIN joins /\ Head(joins) = joins[1] /\ Head(joins) \in Join
  BY <1>1
<1>3. \A k \in DOMAIN rest : k + 1 \in DOMAIN joins /\ rest[k] = joins[k + 1]
  BY <1>1
<1>4. Head(joins).seat \in Seats
  BY <1>2 DEF Join
<1>5. seat[Head(joins).seat] # "Claimed" => Clean(Head(joins).seat) = {}
  <2> SUFFICES ASSUME seat[Head(joins).seat] # "Claimed", NEW g \in Clean(Head(joins).seat) PROVE FALSE
    OBVIOUS
  <2>1. Settled(Head(joins).seat, g)
    BY <1>4 DEF Discipline
  <2> QED BY <1>2, <2>1 DEF Settled
<1> QED BY <1>2, <1>3, <1>4, <1>5

(* A step of the loop keeps the discipline. *)
LEMMA LoopDiscipline ==
  ASSUME Shapes, Threads, Once, Discipline, LoopStep
  PROVE  Discipline'
<1>0. writer # None => \A t \in writer.todo : \E e \in active : e.seat = t.seat /\ e.guest = t.guest
  BY DEF Discipline
<1>1. CASE Wait
  <2>1. /\ \A s \in Seats : seat'[s] = IF s \in Leaving THEN "Free" ELSE seat[s]
        /\ \A s \in Seats : ring'[s] = IF s \in Leaving THEN <<>> ELSE ring[s]
        /\ UNCHANGED <<stage, at, joins, admitting, active, writer, inherited>>
    BY <1>1 DEF Wait, Freed, Release, guestVars, historyVars
  <2>2. \A s \in Seats : Occupants(s) # {} => seat'[s] = seat[s]
    BY <2>1, LeavingIsLeft
  <2>3. \A s \in Seats : ring[s] = <<>> => ring'[s] = <<>>
    BY <2>1
  <2> QED BY <1>0, <2>1, <2>2, <2>3, DisciplineKept
<1>2. CASE Build \/ Pass
  <2>1. UNCHANGED <<seat, ring, stage, at, joins, admitting, active, writer, inherited>>
    BY <1>2 DEF Build, Pass, guestVars, historyVars
  <2> QED BY <1>0, <2>1, DisciplineKept
<1>3. CASE Failed
  <2>1. /\ UNCHANGED <<seat, ring, stage, at, joins, admitting, writer, inherited>> /\ active' \in {active, {}}
        /\ loop \in {"building", "pass"}
    BY <1>3 DEF Failed, Shapes, guestVars, historyVars
  <2>2. writer = None
    BY <2>1 DEF Threads
  <2>3. \A e \in active' : \E d \in active : e.seat = d.seat /\ e.guest = d.guest
    BY <2>1
  <2> QED BY <2>1, <2>2, <2>3, DisciplineKept
<1>4. ASSUME NEW exit \in {"Reconfigure", "Rediscover"}, Rebuild(exit) PROVE Discipline'
  <2>1. UNCHANGED <<seat, ring, stage, at, joins, admitting, writer, inherited>> /\ loop = "pass"
    BY <1>4 DEF Rebuild, guestVars, historyVars
  <2>2. SameRoster(active')
    BY <1>4, LatchedIsRegated, RegatedRoster DEF Rebuild
  <2>3. writer = None
    BY <2>1 DEF Threads
  <2> QED BY <2>1, <2>2, <2>3, DisciplineKept DEF SameRoster
<1>5. CASE Arrival
  <2>1. /\ joins # <<>> /\ joins' = Tail(joins) /\ admitting' \in {admitting, Head(joins)}
        /\ UNCHANGED <<seat, stage, at, active, writer, inherited>>
    BY <1>5 DEF Arrival, guestVars, historyVars
  <2>2. \A s \in Seats : ring[s] = <<>> => ring'[s] = <<>>
    BY <1>5 DEF Arrival, Release
  <2>3. /\ 1 \in DOMAIN joins /\ Head(joins) = joins[1]
        /\ \A k \in DOMAIN joins' : \E l \in DOMAIN joins : joins'[k] = joins[l]
    BY <2>1, JoinTaken
  <2>4. \/ admitting' \in {admitting, None}
        \/ \E l \in DOMAIN joins : admitting' = joins[l]
    BY <2>1, <2>3
  <2> QED BY <1>0, <2>1, <2>2, <2>3, <2>4, DisciplineKept
<1>6. ASSUME NEW g \in Guests, ArrivalContended(g) PROVE Discipline'
  <2> PICK s \in Seats : s = at[g]
    BY <1>6 DEF ArrivalContended, Threads
  <2>1. /\ joins # <<>> /\ joins' = Tail(joins) /\ seat[s] # "Claimed"
        /\ UNCHANGED <<seat, stage, at, admitting, active, writer, inherited>>
    BY <1>6 DEF ArrivalContended
  <2>2. \A t \in Seats : t # s => ring'[t] = ring[t]
    BY <1>6 DEF ArrivalContended, TakesBeside, HearsBeside, Shapes
  <2>3. \A k \in DOMAIN joins' : \E l \in DOMAIN joins : joins'[k] = joins[l]
    BY <2>1, JoinTaken
  <2>4. \A t \in Seats : Clean(t) # {} /\ seat[t] = "Claimed" /\ ring[t] = <<>> => ring'[t] = <<>>
    BY <2>1, <2>2
  <2> QED BY <1>0, <2>1, <2>3, <2>4, DisciplineKept
<1>7. CASE Retire
  <2>1. /\ \A s \in Seats : seat'[s] = IF s \in Left THEN "Free" ELSE seat[s]
        /\ \A s \in Seats : ring'[s] = IF s \in Left THEN <<>> ELSE ring[s]
        /\ UNCHANGED <<stage, at, joins, admitting, writer, inherited>> /\ active' \in SUBSET active /\ loop = "encoding"
    BY <1>7 DEF Retire, Remaining, Freed, Release, guestVars, historyVars
  <2>2. \A s \in Seats : Occupants(s) # {} => seat'[s] = seat[s]
    BY <2>1, LeavingIsLeft DEF Left
  <2>3. \A s \in Seats : ring[s] = <<>> => ring'[s] = <<>>
    BY <2>1
  <2>4. writer = None
    BY <2>1 DEF Threads
  <2> QED BY <2>1, <2>2, <2>3, <2>4, DisciplineKept
<1>8. ASSUME NEW key \in BOOLEAN, Withhold(key) PROVE Discipline'
  <2>1. SameRoster(active')
    BY <1>8, LatchedIsRegated, RegatedRoster DEF Withhold
  <2>2. UNCHANGED <<seat, stage, at, ring, joins, admitting, writer, inherited>> /\ loop = "pass"
    BY <1>8 DEF Withhold, Encoded, guestVars, historyVars
  <2>3. writer = None
    BY <2>2 DEF Threads
  <2> QED BY <2>1, <2>2, <2>3, DisciplineKept DEF SameRoster
<1>9. ASSUME NEW key \in BOOLEAN, NEW room \in SUBSET active, NEW slot \in Slots, Publish(key, room, slot)
      PROVE  Discipline'
  <2>1. PublishSets(key, room, slot)
    BY <1>9, Publishing
  <2>2. SameRoster(active')
    BY <2>1, RegatedRoster DEF PublishSets
  <2>3. UNCHANGED <<seat, stage, at, ring, joins, admitting, inherited>>
    BY <1>9 DEF Publish, guestVars, historyVars
  <2>4. \A t \in writer'.todo : \E e \in active : e.seat = t.seat /\ e.guest = t.guest
    <3>1. Admitted(key, room) \in SUBSET active
      BY DEF Admitted
    <3> QED BY <2>1, <3>1 DEF PublishSets
  <2>5. \A t \in writer'.todo : \E e \in active' : e.seat = t.seat /\ e.guest = t.guest
    BY <2>2, <2>4 DEF SameRoster
  <2> QED BY <2>2, <2>3, <2>5, DisciplineKept DEF SameRoster
<1>10. ASSUME writer # None, NEW target \in writer.todo, Push(target) PROVE Discipline'
  <2> PICK s \in Seats : s = target.seat
    BY <1>10 DEF Shapes, Publication, Join
  <2>1. /\ UNCHANGED <<seat, stage, at, joins, admitting, active, inherited>>
        /\ \A t \in Seats \ {s} : ring'[t] = ring[t]
    BY <1>10 DEF Push, Shapes, guestVars, historyVars
  <2>2. writer'.todo \subseteq writer.todo
    <3>1. writer \in Publication /\ target.guest \in Guests
      BY <1>10 DEF Shapes, Publication, Join
    <3>2. \/ writer' = [writer EXCEPT !.todo = @ \ {target}]
          \/ writer' = [writer EXCEPT !.todo = @ \ {target}, !.refused = @ \cup {target.guest}]
      BY <1>10 DEF Push
    <3> QED BY <3>1, <3>2 DEF Publication
  <2>3. PICK d \in active : d.seat = s
    BY <1>0, <1>10
  <2>4. Clean(s) # {} => seat[s] # "Claimed"
    BY <2>3 DEF Discipline, Settled
  <2>5. \A t \in Seats : Clean(t) # {} /\ seat[t] = "Claimed" /\ ring[t] = <<>> => ring'[t] = <<>>
    BY <2>1, <2>4
  <2>6. \A t \in writer'.todo : \E e \in active' : e.seat = t.seat /\ e.guest = t.guest
    BY <1>0, <1>10, <2>1, <2>2
  <2> QED BY <2>1, <2>5, <2>6, DisciplineKept
<1>11. CASE Published
  <2>1. SameRoster(active')
    BY <1>11, RefusedIsRegated, RegatedRoster DEF Published
  <2>2. UNCHANGED <<seat, stage, at, ring, joins, admitting, inherited>> /\ writer' = None
    BY <1>11 DEF Published, guestVars, historyVars
  <2> QED BY <2>1, <2>2, DisciplineKept DEF SameRoster
<1> QED BY <1>1, <1>2, <1>3, <1>4, <1>5, <1>6, <1>7, <1>8, <1>9, <1>10, <1>11, AdmitDiscipline DEF LoopStep

(* Every step keeps the discipline. *)
LEMMA NextDiscipline ==
  ASSUME Shapes, Threads, Once, Discipline, [Next]_vars
  PROVE  Discipline'
<1>1. CASE SoundStep \/ UNCHANGED vars
  <2>1. UNCHANGED <<seat, stage, at, ring, joins, admitting, active, writer, inherited>>
    BY <1>1 DEF SoundStep, PublishAudio, PushAudio, AudioPublished, vars, guestVars, historyVars
  <2>2. writer # None => \A t \in writer.todo : \E e \in active : e.seat = t.seat /\ e.guest = t.guest
    BY DEF Discipline
  <2> QED BY <2>1, <2>2, DisciplineKept
<1> QED BY <1>1, GuestDiscipline, LoopDiscipline DEF Next

-----------------------------------------------------------------------------
(* The chain of frames *)

AllChained == \A s \in Seats : \A g \in Clean(s) : Chained(ring[s], last[g], keys)

(* ChainUnbroken, said seat by seat. *)
LEMMA ChainedSeats == ChainUnbroken <=> AllChained
BY DEF ChainUnbroken, Unbroken, AllChained, Chained

(* A guest that takes the first frame takes the chain with it. *)
LEMMA ChainPopped ==
  ASSUME NEW q \in Seq(Frame), q # <<>>, NEW taken, NEW ks, Chained(q, taken, ks)
  PROVE  /\ Chained(Tail(q), Head(q).frame, ks)
         /\ NewestOf(Tail(q), Head(q).frame) = NewestOf(q, taken)
<1>1. /\ Len(q) \in Nat \ {0} /\ DOMAIN q = 1 .. Len(q) /\ Head(q) = q[1]
      /\ Tail(q) \in Seq(Frame) /\ Len(Tail(q)) = Len(q) - 1 /\ DOMAIN Tail(q) = 1 .. Len(q) - 1
      /\ \A i \in 1 .. Len(q) - 1 : Tail(q)[i] = q[i + 1]
  OBVIOUS
<1> DEFINE r == Tail(q)
<1>2. ASSUME NEW i \in DOMAIN r
      PROVE  LET before == IF i = 1 THEN Head(q).frame ELSE r[i - 1].frame
             IN  r[i].frame \in ks \/ (before > 0 /\ r[i].frame = before + 1)
  <2>1. i \in 1 .. Len(q) - 1 /\ i + 1 \in DOMAIN q /\ i + 1 # 1 /\ (i + 1) - 1 = i /\ r[i] = q[i + 1]
    BY <1>1
  <2>2. q[i + 1].frame \in ks \/ (q[i].frame > 0 /\ q[i + 1].frame = q[i].frame + 1)
    BY <2>1 DEF Chained
  <2>3. i # 1 => i - 1 \in 1 .. Len(q) - 1 /\ r[i - 1] = q[i]
    BY <1>1, <2>1
  <2> HIDE DEF r
  <2> QED BY <1>1, <2>1, <2>2, <2>3
<1>3. Chained(r, Head(q).frame, ks)
  BY <1>2 DEF Chained
<1>4. NewestOf(r, Head(q).frame) = NewestOf(q, taken)
  <2>1. CASE r = <<>>
    <3>1. Len(q) = 1
      <4>1. Len(r) = Len(q) - 1 /\ Len(q) \in Nat
        BY <1>1
      <4> HIDE DEF r
      <4>2. Len(<<>>) = 0
        OBVIOUS
      <4>3. Len(r) = 0
        BY <2>1, <4>2, Zenon
      <4> QED BY <4>1, <4>3
    <3> QED BY <1>1, <2>1, <3>1 DEF NewestOf
  <2>2. CASE r # <<>>
    <3>1. Len(r) \in 1 .. Len(q) - 1 /\ Len(r) + 1 = Len(q)
      BY <1>1, <2>2
    <3>2. r[Len(r)] = q[Len(q)]
      BY <1>1, <3>1
    <3> HIDE DEF r
    <3> QED BY <2>2, <3>2 DEF NewestOf
  <2> QED BY <2>1, <2>2
<1> QED BY <1>3, <1>4

(* A keyframe, or the frame after the newest, makes the chain longer. *)
LEMMA ChainPushed ==
  ASSUME NEW q \in Seq(Frame), NEW taken, NEW ks, Chained(q, taken, ks), NEW x \in Frame,
         x.frame \in ks \/ (NewestOf(q, taken) > 0 /\ x.frame = NewestOf(q, taken) + 1)
  PROVE  /\ Chained(Append(q, x), taken, ks)
         /\ NewestOf(Append(q, x), taken) = x.frame
<1> DEFINE r == Append(q, x)
<1>1. /\ Len(q) \in Nat /\ DOMAIN q = 1 .. Len(q) /\ r \in Seq(Frame) /\ DOMAIN r = 1 .. Len(q) + 1
      /\ Len(r) = Len(q) + 1 /\ r[Len(q) + 1] = x /\ (\A i \in 1 .. Len(q) : r[i] = q[i]) /\ r # <<>>
  OBVIOUS
<1> HIDE DEF r
<1>2. ASSUME NEW i \in DOMAIN r
      PROVE  LET before == IF i = 1 THEN taken ELSE r[i - 1].frame
             IN  r[i].frame \in ks \/ (before > 0 /\ r[i].frame = before + 1)
  <2>1. i # 1 => i - 1 \in 1 .. Len(q) /\ r[i - 1] = q[i - 1]
    BY <1>1
  <2>2. CASE i \in DOMAIN q
    <3>1. r[i] = q[i]
      BY <1>1, <2>2
    <3> QED BY <2>1, <2>2, <3>1 DEF Chained
  <2>3. CASE i = Len(q) + 1
    <3>1. r[i] = x
      BY <1>1, <2>3
    <3>2. (IF i = 1 THEN taken ELSE r[i - 1].frame) = NewestOf(q, taken)
      <4>1. CASE q = <<>>
        BY <1>1, <2>3, <4>1 DEF NewestOf
      <4>2. CASE q # <<>>
        <5>1. i # 1 /\ i - 1 = Len(q)
          BY <1>1, <2>3, <4>2
        <5> QED BY <2>1, <4>2, <5>1 DEF NewestOf
      <4> QED BY <4>1, <4>2
    <3> QED BY <3>1, <3>2
  <2> QED BY <1>1, <2>2, <2>3
<1>3. Chained(r, taken, ks)
  BY <1>2 DEF Chained
<1>4. NewestOf(r, taken) = x.frame
  BY <1>1 DEF NewestOf
<1> QED BY <1>3, <1>4 DEF r

(* More keyframes break no chain. *)
LEMMA ChainMonotone ==
  ASSUME NEW q, NEW taken, NEW ks, NEW more, ks \subseteq more, Chained(q, taken, ks)
  PROVE  Chained(q, taken, more)
BY DEF Chained

(***************************************************************************)
(* A step that encodes and pushes nothing keeps every chain: a seat gets a *)
(* clean guest only while nothing is queued to it and it has no entry, and *)
(* while it has one, neither its queue nor what its guest took changes;    *)
(* the entries that are new are latched.                                   *)
(***************************************************************************)
LEMMA ChainKept ==
  ASSUME Shapes, Discipline, Latch, ChainUnbroken, UNCHANGED <<keys, frames, writer>>,
         \A e \in active' : e \in active \/ e.pending,
         \A s \in Seats : \/ Clean(s)' = {}
                          \/ /\ Clean(s)' \subseteq Clean(s) /\ ring'[s] = ring[s]
                             /\ \A g \in Clean(s) : last'[g] = last[g]
                          \/ ring'[s] = <<>> /\ \A e \in active : e.seat # s
  PROVE  Latch' /\ ChainUnbroken'
<1>1. AllChained'
  <2> SUFFICES ASSUME NEW s \in Seats, NEW g \in Clean(s)' PROVE Chained(ring'[s], last'[g], keys')
    BY DEF AllChained
  <2>1. CASE /\ Clean(s)' \subseteq Clean(s) /\ ring'[s] = ring[s]
             /\ \A h \in Clean(s) : last'[h] = last[h]
    BY <2>1, ChainedSeats DEF AllChained
  <2>2. CASE ring'[s] = <<>>
    BY <2>2 DEF Chained
  <2> QED BY <2>1, <2>2
<1>2. ChainUnbroken'
  BY <1>1, ChainedSeats, PTL
<1>3. ASSUME NEW s \in Seats, NEW g \in Clean(s)', NEW e \in active, e.seat = s
      PROVE  g \in Clean(s) /\ Newest(s, g)' = Newest(s, g)
  BY <1>3 DEF Newest
<1>4. \A e \in active : e.seat \in Seats /\ e.guest \in Guests
  BY DEF Shapes, Active
<1>5. writer' # None => writer'.frame = frames' /\ (\A t \in writer.todo : Linked(t))'
  <2>0. writer # None => writer.frame = frames
    BY DEF Latch
  <2> SUFFICES ASSUME writer # None, NEW t \in writer.todo PROVE Linked(t)'
    BY <2>0
  <2>1. PICK e \in active : e.seat = t.seat /\ e.guest = t.guest
    BY DEF Discipline
  <2>2. t.guest \in Clean(t.seat)' => t.guest \in Clean(t.seat) /\ Newest(t.seat, t.guest)' = Newest(t.seat, t.guest)
    BY <1>3, <1>4, <2>1
  <2> QED BY <2>2 DEF Latch, Linked
<1>6. ASSUME NEW e \in active', ~e.pending
      PROVE  \/ writer' # None /\ e.guest \in writer'.refused
             \/ writer' # None /\ [seat |-> e.seat, guest |-> e.guest] \in writer'.todo
             \/ e.guest \in Clean(e.seat)' =>
                   Newest(e.seat, e.guest)' > 0 /\ Newest(e.seat, e.guest)' = frames'
  <2>1. e \in active
    BY <1>6
  <2>2. e.guest \in Clean(e.seat)' => e.guest \in Clean(e.seat) /\ Newest(e.seat, e.guest)' = Newest(e.seat, e.guest)
    BY <1>3, <1>4, <2>1
  <2> QED BY <1>6, <2>1, <2>2 DEF Latch
<1> QED BY <1>2, <1>5, <1>6 DEF Latch

(* A guest's step keeps its chain and everyone else's. *)
LEMMA GuestChain ==
  ASSUME Shapes, Threads, Once, Discipline, Latch, ChainUnbroken, GuestStep
  PROVE  Latch' /\ ChainUnbroken'
<1> PICK g \in Guests : \/ \E s \in Seats : Claim(g, s)
                        \/ Announce(g)
                        \/ NextFrame(g) \/ DropFrame(g) \/ NextAudio(g) \/ Leave(g)
  BY DEF GuestStep
<1>1. ASSUME NEW s \in Seats, Claim(g, s) PROVE Latch' /\ ChainUnbroken'
  <2>1. /\ UNCHANGED <<last, keys, frames, writer, active, ring>>
        /\ inherited' = IF Traces(s) THEN inherited \cup {g} ELSE inherited
    BY <1>1 DEF Claim, encoderVars
  <2>2. /\ Occupants(s)' = {g}
        /\ \A t \in Seats \ {s} : Occupants(t)' = Occupants(t)
    BY <1>1, ClaimOccupants
  <2>3. Clean(s)' = {} \/ (ring'[s] = <<>> /\ \A e \in active : e.seat # s)
    BY <2>1, <2>2 DEF Clean, Traces
  <2>4. \A t \in Seats \ {s} : Clean(t)' \subseteq Clean(t)
    BY <2>1, <2>2, CleanShrinks
  <2>5. \A e \in active' : e \in active \/ e.pending
    BY <2>1
  <2> QED BY <2>1, <2>3, <2>4, <2>5, ChainKept
<1>2. CASE Announce(g) \/ DropFrame(g) \/ NextAudio(g) \/ Leave(g)
  <2>1. UNCHANGED <<last, keys, frames, writer, active, ring, inherited>>
    BY <1>2 DEF Announce, DropFrame, NextAudio, Leave, guestVars, encoderVars, historyVars
  <2>2. at' = at /\ \A h \in Guests : stage'[h] \in {"claiming", "seated"} => stage[h] \in {"claiming", "seated"}
    BY <1>2 DEF Announce, DropFrame, NextAudio, Leave, guestVars, Shapes
  <2>3. \A t \in Seats : Clean(t)' \subseteq Clean(t) /\ ring'[t] = ring[t]
    BY <2>1, <2>2 DEF Occupants, Clean
  <2>4. \A e \in active' : e \in active \/ e.pending
    BY <2>1
  <2> QED BY <2>1, <2>3, <2>4, ChainKept
<1>3. CASE NextFrame(g)
  <2> PICK s \in Seats : s = at[g]
    BY <1>3 DEF NextFrame, Threads
  <2> DEFINE q == ring[s]
  <2>1. q \in Seq(Frame) /\ q # <<>> /\ g \in Occupants(s)
    BY <1>3 DEF NextFrame, Shapes, Occupants
  <2>2. /\ last'[g] = Head(q).frame /\ \A h \in Guests : h # g => last'[h] = last[h]
        /\ ring'[s] = Tail(q) /\ \A t \in Seats : t # s => ring'[t] = ring[t]
        /\ UNCHANGED <<at, stage, inherited, keys, frames, writer, active>>
    BY <1>3 DEF NextFrame, Shapes, encoderVars, historyVars
  <2>3. \A t : Clean(t)' = Clean(t)
    BY <2>2, SameClean
  <2>4. g \in Clean(s) => Chained(q, last[g], keys)
    BY <2>1, ChainedSeats DEF AllChained
  <2>5. g \in Clean(s) =>
            Chained(Tail(q), Head(q).frame, keys) /\ NewestOf(Tail(q), Head(q).frame) = NewestOf(q, last[g])
    BY <2>1, <2>4, ChainPopped
  <2>6. ASSUME NEW t \in Seats, NEW h \in Clean(t)
        PROVE  Chained(ring'[t], last'[h], keys) /\ NewestOf(ring'[t], last'[h]) = NewestOf(ring[t], last[h])
    <3>1. h \in Guests /\ at[h] = t /\ h \in Occupants(t)
      BY DEF Occupants, Clean
    <3>2. CASE t = s
      <4>1. h = g
        BY <2>1, <3>1, <3>2 DEF Discipline
      <4> QED BY <2>2, <2>5, <3>2, <4>1
    <3>3. CASE t # s
      <4>1. h # g
        BY <3>1, <3>3
      <4>2. Chained(ring[t], last[h], keys)
        BY ChainedSeats DEF AllChained
      <4> QED BY <2>2, <3>1, <3>3, <4>1, <4>2
    <3> QED BY <3>2, <3>3
  <2>7. AllChained'
    BY <2>2, <2>3, <2>6 DEF AllChained
  <2>8. ChainUnbroken'
    BY <2>7, ChainedSeats, PTL
  <2>9. \A t \in Seats : \A h \in Clean(t) : Newest(t, h)' = Newest(t, h)
    BY <2>6 DEF Newest
  <2>10. \A e \in active : e.seat \in Seats
    BY DEF Shapes, Active
  <2>11. writer # None => \A t \in writer.todo : t.seat \in Seats
    BY DEF Shapes, Publication, Join
  <2>12. writer # None => \A t \in writer.todo : Linked(t)'
    BY <2>2, <2>3, <2>9, <2>11 DEF Latch, Linked
  <2>13. \A e \in active : ~e.pending =>
             \/ writer # None /\ e.guest \in writer.refused
             \/ writer # None /\ [seat |-> e.seat, guest |-> e.guest] \in writer.todo
             \/ e.guest \in Clean(e.seat)' => Newest(e.seat, e.guest)' > 0 /\ Newest(e.seat, e.guest)' = frames
    BY <2>3, <2>9, <2>10 DEF Latch
  <2>14. Latch'
    BY <2>2, <2>12, <2>13 DEF Latch
  <2> QED BY <2>8, <2>14
<1> QED BY <1>1, <1>2, <1>3

(* Frame by frame the keyframes only grow in number. *)
LEMMA EncodedFrames ==
  ASSUME Shapes, NEW key \in BOOLEAN, Encoded(key)
  PROVE  /\ frames' = frames + 1 /\ frames \in Nat /\ keys \subseteq keys' /\ (key => frames' \in keys')
         /\ loop = "pass"
BY DEF Encoded, Shapes

(* An entry with its latch set as gate says. *)
LEMMA RegatedEntry ==
  ASSUME Shapes, NEW gate \in [active -> BOOLEAN], NEW e \in Regated(gate)
  PROVE  \E d \in active : e.seat = d.seat /\ e.guest = d.guest /\ e.pending = gate[d]
<1>1. PICK d \in active : e = [d EXCEPT !.pending = gate[d]]
  BY DEF Regated
<1>2. d \in Active /\ gate[d] \in BOOLEAN
  BY DEF Shapes
<1>3. e.seat = d.seat /\ e.guest = d.guest /\ e.pending = gate[d]
  BY <1>1, <1>2, LatchKeeps
<1> QED BY <1>3

(* Latching shuts every gate. *)
LEMMA LatchedIsShut ==
  ASSUME Shapes
  PROVE  \A e \in Latched(active) : e.pending
<1> DEFINE gate == [d \in active |-> TRUE]
<1>1. gate \in [active -> BOOLEAN] /\ \A d \in active : gate[d] = TRUE
  OBVIOUS
<1>2. Latched(active) = Regated(gate)
  BY LatchedIsRegated
<1> HIDE DEF gate
<1> SUFFICES ASSUME NEW e \in Latched(active) PROVE e.pending
  OBVIOUS
<1>3. PICK d \in active : e.pending = gate[d]
  BY <1>1, <1>2, RegatedEntry
<1> QED BY <1>1, <1>3

(* Encoding a frame breaks no chain. *)
LEMMA EncodedChain ==
  ASSUME Shapes, ChainUnbroken, NEW key \in BOOLEAN, Encoded(key), UNCHANGED <<at, stage, inherited, ring, last>>
  PROVE  /\ ChainUnbroken'
         /\ \A s : Clean(s)' = Clean(s)
         /\ \A s, g : Newest(s, g)' = Newest(s, g)
<1>1. \A s : Clean(s)' = Clean(s)
  BY SameClean
<1>2. keys \subseteq keys'
  BY EncodedFrames
<1>3. AllChained'
  <2> SUFFICES ASSUME NEW s \in Seats, NEW g \in Clean(s) PROVE Chained(ring[s], last[g], keys')
    BY <1>1 DEF AllChained
  <2> QED BY <1>2, ChainedSeats, ChainMonotone DEF AllChained
<1>4. ChainUnbroken'
  BY <1>3, ChainedSeats, PTL
<1> QED BY <1>1, <1>4 DEF Newest

(* One push: the frame joins the chain of its guest, or its guest is told. *)
LEMMA PushChain ==
  ASSUME Shapes, Threads, Once, Discipline, Latch, ChainUnbroken,
         writer # None, NEW target \in writer.todo, Push(target)
  PROVE  Latch' /\ ChainUnbroken'
<1> PICK s \in Seats : s = target.seat
  BY DEF Shapes, Publication, Join
<1>0. writer \in Publication /\ target \in Join /\ target.guest \in Guests /\ \A t \in writer.todo : t \in Join
  BY DEF Shapes, Publication, Join
<1>1. UNCHANGED <<at, stage, inherited, last, keys, frames, active>>
  BY DEF Push, guestVars, encoderVars, historyVars
<1>2. \A t : Clean(t)' = Clean(t)
  BY <1>1, SameClean
<1>3. writer.frame = frames /\ frames > 0 /\ Linked(target)
  BY <1>0 DEF Latch, Publication
<1>4. PICK d \in active : d.seat = s /\ d.guest = target.guest
  BY DEF Discipline
<1>5. \A h \in Clean(s) : h = target.guest /\ \A e \in active : e.seat = s => e.guest = h
  BY <1>4 DEF Discipline, Settled
<1>6. \A e \in active : e.seat \in Seats
  BY DEF Shapes, Active
<1>7. \A t \in writer.todo : t.seat \in Seats /\ (t.seat = s => t = target \/ Clean(s) = {})
  <2> SUFFICES ASSUME NEW t \in writer.todo PROVE t.seat \in Seats /\ (t.seat = s => t = target \/ Clean(s) = {})
    OBVIOUS
  <2>1. PICK e \in active : e.seat = t.seat /\ e.guest = t.guest
    BY DEF Discipline
  <2>2. t.seat = s => t.guest = target.guest \/ Clean(s) = {}
    BY <1>5, <2>1
  <2> QED BY <1>0, <2>2 DEF Join
<1>8. CASE Fits(ring[s])
  <2> DEFINE x == [slot |-> writer.slot, frame |-> writer.frame]
             q == ring[s]
  <2>1. /\ ring'[s] = Append(q, x) /\ \A t \in Seats : t # s => ring'[t] = ring[t]
        /\ writer' = [writer EXCEPT !.todo = @ \ {target}]
    BY <1>8 DEF Push, Shapes
  <2>2. /\ writer' \in Publication /\ writer'.todo = writer.todo \ {target}
        /\ writer'.frame = writer.frame /\ writer'.refused = writer.refused
    BY <1>0, <2>1 DEF Publication
  <2>3. q \in Seq(Frame) /\ x \in Frame /\ x.frame = frames
    BY <1>0, <1>3 DEF Shapes, Publication, Frame
  <2> HIDE DEF x
  <2>4. ASSUME NEW h \in Clean(s)
        PROVE  Chained(ring'[s], last[h], keys) /\ NewestOf(ring'[s], last[h]) = frames
    <3>1. h = target.guest
      BY <1>5
    <3>2. Chained(q, last[h], keys)
      BY ChainedSeats DEF AllChained
    <3>3. x.frame \in keys \/ (NewestOf(q, last[h]) > 0 /\ x.frame = NewestOf(q, last[h]) + 1)
      BY <1>3, <2>3, <3>1 DEF Linked, Newest
    <3> HIDE DEF q
    <3>4. Chained(Append(q, x), last[h], keys) /\ NewestOf(Append(q, x), last[h]) = x.frame
      BY <2>3, <3>2, <3>3, ChainPushed
    <3> QED BY <2>1, <2>3, <3>4
  <2> HIDE DEF q
  <2>5. AllChained'
    <3> SUFFICES ASSUME NEW t \in Seats, NEW h \in Clean(t) PROVE Chained(ring'[t], last[h], keys)
      BY <1>1, <1>2 DEF AllChained
    <3>1. CASE t = s
      BY <2>4, <3>1
    <3>2. CASE t # s
      BY <2>1, <3>2, ChainedSeats DEF AllChained
    <3> QED BY <3>1, <3>2
  <2>6. ChainUnbroken'
    BY <2>5, ChainedSeats, PTL
  <2>7. \A t \in Seats : \A h : t # s => Newest(t, h)' = Newest(t, h)
    BY <1>1, <2>1 DEF Newest
  <2>8. \A h \in Clean(s) : Newest(s, h)' = frames
    BY <1>1, <2>4 DEF Newest
  <2>9. \A t \in writer'.todo : Linked(t)'
    <3> SUFFICES ASSUME NEW t \in writer.todo, t # target PROVE Linked(t)'
      BY <2>2
    <3>1. (t.seat # s \/ Clean(t.seat)' = {}) /\ t.seat \in Seats
      BY <1>2, <1>7
    <3> QED BY <1>1, <1>2, <2>7, <3>1 DEF Latch, Linked
  <2>10. ASSUME NEW e \in active, ~e.pending
         PROVE  \/ writer' # None /\ e.guest \in writer'.refused
                \/ writer' # None /\ [seat |-> e.seat, guest |-> e.guest] \in writer'.todo
                \/ e.guest \in Clean(e.seat)' => Newest(e.seat, e.guest)' > 0 /\ Newest(e.seat, e.guest)' = frames
    <3>1. CASE e.seat = s
      BY <1>2, <1>3, <2>8, <3>1
    <3>2. CASE e.seat # s
      <4>1. [seat |-> e.seat, guest |-> e.guest] # target
        BY <3>2
      <4>2. writer' # None
        BY <2>2, NoneAssumption
      <4> QED BY <1>2, <1>6, <2>2, <2>7, <2>10, <3>2, <4>1, <4>2 DEF Latch
    <3> QED BY <3>1, <3>2
  <2>11. Latch'
    BY <1>1, <1>3, <2>2, <2>9, <2>10 DEF Latch
  <2> QED BY <2>6, <2>11
<1>9. CASE ~Fits(ring[s])
  <2>1. ring' = ring /\ writer' = [writer EXCEPT !.todo = @ \ {target}, !.refused = @ \cup {target.guest}]
    BY <1>9 DEF Push
  <2>2. /\ writer' \in Publication /\ writer'.todo = writer.todo \ {target}
        /\ writer'.frame = writer.frame /\ writer'.refused = writer.refused \cup {target.guest}
    BY <1>0, <2>1 DEF Publication
  <2>3. writer' # None
    BY <2>2, NoneAssumption
  <2>4. \A t, h : Newest(t, h)' = Newest(t, h)
    BY <1>1, <2>1 DEF Newest
  <2>5. AllChained'
    BY <1>1, <1>2, <2>1, ChainedSeats DEF AllChained
  <2>6. ChainUnbroken'
    BY <2>5, ChainedSeats, PTL
  <2>7. \A t \in writer'.todo : Linked(t)'
    BY <1>1, <1>2, <2>2, <2>4 DEF Latch, Linked
  <2>8. ASSUME NEW e \in active, ~e.pending
        PROVE  \/ e.guest \in writer'.refused
               \/ [seat |-> e.seat, guest |-> e.guest] \in writer'.todo
               \/ e.guest \in Clean(e.seat)' => Newest(e.seat, e.guest)' > 0 /\ Newest(e.seat, e.guest)' = frames
    <3>1. [seat |-> e.seat, guest |-> e.guest] = target => e.guest = target.guest
      OBVIOUS
    <3> QED BY <1>2, <2>2, <2>4, <2>8, <3>1 DEF Latch
  <2>9. Latch'
    BY <1>1, <1>3, <2>2, <2>3, <2>7, <2>8 DEF Latch
  <2> QED BY <2>6, <2>9
<1> QED BY <1>8, <1>9

(* A step of the loop keeps every chain. *)
LEMMA LoopChain ==
  ASSUME Shapes, Threads, Once, Discipline, Latch, ChainUnbroken, LoopStep
  PROVE  Latch' /\ ChainUnbroken'
<1>1. ASSUME UNCHANGED <<at, stage, inherited, keys, frames, writer>>, \A e \in active' : e \in active \/ e.pending,
             \A s \in Seats : \/ Clean(s) = {}
                              \/ ring'[s] = ring[s] /\ \A g \in Clean(s) : last'[g] = last[g]
      PROVE  Latch' /\ ChainUnbroken'
  <2>1. \A s : Clean(s)' = Clean(s)
    BY <1>1, SameClean
  <2> QED BY <1>1, <2>1, ChainKept
<1>2. CASE Wait
  <2>1. /\ \A s \in Seats : ring'[s] = IF s \in Leaving THEN <<>> ELSE ring[s]
        /\ UNCHANGED <<at, stage, inherited, last, keys, frames, writer, active>>
    BY <1>2 DEF Wait, Release, guestVars, historyVars
  <2> QED BY <1>1, <2>1, LeavingIsLeft
<1>3. CASE Build \/ Pass
  <2>1. UNCHANGED <<at, stage, inherited, ring, last, keys, frames, writer, active>>
    BY <1>3 DEF Build, Pass, guestVars, encoderVars, historyVars
  <2> QED BY <1>1, <2>1
<1>4. CASE Failed
  <2>1. UNCHANGED <<at, stage, inherited, ring, last, keys, frames, writer>> /\ active' \in {active, {}}
    BY <1>4 DEF Failed, Shapes, guestVars, historyVars
  <2>2. \A e \in active' : e \in active \/ e.pending
    BY <2>1
  <2> QED BY <1>1, <2>1, <2>2
<1>5. ASSUME NEW exit \in {"Reconfigure", "Rediscover"}, Rebuild(exit) PROVE Latch' /\ ChainUnbroken'
  <2>1. UNCHANGED <<at, stage, inherited, ring, last, keys, frames, writer>> /\ active' = Latched(active)
    BY <1>5 DEF Rebuild, guestVars, historyVars
  <2>2. \A e \in active' : e.pending
    BY <2>1, LatchedIsShut
  <2> QED BY <1>1, <2>1, <2>2
<1>6. CASE Arrival
  <2>1. /\ joins # <<>> /\ UNCHANGED <<at, stage, inherited, last, keys, frames, writer, active>>
        /\ \A s \in Seats : \/ ring'[s] = ring[s]
                            \/ s = Head(joins).seat /\ seat[s] # "Claimed"
    BY <1>6 DEF Arrival, Release, guestVars, encoderVars, historyVars
  <2>2. \A s \in Seats : Clean(s) = {} \/ ring'[s] = ring[s]
    BY <2>1, JoinTaken
  <2> QED BY <1>1, <2>1, <2>2
<1>7. ASSUME NEW g \in Guests, ArrivalContended(g) PROVE Latch' /\ ChainUnbroken'
  <2> PICK s \in Seats : s = at[g]
    BY <1>7 DEF ArrivalContended, Threads
  <2>1. /\ joins # <<>> /\ s = Head(joins).seat /\ seat[s] # "Claimed"
        /\ UNCHANGED <<at, stage, inherited, keys, frames, writer, active>>
    BY <1>7 DEF ArrivalContended, encoderVars
  <2>2. /\ \A t \in Seats : t # s => ring'[t] = ring[t]
        /\ \A h \in Guests : h # g => last'[h] = last[h]
    BY <1>7 DEF ArrivalContended, TakesBeside, HearsBeside, Shapes
  <2>3. Clean(s) = {}
    BY <2>1, JoinTaken
  <2>4. \A t \in Seats : \A h \in Clean(t) : h \in Guests /\ at[h] = t
    BY DEF Clean, Occupants
  <2>5. \A t \in Seats : \/ Clean(t) = {}
                         \/ ring'[t] = ring[t] /\ \A h \in Clean(t) : last'[h] = last[h]
    BY <2>2, <2>3, <2>4
  <2> QED BY <1>1, <2>1, <2>5
<1>8. CASE Admit
  <2>1. UNCHANGED <<at, stage, inherited, ring, last, keys, frames, writer>>
    BY <1>8 DEF Admit, guestVars, encoderVars, historyVars
  <2>2. \A e \in active' : e \in active \/ e.pending
    BY <1>8 DEF Admit
  <2> QED BY <1>1, <2>1, <2>2
<1>9. CASE Retire
  <2>1. /\ \A s \in Seats : ring'[s] = IF s \in Left THEN <<>> ELSE ring[s]
        /\ UNCHANGED <<stage, at, inherited, last, keys, frames, writer>> /\ active' \in SUBSET active
    BY <1>9 DEF Retire, Remaining, Release, guestVars, encoderVars, historyVars
  <2>2. \A s \in Seats : Clean(s) = {} \/ ring'[s] = ring[s]
    BY <2>1, LeavingIsLeft DEF Left
  <2> QED BY <1>1, <2>1, <2>2
<1>10. ASSUME NEW key \in BOOLEAN, Withhold(key) PROVE Latch' /\ ChainUnbroken'
  <2>1. Encoded(key) /\ UNCHANGED <<at, stage, inherited, ring, last, writer>> /\ active' = Latched(active)
    BY <1>10 DEF Withhold, guestVars, historyVars
  <2>2. writer' = None
    BY <2>1, EncodedFrames DEF Threads
  <2>3. \A e \in active' : e.pending
    BY <2>1, LatchedIsShut
  <2>4. ChainUnbroken'
    BY <2>1, EncodedChain
  <2> QED BY <2>2, <2>3, <2>4 DEF Latch
<1>11. ASSUME NEW key \in BOOLEAN, NEW room \in SUBSET active, NEW slot \in Slots, Publish(key, room, slot)
      PROVE  Latch' /\ ChainUnbroken'
  <2> DEFINE taking == Admitted(key, room)
             gate == [d \in active |-> d \notin taking]
  <2>1. Encoded(key) /\ UNCHANGED <<at, stage, inherited, ring, last>>
    BY <1>11 DEF Publish, guestVars, historyVars
  <2>2. /\ ChainUnbroken'
        /\ \A s : Clean(s)' = Clean(s)
        /\ \A s, g : Newest(s, g)' = Newest(s, g)
    BY <2>1, EncodedChain
  <2>3. frames' = frames + 1 /\ frames \in Nat /\ keys \subseteq keys' /\ (key => frames' \in keys') /\ loop = "pass"
    BY <2>1, EncodedFrames
  <2>4. PublishSets(key, room, slot)
    BY <1>11, Publishing
  <2>5. /\ writer'.frame = frames + 1 /\ writer' # None /\ active' = Regated(gate)
        /\ writer'.todo = {[seat |-> e.seat, guest |-> e.guest] : e \in taking}
    BY <2>4, NoneAssumption DEF PublishSets
  <2>6. taking \in SUBSET active /\ \A e \in taking : key \/ ~e.pending
    BY DEF Admitted
  <2>7. writer = None
    BY <2>3 DEF Threads
  <2> HIDE DEF taking
  <2>8. \A t \in writer'.todo : Linked(t)'
    <3> SUFFICES ASSUME NEW t \in writer'.todo PROVE Linked(t)'
      OBVIOUS
    <3>1. PICK e \in taking : t = [seat |-> e.seat, guest |-> e.guest]
      BY <2>5
    <3>2. t.seat = e.seat /\ t.guest = e.guest
      BY <3>1
    <3>3. CASE key
      BY <2>3, <3>3 DEF Linked
    <3>4. CASE ~key
      <4>1. e.guest \in Clean(e.seat) => Newest(e.seat, e.guest) > 0 /\ Newest(e.seat, e.guest) = frames
        BY <2>6, <2>7, <3>4 DEF Latch
      <4> QED BY <2>2, <2>3, <3>2, <4>1 DEF Linked
    <3> QED BY <3>3, <3>4
  <2>9. ASSUME NEW e \in active', ~e.pending
        PROVE  [seat |-> e.seat, guest |-> e.guest] \in writer'.todo
    <3>1. gate \in [active -> BOOLEAN]
      OBVIOUS
    <3>2. PICK d \in active : e.seat = d.seat /\ e.guest = d.guest /\ e.pending = gate[d]
      BY <2>5, <3>1, RegatedEntry
    <3>3. d \in taking
      BY <2>9, <3>2
    <3> QED BY <2>5, <3>2, <3>3
  <2>10. Latch'
    BY <2>3, <2>5, <2>8, <2>9 DEF Latch
  <2> QED BY <2>2, <2>10
<1>12. ASSUME writer # None, NEW target \in writer.todo, Push(target) PROVE Latch' /\ ChainUnbroken'
  BY <1>12, PushChain
<1>13. CASE Published
  <2> DEFINE gate == [d \in active |-> d.pending \/ d \in Refused]
  <2>1. /\ UNCHANGED <<at, stage, inherited, ring, last, keys, frames>>
        /\ writer' = None /\ writer.todo = {} /\ writer # None
    BY <1>13 DEF Published, Threads, guestVars, encoderVars, historyVars
  <2>2. active' = Regated(gate)
    BY <1>13, RefusedIsRegated DEF Published
  <2>3. gate \in [active -> BOOLEAN]
    BY DEF Shapes, Active
  <2>4. \A s : Clean(s)' = Clean(s)
    BY <2>1, SameClean
  <2>5. \A s, g : Newest(s, g)' = Newest(s, g)
    BY <2>1 DEF Newest
  <2>6. ASSUME NEW e \in active', ~e.pending
        PROVE  e.guest \in Clean(e.seat)' => Newest(e.seat, e.guest)' > 0 /\ Newest(e.seat, e.guest)' = frames'
    <3>1. PICK d \in active : e.seat = d.seat /\ e.guest = d.guest /\ e.pending = gate[d]
      BY <2>2, <2>3, RegatedEntry
    <3>2. ~d.pending /\ d.guest \notin writer.refused
      BY <2>6, <3>1 DEF Refused
    <3>3. d.guest \in Clean(d.seat) => Newest(d.seat, d.guest) > 0 /\ Newest(d.seat, d.guest) = frames
      BY <2>1, <3>2 DEF Latch
    <3> QED BY <2>1, <2>4, <2>5, <3>1, <3>3
  <2>7. Latch'
    BY <2>1, <2>6 DEF Latch
  <2>8. AllChained'
    BY <2>1, <2>4, ChainedSeats DEF AllChained
  <2> QED BY <2>7, <2>8, ChainedSeats, PTL
<1> QED BY <1>2, <1>3, <1>4, <1>5, <1>6, <1>7, <1>8, <1>9, <1>10, <1>11, <1>12, <1>13 DEF LoopStep

(* Every step keeps every chain. *)
LEMMA NextChain ==
  ASSUME Shapes, Threads, Once, Discipline, Latch, ChainUnbroken, [Next]_vars
  PROVE  Latch' /\ ChainUnbroken'
<1>1. CASE SoundStep \/ UNCHANGED vars
  <2>1. UNCHANGED <<stage, at, inherited, ring, last, keys, frames, active, writer>>
    BY <1>1 DEF SoundStep, PublishAudio, PushAudio, AudioPublished, vars, guestVars, encoderVars, historyVars
  <2>2. \A s : Clean(s)' = Clean(s)
    BY <2>1, SameClean
  <2>3. \A e \in active' : e \in active \/ e.pending
    BY <2>1
  <2> QED BY <2>1, <2>2, <2>3, ChainKept
<1> QED BY <1>1, GuestChain, LoopChain DEF Next

(* The second inductive invariant holds before anything has happened. *)
LEMMA InitCleanInv == Init => CleanInv
<1> SUFFICES ASSUME Init PROVE CleanInv
  OBVIOUS
<1>1. \A s \in Seats : Occupants(s) = {} /\ Clean(s) = {}
  BY DEF Init, Occupants, Clean
<1>2. active = {} /\ writer = None
  BY DEF Init
<1>3. Discipline /\ Latch /\ ChainUnbroken
  BY <1>1, <1>2 DEF Discipline, Latch, ChainUnbroken
<1> QED BY <1>3, InitSeatsInv DEF CleanInv

(* Every step keeps the second inductive invariant. *)
LEMMA NextCleanInv == CleanInv /\ [Next]_vars => CleanInv'
<1> SUFFICES ASSUME CleanInv, [Next]_vars PROVE CleanInv'
  OBVIOUS
<1>1. Shapes /\ Threads /\ Once /\ Discipline /\ Latch /\ ChainUnbroken
  BY TypesAreShapes DEF CleanInv, SeatsInv
<1>2. SeatsInv'
  BY NextSeatsInv DEF CleanInv
<1>3. Discipline'
  BY <1>1, NextDiscipline
<1>4. Latch' /\ ChainUnbroken'
  BY <1>1, NextChain
<1> QED BY <1>2, <1>3, <1>4 DEF CleanInv

(***************************************************************************)
(* Whoever leaves early, whatever encoders fail or are rebuilt: a seat has *)
(* one guest at most, and for a guest that inherited nothing, the seat's   *)
(* state says where its Join and its entry are and what is queued, and the *)
(* gate's latch says whether it has every frame so far.                    *)
(***************************************************************************)
THEOREM CleanInvariance == Spec => []CleanInv
BY InitCleanInv, NextCleanInv, PTL DEF Spec

(***************************************************************************)
(* A guest that inherited nothing shares its seat with no other entry of   *)
(* the roster, and has its own only once the seat is Streaming.            *)
(***************************************************************************)
THEOREM RosterIsSeatedHolds == Spec => []RosterIsSeated
<1>1. CleanInv => RosterIsSeated
  <2> SUFFICES ASSUME CleanInv, NEW s \in Seats, NEW g \in Clean(s), NEW e \in active, NEW f \in active,
                      e.seat = s, f.seat = s
               PROVE  e = f /\ e.guest = g /\ seat[s] = "Streaming"
    BY DEF RosterIsSeated
  <2>1. Settled(s, g) /\ Once
    BY DEF CleanInv, SeatsInv, Discipline
  <2>2. e.guest = g /\ f.guest = g /\ seat[s] = "Streaming"
    BY <2>1 DEF Settled
  <2> QED BY <2>1, <2>2 DEF Once
<1> QED BY <1>1, CleanInvariance, PTL

(***************************************************************************)
(* A guest that inherited nothing is never handed a predicted frame        *)
(* without the frame before it, whatever the rings refuse, the pool        *)
(* withholds and encoders that end or are rebuilt do.                      *)
(***************************************************************************)
THEOREM ChainUnbrokenHolds == Spec => []ChainUnbroken
<1>1. CleanInv => ChainUnbroken
  BY DEF CleanInv
<1> QED BY <1>1, CleanInvariance, PTL

(* A seat with a guest that inherited nothing loses a frame only to it. *)
LEMMA OnlyPopper ==
  ASSUME Shapes, Threads, Once, Discipline, [Next]_vars, NEW g \in Guests, g \notin inherited,
         stage[g] = "seated", Len(ring'[at[g]]) < Len(ring[at[g]])
  PROVE  held'[g] # held[g]
<1> PICK s \in Seats : s = at[g]
  BY DEF Threads
<1>1. g \in Occupants(s) /\ g \in Clean(s) /\ ring'[s] # ring[s] /\ ring[s] \in Seq(Frame)
  <2>1. ring[s] \in Seq(Frame) /\ Len(ring'[s]) < Len(ring[s])
    BY DEF Shapes
  <2>2. Len(ring[s]) \in Nat
    BY <2>1
  <2> QED BY <2>1, <2>2 DEF Occupants, Clean
<1>2. s \notin Leaving
  BY <1>1, LeavingIsLeft
<1>3. CASE GuestStep
  <2> PICK h \in Guests : \/ \E t \in Seats : Claim(h, t)
                          \/ Announce(h)
                          \/ NextFrame(h) \/ DropFrame(h) \/ NextAudio(h) \/ Leave(h)
    BY <1>3 DEF GuestStep
  <2>1. NextFrame(h)
    BY <1>1 DEF Claim, Announce, DropFrame, NextAudio, Leave
  <2>2. at[h] \in Seats /\ ring' = [ring EXCEPT ![at[h]] = Tail(ring[at[h]])] /\ h \in Occupants(at[h])
    BY <2>1 DEF NextFrame, Threads, Occupants
  <2>3. at[h] = s
    BY <1>1, <2>2 DEF Shapes
  <2>4. h = g
    BY <1>1, <2>2, <2>3 DEF Discipline
  <2>5. ring[s] # <<>> /\ held[g] = None /\ held'[g] = Head(ring[s])
    BY <2>1, <2>3, <2>4 DEF NextFrame, Shapes
  <2>6. Head(ring[s]) \in Frame
    BY <1>1, <2>5
  <2> QED BY <2>5, <2>6, NoneAssumption
<1>4. CASE LoopStep
  <2>1. ~Wait /\ ~Retire
    BY <1>1, <1>2 DEF Wait, Retire, Release, Left
  <2>2. ~Arrival
    <3> SUFFICES ASSUME Arrival PROVE FALSE
      OBVIOUS
    <3>1. joins # <<>> /\ s = Head(joins).seat /\ seat[s] # "Claimed"
      BY <1>1 DEF Arrival, Release
    <3> QED BY <1>1, <3>1, JoinTaken
  <2>3. ASSUME NEW h \in Guests, ArrivalContended(h) PROVE FALSE
    <3>1. joins # <<>> /\ at[h] = Head(joins).seat /\ seat[at[h]] # "Claimed" /\ at[h] \in Seats
      BY <2>3 DEF ArrivalContended, Threads
    <3>2. at[h] = s
      BY <1>1, <2>3, <3>1 DEF ArrivalContended, TakesBeside, HearsBeside, Shapes
    <3> QED BY <1>1, <3>1, <3>2, JoinTaken
  <2>4. ASSUME writer # None, NEW target \in writer.todo, Push(target) PROVE FALSE
    <3> DEFINE x == [slot |-> writer.slot, frame |-> writer.frame]
               n == Append(ring[target.seat], x)
    <3>1. target.seat \in Seats /\ x \in Frame
      BY <2>4 DEF Shapes, Publication, Join, Frame
    <3>2. ring' = [ring EXCEPT ![target.seat] = n]
      BY <1>1, <2>4 DEF Push
    <3>3. target.seat = s
      BY <1>1, <3>1, <3>2 DEF Shapes
    <3> HIDE DEF x
    <3>4. ring'[s] = Append(ring[s], x)
      BY <3>2, <3>3 DEF Shapes
    <3>5. Len(ring'[s]) = Len(ring[s]) + 1 /\ Len(ring[s]) \in Nat
      BY <1>1, <3>1, <3>4
    <3> QED BY <3>5
  <2>5. ring' = ring
    BY <1>4, <2>1, <2>2, <2>3, <2>4 DEF LoopStep, Build, Failed, Rebuild, Admit, Pass, Withhold, Publish, Published
  <2> QED BY <1>1, <2>5
<1>5. CASE SoundStep \/ UNCHANGED vars
  BY <1>1, <1>5 DEF SoundStep, PublishAudio, PushAudio, AudioPublished, vars
<1> QED BY <1>3, <1>4, <1>5 DEF Next

(***************************************************************************)
(* The guest of a seat is the only popper of its picture ring, which is    *)
(* what the single-consumer ring needs, if it inherited nothing.           *)
(***************************************************************************)
THEOREM GuestIsOnlyPopperHolds == Spec => GuestIsOnlyPopper
<1> DEFINE Pops == \A g \in Guests \ inherited :
                       stage[g] = "seated" /\ Len(ring'[at[g]]) < Len(ring[at[g]]) => held'[g] # held[g]
<1>1. CleanInv /\ [Next]_vars => [Pops]_vars
  <2> SUFFICES ASSUME CleanInv, [Next]_vars PROVE Pops
    OBVIOUS
  <2>1. Shapes /\ Threads /\ Once /\ Discipline
    BY TypesAreShapes DEF CleanInv, SeatsInv
  <2> QED BY <2>1, OnlyPopper
<1> HIDE DEF Pops
<1>2. Spec => [][Pops]_vars
  BY <1>1, CleanInvariance, PTL DEF Spec
<1> QED BY <1>2 DEF GuestIsOnlyPopper, Pops

=============================================================================
