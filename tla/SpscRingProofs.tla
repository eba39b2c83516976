--------------------------- MODULE SpscRingProofs ---------------------------
(***************************************************************************)
(* The ring is a bounded first-in first-out queue, without slot races, for *)
(* every capacity, every number of pushes and every staleness of the two   *)
(* acquire loads, provided the capacity divides the counters' space.       *)
(***************************************************************************)
EXTENDS SpscRing, Integers, TLAPS

-----------------------------------------------------------------------------
(* Wrapping counters and slot indices *)

(* Quotient and remainder of a counter exist. *)
LEMMA DivMod ==
    ASSUME NEW a \in Nat, NEW n \in Nat \ {0}
    PROVE  /\ a % n \in 0 .. n - 1
           /\ a \div n \in Nat
           /\ a = n * (a \div n) + (a % n)
OBVIOUS

(* Multiples of n are n apart. *)
LEMMA MultiplesApart ==
    ASSUME NEW n \in Nat \ {0}, NEW q \in Nat, NEW r \in Nat, q < r
    PROVE  n * r >= n * q + n
<1>1. PICK d \in Nat : r = q + 1 + d
  BY r = q + 1 + (r - q - 1)
<1>2. n * (q + 1 + d) = n * q + n + n * d
  OBVIOUS
<1>3. n * d \in Nat /\ n * q \in Nat
  OBVIOUS
<1> QED BY <1>1, <1>2, <1>3

(* Quotient and remainder are unique. *)
LEMMA DivModUnique ==
    ASSUME NEW n \in Nat \ {0}, NEW q \in Nat, NEW r \in Nat,
           NEW x \in 0 .. n - 1, NEW y \in 0 .. n - 1,
           n * q + x = n * r + y
    PROVE  q = r /\ x = y
<1>1. n * q \in Nat /\ n * r \in Nat
  OBVIOUS
<1>2. CASE q < r BY <1>1, <1>2, MultiplesApart
<1>3. CASE r < q BY <1>1, <1>3, MultiplesApart
<1>4. CASE q = r BY <1>1, <1>4
<1> QED BY <1>2, <1>3, <1>4

(* The remainder of a number written as a multiple of n and a rest. *)
LEMMA ModOfSum ==
    ASSUME NEW n \in Nat \ {0}, NEW q \in Nat, NEW x \in 0 .. n - 1
    PROVE  (n * q + x) % n = x
<1> DEFINE a == n * q + x
<1>1. a \in Nat
  OBVIOUS
<1>2. a % n \in 0 .. n - 1 /\ a \div n \in Nat /\ a = n * (a \div n) + (a % n)
  BY <1>1, DivMod
<1> HIDE DEF a
<1>3. n * q + x = n * (a \div n) + (a % n)
  BY <1>2 DEF a
<1>4. x = a % n
  BY <1>2, <1>3, DivModUnique
<1> QED BY <1>4 DEF a

(* Fewer than n apart, two counters with one residue are equal. *)
LEMMA ModInjective ==
    ASSUME NEW n \in Nat \ {0}, NEW a \in Nat, NEW b \in Nat,
           a <= b, b < a + n, a % n = b % n
    PROVE  a = b
<1> DEFINE q == a \div n
           r == b \div n
<1>1. a % n \in 0 .. n - 1 /\ q \in Nat /\ a = n * q + (a % n)
  BY DivMod
<1>2. b % n \in 0 .. n - 1 /\ r \in Nat /\ b = n * r + (b % n)
  BY DivMod
<1> HIDE DEF q, r
<1>3. n * q \in Nat /\ n * r \in Nat
  BY <1>1, <1>2
<1>4. n * r < n * q + n /\ n * r >= n * q
  BY <1>1, <1>2, <1>3
<1>5. ~(q < r) /\ ~(r < q)
  BY <1>1, <1>2, <1>3, <1>4, MultiplesApart
<1> QED BY <1>5, <1>1, <1>2

(* A full turn of the ring changes no index. *)
LEMMA ModTurn ==
    ASSUME NEW n \in Nat \ {0}, NEW a \in Nat
    PROVE  (a + n) % n = a % n
<1> DEFINE q == a \div n
           x == a % n
<1>1. x \in 0 .. n - 1 /\ q \in Nat /\ a = n * q + x
  BY DivMod
<1> HIDE DEF q, x
<1>2. n * (q + 1) = n * q + n /\ n * q \in Nat /\ q + 1 \in Nat
  BY <1>1
<1>3. a + n = n * (q + 1) + x
  BY <1>1, <1>2
<1>4. (n * (q + 1) + x) % n = x
  BY <1>1, <1>2, ModOfSum
<1> QED BY <1>3, <1>4 DEF x

(* The index of a wrapped counter is that of the counter itself, provided *)
(* the capacity divides the counter's space.                              *)
LEMMA ModOfWrapped ==
    ASSUME NEW n \in Nat \ {0}, NEW c \in Nat \ {0}, NEW k \in Nat, c = n * k,
           NEW a \in Nat
    PROVE  (a % c) % n = a % n
<1> DEFINE Q == a \div c
           y == a % c
           q == y \div n
           x == y % n
<1>1. y \in 0 .. c - 1 /\ Q \in Nat /\ a = c * Q + y
  BY DivMod
<1>2. y \in Nat
  BY <1>1
<1>3. x \in 0 .. n - 1 /\ q \in Nat /\ y = n * q + x
  BY <1>2, DivMod
<1> HIDE DEF Q, y, q, x
<1>4. k * Q \in Nat
  BY <1>1
<1>5. c * Q = n * (k * Q)
  BY <1>1
<1>6. n * (k * Q + q) = n * (k * Q) + n * q
  BY <1>3, <1>4
<1>7. n * q \in Nat /\ n * (k * Q) \in Nat /\ k * Q + q \in Nat
  BY <1>3, <1>4
<1>8. a = n * (k * Q + q) + x
  BY <1>1, <1>3, <1>5, <1>6, <1>7
<1>9. (n * (k * Q + q) + x) % n = x
  BY <1>3, <1>7, ModOfSum
<1> QED BY <1>8, <1>9 DEF x, y

(* wrapping_sub of two wrapped counters is their true difference. *)
LEMMA WrappedDifference ==
    ASSUME NEW c \in Nat \ {0}, NEW h \in Nat, NEW d \in 0 .. c - 1
    PROVE  (((h + d) % c) + c - (h % c)) % c = d
<1> DEFINE y == h % c
           R == h \div c
           x == (h + d) % c
<1>1. y \in 0 .. c - 1 /\ R \in Nat /\ h = c * R + y
  BY DivMod
<1> HIDE DEF y, R
<1>2. c * R \in Nat /\ c * (R + 1) = c * R + c /\ R + 1 \in Nat
  BY <1>1
<1>3. CASE y + d < c
  <2>1. h + d = c * R + (y + d) /\ y + d \in 0 .. c - 1
    BY <1>1, <1>2, <1>3
  <2>2. (c * R + (y + d)) % c = y + d
    BY <1>1, <2>1, ModOfSum
  <2>3. x = y + d
    BY <2>1, <2>2
  <2> HIDE DEF x
  <2>4. x + c - y = c * 1 + d
    BY <1>1, <2>3
  <2>5. (c * 1 + d) % c = d
    BY ModOfSum
  <2> QED BY <2>4, <2>5 DEF x, y
<1>4. CASE y + d >= c
  <2>1. h + d = c * (R + 1) + (y + d - c) /\ y + d - c \in 0 .. c - 1
    BY <1>1, <1>2, <1>4
  <2>2. (c * (R + 1) + (y + d - c)) % c = y + d - c
    BY <1>2, <2>1, ModOfSum
  <2>3. x = y + d - c
    BY <2>1, <2>2
  <2> HIDE DEF x
  <2>4. x + c - y = c * 0 + d
    BY <1>1, <2>3
  <2>5. (c * 0 + d) % c = d
    BY ModOfSum
  <2> QED BY <2>4, <2>5 DEF x, y
<1> QED BY <1>1, <1>3, <1>4

(* n consecutive counters use every slot. *)
LEMMA ModCovers ==
    ASSUME NEW n \in Nat \ {0}, NEW a \in Nat, NEW i \in 0 .. n - 1
    PROVE  \E k \in a .. a + n - 1 : k % n = i
<1> DEFINE q == a \div n
           x == a % n
<1>1. x \in 0 .. n - 1 /\ q \in Nat /\ a = n * q + x
  BY DivMod
<1> HIDE DEF q, x
<1>2. n * q \in Nat /\ n * (q + 1) = n * q + n /\ q + 1 \in Nat
  BY <1>1
<1>3. (n * q + i) % n = i /\ (n * (q + 1) + i) % n = i
  BY <1>1, <1>2, ModOfSum
<1>4. CASE i >= x
  <2>1. n * q + i \in a .. a + n - 1
    BY <1>1, <1>2, <1>4
  <2> QED BY <2>1, <1>3
<1>5. CASE i < x
  <2>1. n * (q + 1) + i \in a .. a + n - 1
    BY <1>1, <1>2, <1>5
  <2> QED BY <2>1, <1>3
<1> QED BY <1>1, <1>4, <1>5

-----------------------------------------------------------------------------
(* The ring *)

(* What makes tail % N consistent across a wrap of the counters. *)
Divides == \E k \in Nat : CounterSpace = N * k

-----------------------------------------------------------------------------
(* The inductive invariant *)

(* How far each thread can be behind the other. *)
Counters ==
    /\ pushes \in Nat /\ pops \in Nat /\ seenPops \in Nat /\ seenPushes \in Nat
    /\ seenPops <= pops /\ pops <= seenPushes /\ seenPushes <= pushes
    /\ pushes <= MaxPushes
    /\ pushes <= seenPops + N

(* What the load that started a push or a pop has established. *)
Decisions ==
    /\ producer # "idle" => pushes < seenPops + N /\ pushes < MaxPushes
    /\ consumer # "idle" => pops < seenPushes
    /\ consumer = "release" => held = pops

(* Counter k's slot holds value k. *)
Filled(k) ==
    \/ k < pushes /\ ~(k = pops /\ consumer = "release")
    \/ k = pushes /\ producer = "publish"

(* The content of every slot, each named by the counter that uses it next. *)
SlotsHold ==
    \A k \in pops .. pops + N - 1 : slots[k % N] = IF Filled(k) THEN k ELSE None

(* Nothing happens to a dropped ring. *)
Finished ==
    dropped => /\ producer = "idle" /\ consumer = "idle"
               /\ \A i \in 0 .. N - 1 : slots[i] = None

Types ==
    /\ slots \in [0 .. N - 1 -> Nat \cup {None}]
    /\ producer \in {"idle", "write", "publish"}
    /\ consumer \in {"idle", "read", "release"}
    /\ held \in Nat \cup {None}
    /\ dropped \in BOOLEAN

IInv == Counters /\ Decisions /\ SlotsHold /\ Finished /\ Types

-----------------------------------------------------------------------------
(* The code's arithmetic *)

(* A counter's slot is its residue, wrapped or not. *)
LEMMA IndexIsResidue ==
    ASSUME Divides, NEW k \in Nat
    PROVE  Index(k) = k % N /\ Index(k) \in 0 .. N - 1
<1>1. PICK m \in Nat : CounterSpace = N * m
  BY DEF Divides
<1>2. (k % CounterSpace) % N = k % N
  BY <1>1, ModOfWrapped, RingAssumption
<1>3. k % N \in 0 .. N - 1
  BY DivMod, RingAssumption
<1> QED BY <1>2, <1>3 DEF Index, Wrap

(* The full test compares the true difference of the counters. *)
LEMMA FullIsExact ==
    ASSUME NEW head \in Nat, pushes \in Nat, head <= pushes, pushes <= head + N
    PROVE  Full(head) <=> pushes >= head + N
<1> DEFINE d == pushes - head
<1>1. d \in 0 .. CounterSpace - 1 /\ head + d = pushes
  BY RingAssumption
<1> HIDE DEF d
<1>2. (((head + d) % CounterSpace) + CounterSpace - (head % CounterSpace)) % CounterSpace = d
  BY <1>1, WrappedDifference, RingAssumption
<1>3. WrappingSub(Wrap(pushes), Wrap(head)) = d
  BY <1>1, <1>2 DEF WrappingSub, Wrap
<1> QED BY <1>1, <1>3, RingAssumption DEF Full, d

(* The empty test compares the true counters. *)
LEMMA EmptyIsExact ==
    ASSUME NEW tail \in Nat, pops \in Nat, pops <= tail, tail <= pops + N
    PROVE  Wrap(pops) = Wrap(tail) <=> pops = tail
<1>1. tail < pops + CounterSpace
  BY RingAssumption
<1> QED BY <1>1, ModInjective, RingAssumption DEF Wrap

(* Distinct counters of one turn use distinct slots. *)
LEMMA DistinctSlots ==
    ASSUME NEW a \in Nat, NEW j \in a .. a + N - 1, NEW k \in a .. a + N - 1,
           j % N = k % N
    PROVE  j = k
<1>1. j \in Nat /\ k \in Nat /\ j < k + N /\ k < j + N
  BY RingAssumption
<1>2. CASE j <= k BY <1>1, <1>2, ModInjective, RingAssumption
<1>3. CASE k <= j BY <1>1, <1>3, ModInjective, RingAssumption
<1> QED BY <1>1, <1>2, <1>3

-----------------------------------------------------------------------------
(* Invariance *)

LEMMA InitIInv == Init => IInv
<1> SUFFICES ASSUME Init PROVE IInv
  OBVIOUS
<1>1. Counters /\ Decisions
  BY RingAssumption DEF Init, Counters, Decisions
<1>2. SlotsHold
  BY DivMod, RingAssumption DEF Init, SlotsHold, Filled
<1>3. Finished
  BY DEF Init, Finished
<1>4. Types
  <2>1. slots \in [0 .. N - 1 -> Nat \cup {None}]
    BY DEF Init
  <2> QED BY <2>1 DEF Init, Types
<1> QED BY <1>1, <1>2, <1>3, <1>4 DEF IInv

LEMMA PushLoadIInv ==
    ASSUME IInv, PushLoad PROVE IInv'
<1>1. PICK head \in seenPops .. pops :
        /\ seenPops' = head
        /\ producer' = IF Full(head) THEN "idle" ELSE "write"
  BY DEF PushLoad
<1>2. head \in Nat /\ head <= pushes /\ pushes <= head + N
  BY <1>1, RingAssumption DEF IInv, Counters
<1>3. Full(head) <=> pushes >= head + N
  BY <1>2, FullIsExact DEF IInv, Counters
<1>4. UNCHANGED <<pushes, pops, slots, consumer, seenPushes, held, dropped>>
      /\ producer = "idle" /\ ~dropped /\ pushes < MaxPushes
  BY DEF PushLoad
<1>5. Counters'
  BY <1>1, <1>2, <1>4 DEF IInv, Counters
<1>6. Decisions'
  BY <1>1, <1>2, <1>3, <1>4, RingAssumption DEF IInv, Decisions, Counters
<1>7. SlotsHold'
  BY <1>1, <1>4 DEF IInv, SlotsHold, Filled
<1>8. Finished' /\ Types'
  BY <1>1, <1>4 DEF IInv, Finished, Types
<1> QED BY <1>5, <1>6, <1>7, <1>8 DEF IInv

LEMMA PushWriteIInv ==
    ASSUME Divides, IInv, PushWrite PROVE IInv'
<1>1. /\ UNCHANGED <<pushes, pops, consumer, seenPops, seenPushes, held, dropped>>
      /\ slots' = [slots EXCEPT ![pushes % N] = pushes]
      /\ pushes % N \in 0 .. N - 1
      /\ producer = "write" /\ producer' = "publish"
  BY IndexIsResidue DEF PushWrite, IInv, Counters
<1>2. Counters' /\ Decisions'
  BY <1>1 DEF IInv, Counters, Decisions
<1>3. pushes \in pops .. pops + N - 1
  BY <1>1, RingAssumption DEF IInv, Counters, Decisions
<1>4. SlotsHold'
  <2> SUFFICES ASSUME NEW k \in pops .. pops + N - 1
               PROVE  slots'[k % N] = IF Filled(k)' THEN k ELSE None
    BY <1>1 DEF SlotsHold
  <2>1. CASE k = pushes
    BY <1>1, <2>1 DEF Filled, IInv, Types
  <2>2. CASE k # pushes
    <3>1. k % N # pushes % N
      BY <1>3, <2>2, DistinctSlots DEF IInv, Counters
    <3>2. slots'[k % N] = slots[k % N]
      BY <1>1, <3>1 DEF IInv, Types
    <3>3. Filled(k)' <=> Filled(k)
      BY <1>1, <2>2 DEF Filled
    <3> QED BY <3>2, <3>3 DEF IInv, SlotsHold
  <2> QED BY <2>1, <2>2
<1>5. Finished' /\ Types'
  BY <1>1 DEF IInv, Finished, Types, Counters
<1> QED BY <1>2, <1>4, <1>5 DEF IInv

LEMMA PushPublishIInv ==
    ASSUME IInv, PushPublish PROVE IInv'
<1>1. /\ UNCHANGED <<pops, slots, consumer, seenPops, seenPushes, held, dropped>>
      /\ pushes' = pushes + 1
      /\ producer = "publish" /\ producer' = "idle"
  BY DEF PushPublish
<1>2. Counters' /\ Decisions'
  BY <1>1, RingAssumption DEF IInv, Counters, Decisions
<1>3. SlotsHold'
  <2> SUFFICES ASSUME NEW k \in pops .. pops + N - 1
               PROVE  slots[k % N] = IF Filled(k)' THEN k ELSE None
    BY <1>1 DEF SlotsHold
  <2>1. Filled(k)' <=> Filled(k)
    BY <1>1, RingAssumption DEF Filled, IInv, Counters, Decisions
  <2> QED BY <2>1 DEF IInv, SlotsHold
<1>4. Finished' /\ Types'
  BY <1>1 DEF IInv, Finished, Types
<1> QED BY <1>2, <1>3, <1>4 DEF IInv

LEMMA PopLoadIInv ==
    ASSUME IInv, PopLoad PROVE IInv'
<1>1. PICK tail \in seenPushes .. pushes :
        /\ seenPushes' = tail
        /\ consumer' = IF Wrap(pops) = Wrap(tail) THEN "idle" ELSE "read"
  BY DEF PopLoad
<1>2. tail \in Nat /\ pops <= tail /\ tail <= pops + N
  BY <1>1, RingAssumption DEF IInv, Counters
<1>3. Wrap(pops) = Wrap(tail) <=> pops = tail
  BY <1>2, EmptyIsExact DEF IInv, Counters
<1>4. UNCHANGED <<pushes, pops, slots, producer, seenPops, held, dropped>>
      /\ consumer = "idle" /\ ~dropped
  BY DEF PopLoad
<1>5. Counters' /\ Decisions'
  BY <1>1, <1>2, <1>3, <1>4 DEF IInv, Counters, Decisions
<1>6. SlotsHold'
  BY <1>1, <1>4 DEF IInv, SlotsHold, Filled
<1>7. Finished' /\ Types'
  BY <1>1, <1>4 DEF IInv, Finished, Types
<1> QED BY <1>5, <1>6, <1>7 DEF IInv

LEMMA PopReadIInv ==
    ASSUME Divides, IInv, PopRead PROVE IInv'
<1>1. /\ UNCHANGED <<pushes, pops, producer, seenPops, seenPushes, dropped>>
      /\ held' = slots[pops % N]
      /\ slots' = [slots EXCEPT ![pops % N] = None]
      /\ pops % N \in 0 .. N - 1
      /\ consumer = "read" /\ consumer' = "release"
  BY IndexIsResidue DEF PopRead, IInv, Counters
<1>2. pops \in pops .. pops + N - 1 /\ Filled(pops)
  BY <1>1, RingAssumption DEF IInv, Counters, Decisions, Filled
<1>3. held' = pops
  BY <1>1, <1>2 DEF IInv, SlotsHold
<1>4. Counters' /\ Decisions'
  BY <1>1, <1>3 DEF IInv, Counters, Decisions
<1>5. SlotsHold'
  <2> SUFFICES ASSUME NEW k \in pops .. pops + N - 1
               PROVE  slots'[k % N] = IF Filled(k)' THEN k ELSE None
    BY <1>1 DEF SlotsHold
  <2>1. CASE k = pops
    <3>1. ~Filled(k)'
      BY <1>1, <2>1 DEF Filled, IInv, Counters, Decisions
    <3> QED BY <1>1, <2>1, <3>1 DEF IInv, Types
  <2>2. CASE k # pops
    <3>1. k % N # pops % N
      BY <1>2, <2>2, DistinctSlots DEF IInv, Counters
    <3>2. slots'[k % N] = slots[k % N]
      BY <1>1, <3>1 DEF IInv, Types
    <3>3. Filled(k)' <=> Filled(k)
      BY <1>1, <2>2 DEF Filled
    <3> QED BY <3>2, <3>3 DEF IInv, SlotsHold
  <2> QED BY <2>1, <2>2
<1>6. Finished' /\ Types'
  BY <1>1, <1>3 DEF IInv, Finished, Types, Counters
<1> QED BY <1>4, <1>5, <1>6 DEF IInv

LEMMA PopReleaseIInv ==
    ASSUME IInv, PopRelease PROVE IInv'
<1>1. /\ UNCHANGED <<pushes, slots, producer, seenPops, seenPushes, dropped>>
      /\ pops' = pops + 1 /\ held' = None
      /\ consumer = "release" /\ consumer' = "idle"
  BY DEF PopRelease
<1>2. Counters' /\ Decisions'
  BY <1>1 DEF IInv, Counters, Decisions
<1>3. SlotsHold'
  <2> SUFFICES ASSUME NEW k \in pops + 1 .. pops + N
               PROVE  slots[k % N] = IF Filled(k)' THEN k ELSE None
    BY <1>1, RingAssumption DEF SlotsHold, IInv, Counters
  <2>1. CASE k <= pops + N - 1
    <3>1. k \in pops .. pops + N - 1
      BY <2>1, RingAssumption DEF IInv, Counters
    <3>2. Filled(k)' <=> Filled(k)
      BY <1>1 DEF Filled, IInv, Counters
    <3> QED BY <3>1, <3>2 DEF IInv, SlotsHold
  <2>2. CASE k = pops + N
    <3>1. k % N = pops % N
      BY <2>2, ModTurn, RingAssumption DEF IInv, Counters
    <3>2. pops \in pops .. pops + N - 1 /\ ~Filled(pops)
      BY <1>1, RingAssumption DEF IInv, Counters, Decisions, Filled
    <3>3. ~Filled(k)'
      BY <1>1, <2>2, RingAssumption DEF IInv, Counters, Decisions, Filled
    <3> QED BY <3>1, <3>2, <3>3 DEF IInv, SlotsHold
  <2> QED BY <2>1, <2>2, RingAssumption DEF IInv, Counters
<1>4. Finished' /\ Types'
  BY <1>1 DEF IInv, Finished, Types
<1> QED BY <1>2, <1>3, <1>4 DEF IInv

LEMMA DropIInv ==
    ASSUME Divides, IInv, Drop PROVE IInv'
<1> DEFINE left == {Index(k) : k \in pops .. pushes - 1}
<1>1. /\ UNCHANGED <<pushes, producer, consumer, held>>
      /\ pops' = pushes /\ seenPops' = pushes /\ seenPushes' = pushes
      /\ producer = "idle" /\ consumer = "idle"
      /\ dropped' = TRUE
      /\ slots' = [i \in DOMAIN slots |-> IF i \in left THEN None ELSE slots[i]]
  BY DEF Drop
<1>2. Counters' /\ Decisions'
  BY <1>1, RingAssumption DEF IInv, Counters, Decisions
<1>3. \A i \in 0 .. N - 1 : slots'[i] = None
  <2> SUFFICES ASSUME NEW i \in 0 .. N - 1 PROVE slots'[i] = None
    OBVIOUS
  <2>1. PICK k \in pops .. pops + N - 1 : k % N = i
    BY ModCovers, RingAssumption DEF IInv, Counters
  <2>2. CASE k < pushes
    <3>1. k \in pops .. pushes - 1 /\ Index(k) = i
      BY <2>1, <2>2, IndexIsResidue DEF IInv, Counters
    <3> QED BY <1>1, <3>1 DEF IInv, Types
  <2>3. CASE k >= pushes
    <3>1. ~Filled(k)
      BY <1>1, <2>3 DEF Filled, IInv, Counters
    <3>2. slots[i] = None
      BY <2>1, <3>1 DEF IInv, SlotsHold
    <3> QED BY <1>1, <3>2 DEF IInv, Types
  <2> QED BY <2>1, <2>2, <2>3 DEF IInv, Counters
<1>4. SlotsHold'
  <2> SUFFICES ASSUME NEW k \in pushes .. pushes + N - 1
               PROVE  slots'[k % N] = IF Filled(k)' THEN k ELSE None
    BY <1>1 DEF SlotsHold
  <2>1. k % N \in 0 .. N - 1 /\ ~Filled(k)'
    BY <1>1, DivMod, RingAssumption DEF Filled, IInv, Counters
  <2> QED BY <1>3, <2>1
<1>5. Types'
  BY <1>1 DEF IInv, Types
<1>6. Finished'
  BY <1>1, <1>3 DEF Finished
<1> QED BY <1>2, <1>4, <1>5, <1>6 DEF IInv

(* The inductive step. *)
LEMMA NextIInv ==
    ASSUME Divides PROVE IInv /\ [Next]_vars => IInv'
<1> SUFFICES ASSUME IInv, [Next]_vars PROVE IInv'
  OBVIOUS
<1>1. CASE PushLoad BY <1>1, PushLoadIInv
<1>2. CASE PushWrite BY <1>2, PushWriteIInv
<1>3. CASE PushPublish BY <1>3, PushPublishIInv
<1>4. CASE PopLoad BY <1>4, PopLoadIInv
<1>5. CASE PopRead BY <1>5, PopReadIInv
<1>6. CASE PopRelease BY <1>6, PopReleaseIInv
<1>7. CASE Drop BY <1>7, DropIInv
<1>8. CASE UNCHANGED vars
  BY <1>8 DEF vars, IInv, Counters, Decisions, SlotsHold, Filled, Finished, Types
<1> QED BY <1>1, <1>2, <1>3, <1>4, <1>5, <1>6, <1>7, <1>8 DEF Next

(* IInv holds in every state of a ring whose capacity divides its counters. *)
THEOREM RingInvariance ==
    ASSUME Divides PROVE Spec => []IInv
<1>1. IInv /\ [Next]_vars => IInv'
  BY NextIInv
<1> QED BY <1>1, InitIInv, PTL DEF Spec

-----------------------------------------------------------------------------
(* What follows *)

(* push and pop keep every variable in its type. *)
THEOREM RingTypes ==
    ASSUME Divides PROVE Spec => []TypeOK
<1>1. IInv => TypeOK
  BY RingAssumption DEF IInv, Counters, Types, TypeOK
<1> QED BY <1>1, RingInvariance, PTL

(* The slot that push writes is free and is not being read by pop. *)
THEOREM WritesFreeSlotHolds ==
    ASSUME Divides PROVE Spec => []WritesFreeSlot
<1>1. IInv => WritesFreeSlot
  <2> SUFFICES ASSUME IInv, producer = "write"
               PROVE  /\ slots[Index(pushes)] = None
                      /\ consumer = "read" => Index(pops) # Index(pushes)
    BY DEF WritesFreeSlot
  <2>1. Index(pushes) = pushes % N /\ Index(pops) = pops % N
    BY IndexIsResidue DEF IInv, Counters
  <2>2. pushes \in pops .. pops + N - 1 /\ pops \in pops .. pops + N - 1
    BY RingAssumption DEF IInv, Counters, Decisions
  <2>3. ~Filled(pushes)
    BY DEF Filled, IInv, Counters
  <2>4. slots[Index(pushes)] = None
    BY <2>1, <2>2, <2>3 DEF IInv, SlotsHold
  <2>5. consumer = "read" => pops # pushes
    BY DEF IInv, Counters, Decisions
  <2> QED BY <2>1, <2>2, <2>4, <2>5, DistinctSlots DEF IInv, Counters
<1> QED BY <1>1, RingInvariance, PTL

(* pop takes the values out in the order in which push wrote them. *)
THEOREM ReadsOldestHolds ==
    ASSUME Divides PROVE Spec => []ReadsOldest
<1>1. IInv => ReadsOldest
  <2> SUFFICES ASSUME IInv PROVE ReadsOldest
    OBVIOUS
  <2>1. consumer = "release" => held = pops
    BY DEF IInv, Decisions
  <2>2. ASSUME consumer = "read" PROVE slots[Index(pops)] = pops
    <3>1. Index(pops) = pops % N
      BY IndexIsResidue DEF IInv, Counters
    <3>2. pops \in pops .. pops + N - 1 /\ Filled(pops)
      BY <2>2, RingAssumption DEF IInv, Counters, Decisions, Filled
    <3> QED BY <3>1, <3>2 DEF IInv, SlotsHold
  <2> QED BY <2>1, <2>2 DEF ReadsOldest
<1> QED BY <1>1, RingInvariance, PTL

(* No slot is written and read at once, overwritten or read too early. *)
THEOREM SlotsHandedOverHolds ==
    ASSUME Divides PROVE Spec => []SlotsHandedOver
BY WritesFreeSlotHolds, ReadsOldestHolds, PTL DEF SlotsHandedOver

(* Drop releases every value that was still queued. *)
THEOREM NothingLeaksHolds ==
    ASSUME Divides PROVE Spec => []NothingLeaks
<1>1. IInv => NothingLeaks
  BY DEF IInv, Finished, Types, NothingLeaks
<1> QED BY <1>1, RingInvariance, PTL

(* The ring implements the bounded queue: a push that is published and a   *)
(* pop that is released are the queue's steps, all others are invisible.   *)
THEOREM RefinesBoundedQueue ==
    ASSUME Divides PROVE Spec => IsBoundedQueue
<1>1. Init => Queue!Init
  BY DEF Init, Queue!Init
<1>2. IInv /\ [Next]_vars => [Queue!Next]_<<pushes, pops>>
  <2> SUFFICES ASSUME IInv, [Next]_vars PROVE [Queue!Next]_<<pushes, pops>>
    OBVIOUS
  <2>1. CASE PushLoad BY <2>1 DEF PushLoad
  <2>2. CASE PushWrite BY <2>2 DEF PushWrite
  <2>3. CASE PushPublish
    BY <2>3, RingAssumption
    DEF PushPublish, IInv, Counters, Decisions, Queue!Next, Queue!Push
  <2>4. CASE PopLoad BY <2>4 DEF PopLoad
  <2>5. CASE PopRead BY <2>5 DEF PopRead
  <2>6. CASE PopRelease
    BY <2>6 DEF PopRelease, IInv, Counters, Decisions, Queue!Next, Queue!Pop
  <2>7. CASE Drop
    BY <2>7 DEF Drop, Queue!Next, Queue!Clear
  <2>8. CASE UNCHANGED vars BY <2>8 DEF vars
  <2> QED BY <2>1, <2>2, <2>3, <2>4, <2>5, <2>6, <2>7, <2>8 DEF Next
<1> QED BY <1>1, <1>2, RingInvariance, PTL DEF Spec, IsBoundedQueue, Queue!Spec
=============================================================================
