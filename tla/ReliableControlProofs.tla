----------------------- MODULE ReliableControlProofs ------------------------
(***************************************************************************)
(* Proofs about ReliableControl, for every sequence space, every window up *)
(* to half of it and any number of messages.  The invariant follows one    *)
(* direction: what the sender still keeps is the end of what it accepted   *)
(* (Window), what the receiver keeps is what it was handed and messages    *)
(* ahead of it (Inbound), and a datagram carries a number that was         *)
(* accepted.  That a wrapped number is taken for the right one rests on    *)
(* the window, for data, and on Fresh.                                     *)
(*                                                                         *)
(* The last section is about CapabilityHandshake, which runs over the same *)
(* channels, for the same constants: until the host is in its session,     *)
(* nothing but the messages of the exchange is in flight.                  *)
(***************************************************************************)
EXTENDS ReliableControl, CapabilityPhases, FiniteSetTheorems, TLAPS

CONSTANT MaxSession    \* the bound on the messages of CapabilityHandshake's sessions

\* The exchange that opens the session, over channels of its own.
Handshake == INSTANCE CapabilityHandshake

-----------------------------------------------------------------------------
(* Remainders *)

(* Multiples of n, of any sign, are n apart. *)
LEMMA IntMultiplesApart ==
    ASSUME NEW n \in Nat \ {0}, NEW q \in Int, NEW r \in Int, q < r
    PROVE  n * r >= n * q + n
<1>1. PICK d \in Nat : r = q + 1 + d
  BY r = q + 1 + (r - q - 1)
<1>2. n * (q + 1 + d) = n * q + n + n * d
  OBVIOUS
<1>3. n * d \in Nat /\ n * q \in Int
  OBVIOUS
<1> QED BY <1>1, <1>2, <1>3

(* A multiple of n more or less leaves the remainder alone. *)
LEMMA ModOfMultiple ==
    ASSUME NEW n \in Nat \ {0}, NEW x \in Int, NEW k \in Int
    PROVE  (x + n * k) % n = x % n
<1> DEFINE y == x + n * k
           q == x \div n
           r == y \div n
           a == x % n
           b == y % n
<1>1. y \in Int
  OBVIOUS
<1>2. a \in 0 .. n - 1 /\ q \in Int /\ x = n * q + a
  OBVIOUS
<1>3. b \in 0 .. n - 1 /\ r \in Int /\ y = n * r + b
  BY <1>1
<1>4. y = n * q + n * k + a
  BY <1>2
<1> HIDE DEF y, q, r, a, b
<1>5. n * (q + k) = n * q + n * k /\ q + k \in Int
  BY <1>2
<1>6. n * (q + k) \in Int /\ n * r \in Int
  BY <1>3, <1>5
<1>7. n * (q + k) + a = n * r + b
  BY <1>2, <1>3, <1>4, <1>5
<1>8. ~(q + k < r) /\ ~(r < q + k)
  BY <1>2, <1>3, <1>5, <1>6, <1>7, IntMultiplesApart
<1>9. q + k = r
  BY <1>3, <1>5, <1>8
<1>10. a = b
  BY <1>2, <1>3, <1>6, <1>7, <1>9
<1> QED BY <1>10 DEF a, b, y

(* Wrapping first and adding afterwards is adding first. *)
LEMMA ModAfterMod ==
    ASSUME NEW n \in Nat \ {0}, NEW x \in Nat, NEW k \in Int
    PROVE  ((x % n) + k) % n = (x + k) % n
<1> DEFINE q == x \div n
           y == x % n
<1>1. y \in 0 .. n - 1 /\ q \in Nat /\ x = n * q + y
  OBVIOUS
<1> HIDE DEF q, y
<1>2. x + k = (y + k) + n * q /\ y + k \in Int
  BY <1>1
<1>3. q \in Int
  BY <1>1
<1>4. ((y + k) + n * q) % n = (y + k) % n
  BY <1>2, <1>3, ModOfMultiple, Zenon
<1> QED BY <1>2, <1>4 DEF y

(* The wrapped difference of two wrapped numbers is that of the numbers. *)
LEMMA ModOfDifference ==
    ASSUME NEW n \in Nat \ {0}, NEW x \in Nat, NEW y \in Nat
    PROVE  ((x % n) - (y % n)) % n = (x - y) % n
<1> DEFINE q == x \div n
           r == y \div n
           a == x % n
           b == y % n
<1>1. a \in 0 .. n - 1 /\ q \in Nat /\ x = n * q + a
  OBVIOUS
<1>2. b \in 0 .. n - 1 /\ r \in Nat /\ y = n * r + b
  OBVIOUS
<1> HIDE DEF q, r, a, b
<1>3. q - r \in Int /\ n * (q - r) = n * q - n * r
  BY <1>1, <1>2
<1>4. a - b \in Int /\ x - y = (a - b) + n * (q - r)
  BY <1>1, <1>2, <1>3
<1>5. ((a - b) + n * (q - r)) % n = (a - b) % n
  BY <1>3, <1>4, ModOfMultiple
<1> QED BY <1>4, <1>5 DEF a, b

(* A number below n, and one up to n below zero. *)
LEMMA ModOfSmall ==
    ASSUME NEW n \in Nat \ {0}, NEW d \in 0 .. n - 1
    PROVE  d % n = d /\ (d - n) % n = d
<1>1. d % n \in 0 .. n - 1 /\ d \div n \in Int /\ d = n * (d \div n) + (d % n)
  OBVIOUS
<1>2. d % n = d
  <2>1. CASE d \div n = 0
    BY <1>1, <2>1
  <2>2. CASE 0 < d \div n
    <3>1. n * (d \div n) >= n * 0 + n
      BY <1>1, <2>2, IntMultiplesApart
    <3> QED BY <1>1, <3>1
  <2>3. CASE d \div n < 0
    <3>1. n * 0 >= n * (d \div n) + n
      BY <1>1, <2>3, IntMultiplesApart
    <3> QED BY <1>1, <3>1
  <2> QED BY <1>1, <2>1, <2>2, <2>3
<1>3. d \in Int /\ 0 - 1 \in Int
  OBVIOUS
<1>4. \A k \in Int : (d + n * k) % n = d % n
  BY <1>3, ModOfMultiple
<1>5. (d + n * (0 - 1)) % n = d % n
  BY <1>3, <1>4
<1>6. d + n * (0 - 1) = d - n
  OBVIOUS
<1> QED BY <1>2, <1>5, <1>6

(* Fewer than n apart, two numbers with one remainder are equal. *)
LEMMA ModInjective ==
    ASSUME NEW n \in Nat \ {0}, NEW a \in Nat, NEW b \in Nat,
           a <= b, b < a + n, a % n = b % n
    PROVE  a = b
<1>1. (b - a) % n = ((b % n) - (a % n)) % n
  BY ModOfDifference
<1>2. b % n \in Int /\ (b % n) - (a % n) = 0
  OBVIOUS
<1>3. 0 \in 0 .. n - 1 /\ b - a \in 0 .. n - 1
  OBVIOUS
<1>4. 0 % n = 0 /\ (b - a) % n = b - a
  BY <1>3, ModOfSmall
<1> QED BY <1>1, <1>2, <1>4

-----------------------------------------------------------------------------
\* The sequence space and half of it.
LEMMA Space ==
  /\ SeqSpace \in Nat \ {0} /\ HalfSpace \in Nat \ {0} /\ SeqSpace = HalfSpace + HalfSpace
  /\ MaxPending \in 1 .. HalfSpace
  BY SeqSpaceAssumption, MaxPendingAssumption DEF HalfSpace

\* The other peer's other peer is oneself.
LEMMA OtherPeer ==
  ASSUME NEW p \in Peers
  PROVE  Other(p) \in Peers /\ Other(p) # p /\ Other(Other(p)) = p
BY DEF Other, Peers

-----------------------------------------------------------------------------
(* Wrapped numbers *)

\* A wrapped number is a sequence number.
LEMMA WrapType ==
  ASSUME NEW x \in Int
  PROVE  Wrap(x) \in SequenceNumber /\ Wrap(x) \in Int /\ Wrap(x) # None
<1>1. x % SeqSpace \in 0 .. SeqSpace - 1
  BY Space
<1> QED BY <1>1, NoneAssumption, Space DEF Wrap, SequenceNumber

\* Numbers less than the space apart have different sequence numbers.
LEMMA WrapInjective ==
  ASSUME NEW x \in Nat, NEW y \in Nat, x < y + SeqSpace, y < x + SeqSpace, Wrap(x) = Wrap(y)
  PROVE  x = y
<1>1. CASE x <= y
  BY <1>1, Space, ModInjective DEF Wrap
<1>2. CASE y <= x
  BY <1>2, Space, ModInjective DEF Wrap
<1> QED BY <1>1, <1>2

\* Counting on from a wrapped number.
LEMMA WrapShift ==
  ASSUME NEW x \in Nat, NEW k \in Int
  PROVE  Wrap(Wrap(x) + k) = Wrap(x + k)
BY Space, ModAfterMod DEF Wrap

\* sequence_at_or_before is right as long as its second argument is less than
\* half the space ahead and at most half the space behind.
LEMMA AtOrBeforeIsOrder ==
  ASSUME NEW x \in Nat, NEW y \in Nat, y - x < HalfSpace, x - y <= HalfSpace
  PROVE  AtOrBefore(Wrap(x), Wrap(y)) <=> x <= y
<1>1. Wrap(Wrap(y) - Wrap(x)) = (y - x) % SeqSpace
  BY Space, ModOfDifference DEF Wrap
<1>2. CASE x <= y
  <2>1. y - x \in 0 .. SeqSpace - 1
    BY <1>2, Space
  <2>2. (y - x) % SeqSpace = y - x
    BY <2>1, Space, ModOfSmall
  <2> QED BY <1>1, <1>2, <2>2 DEF AtOrBefore
<1>3. CASE y < x
  <2> DEFINE d == SeqSpace - (x - y)
  <2>1. d \in 0 .. SeqSpace - 1 /\ d >= HalfSpace /\ d - SeqSpace = y - x
    BY <1>3, Space
  <2>2. (d - SeqSpace) % SeqSpace = d
    BY <2>1, Space, ModOfSmall
  <2>3. (y - x) % SeqSpace = d
    BY <2>1, <2>2
  <2> HIDE DEF d
  <2>4. ~((y - x) % SeqSpace < HalfSpace)
    BY <2>1, <2>3, Space
  <2> QED BY <1>1, <1>3, <2>4 DEF AtOrBefore
<1> QED BY <1>2, <1>3

-----------------------------------------------------------------------------
(* The sending channel *)

\* A channel is a record of its five fields.
IsChannel(ch) ==
  ch \in [nextSequence : SequenceNumber, expectedSequence : SequenceNumber,
          pendingAck : SequenceNumber \cup {None},
          outstanding : {ch.outstanding}, waiting : {ch.waiting}]

\* The sequence numbers of the messages after the lo-th up to the a-th.
Numbers(lo, a) == {Wrap(n - 1) : n \in lo + 1 .. a}

\* A sending channel that has accepted a messages keeps those after the lo-th.
Window(ch, a, lo) ==
  /\ a \in Nat /\ lo \in 0 .. a /\ a - lo <= MaxPending
  /\ ch.nextSequence = Wrap(a) /\ ch.pendingAck = None
  /\ DOMAIN ch.outstanding = Numbers(lo, a)
  /\ \A n \in lo + 1 .. a : ch.outstanding[Wrap(n - 1)] = n

\* The window holds as many messages as it has numbers.
LEMMA WindowCount ==
  ASSUME NEW ch, NEW a, NEW lo, Window(ch, a, lo)
  PROVE  Cardinality(DOMAIN ch.outstanding) = a - lo
<1> DEFINE I == lo + 1 .. a
           J == Numbers(lo, a)
           f == [n \in I |-> Wrap(n - 1)]
<1>1. a \in Nat /\ lo \in 0 .. a /\ a - lo < SeqSpace
  BY Space DEF Window
<1>2. IsFiniteSet(I) /\ Cardinality(I) = a - lo
  <2>1. lo + 1 \in Int /\ a \in Int
    BY <1>1
  <2>2. IsFiniteSet(I) /\ Cardinality(I) = IF lo + 1 > a THEN 0 ELSE a - (lo + 1) + 1
    BY <2>1, FS_Interval
  <2> QED BY <1>1, <2>2
<1>3. f \in [I -> J] /\ \A y \in J : \E n \in I : f[n] = y
  BY DEF Numbers
<1>4. \A m, n \in I : f[m] = f[n] => m = n
  <2> SUFFICES ASSUME NEW m \in I, NEW n \in I, Wrap(m - 1) = Wrap(n - 1)
               PROVE  m = n
    OBVIOUS
  <2>1. m - 1 \in Nat /\ n - 1 \in Nat /\ m - 1 < (n - 1) + SeqSpace /\ n - 1 < (m - 1) + SeqSpace
    BY <1>1, Space
  <2>2. m - 1 = n - 1
    BY <2>1, WrapInjective
  <2> QED BY <1>1, <2>2
<1>5. f \in Bijection(I, J)
  BY <1>3, <1>4 DEF Bijection, Injection, Surjection, IsInjective
<1>6. Cardinality(J) = Cardinality(I)
  BY <1>2, <1>5, FS_Bijection DEF ExistsBijection
<1> QED BY <1>2, <1>6 DEF Window

\* Channel::queue takes one more message into a window with room.
LEMMA QueueMoves ==
  ASSUME NEW ch, NEW a, NEW lo, IsChannel(ch), Window(ch, a, lo), HasCapacity(ch)
  PROVE  IsChannel(Queue(ch, a + 1)) /\ Window(Queue(ch, a + 1), a + 1, lo)
<1> DEFINE new == Queue(ch, a + 1)
           s == Wrap(a)
           larger == Inserted(ch.outstanding, ch.nextSequence, a + 1)
<1>1. a \in Nat /\ lo \in 0 .. a /\ a - lo < MaxPending /\ a + 1 - lo <= MaxPending
  <2>1. Cardinality(DOMAIN ch.outstanding) = a - lo
    BY WindowCount
  <2> QED BY <2>1, Space DEF Window, HasCapacity
<1>2. Wrap(ch.nextSequence + 1) = Wrap(a + 1) /\ Wrap(a + 1) \in SequenceNumber
  <2>1. a \in Nat /\ 1 \in Int /\ a + 1 \in Int
    BY <1>1
  <2>2. Wrap(Wrap(a) + 1) = Wrap(a + 1)
    BY <2>1, WrapShift, Zenon
  <2>3. Wrap(a + 1) \in SequenceNumber
    BY <2>1, WrapType, Zenon
  <2> QED BY <2>2, <2>3 DEF Window
<1>3. /\ new.nextSequence = Wrap(a + 1) /\ new.pendingAck = ch.pendingAck
      /\ new.outstanding = larger /\ new.waiting = ch.waiting
      /\ IsChannel(new)
  <2> HIDE DEF larger
  <2>1. new = [ch EXCEPT !.nextSequence = Wrap(a + 1), !.outstanding = larger]
    BY <1>2 DEF Queue, larger
  <2> HIDE DEF new
  <2> QED BY <1>2, <2>1 DEF IsChannel
<1> HIDE DEF new
<1>5. new.outstanding = [x \in {s} \cup DOMAIN ch.outstanding |-> IF x = s THEN a + 1 ELSE ch.outstanding[x]]
  BY <1>3 DEF Window, Inserted
<1>6. Numbers(lo, a + 1) = {s} \cup Numbers(lo, a)
  <2>1. lo + 1 .. a + 1 = (lo + 1 .. a) \cup {a + 1} /\ (a + 1) - 1 = a
    BY <1>1
  <2> QED BY <2>1 DEF Numbers
<1>7. ASSUME NEW n \in lo + 1 .. a + 1
      PROVE  new.outstanding[Wrap(n - 1)] = n
  <2>1. CASE n = a + 1
    BY <1>1, <1>5, <2>1
  <2>2. CASE n # a + 1
    <3>1. n \in lo + 1 .. a /\ n - 1 \in Nat
      BY <1>1, <2>2
    <3>2. Wrap(n - 1) \in DOMAIN ch.outstanding /\ ch.outstanding[Wrap(n - 1)] = n
      BY <3>1 DEF Window, Numbers
    <3>3. Wrap(n - 1) # s
      BY <1>1, <3>1, WrapInjective, Space
    <3> QED BY <1>5, <3>2, <3>3
  <2> QED BY <2>1, <2>2
<1>8. DOMAIN new.outstanding = Numbers(lo, a + 1)
  BY <1>5, <1>6 DEF Window
<1>9. Window(new, a + 1, lo)
  BY <1>1, <1>3, <1>7, <1>8 DEF Window
<1> QED BY <1>3, <1>9 DEF new

\* The later of two positions.
Later(lo, k) == IF lo < k THEN k ELSE lo

\* Channel::acknowledge forgets the messages up to the acknowledged one and no
\* other, whatever the window has done since the acknowledgement was written.
LEMMA AcknowledgeMoves ==
  ASSUME NEW ch, NEW a, NEW lo, NEW k \in 1 .. a, IsChannel(ch), Window(ch, a, lo),
         a - k <= HalfSpace
  PROVE  /\ IsChannel(Acknowledge(ch, Wrap(k - 1)))
         /\ Window(Acknowledge(ch, Wrap(k - 1)), a, Later(lo, k))
<1> DEFINE new == Acknowledge(ch, Wrap(k - 1))
           kept == {s \in DOMAIN ch.outstanding : ~AtOrBefore(s, Wrap(k - 1))}
           hi == Later(lo, k)
<1>1. /\ a \in Nat /\ lo \in 0 .. a /\ a - lo <= MaxPending /\ k \in Nat
      /\ hi \in lo .. a /\ hi >= k /\ (hi = k \/ hi = lo)
  BY DEF Window, Later
<1>2. /\ new.nextSequence = ch.nextSequence /\ new.pendingAck = ch.pendingAck
      /\ new.outstanding = [x \in kept |-> ch.outstanding[x]] /\ new.waiting = ch.waiting
      /\ IsChannel(new)
  BY DEF Acknowledge, IsChannel
<1>3. ASSUME NEW n \in lo + 1 .. a
      PROVE  AtOrBefore(Wrap(n - 1), Wrap(k - 1)) <=> n <= k
  <2>1. /\ n - 1 \in Nat /\ k - 1 \in Nat
        /\ (k - 1) - (n - 1) < HalfSpace /\ (n - 1) - (k - 1) <= HalfSpace
    BY <1>1, Space
  <2>2. AtOrBefore(Wrap(n - 1), Wrap(k - 1)) <=> n - 1 <= k - 1
    BY <2>1, AtOrBeforeIsOrder
  <2> QED BY <1>1, <2>2
<1>4. kept = Numbers(hi, a)
  <2>1. ASSUME NEW s \in kept PROVE s \in Numbers(hi, a)
    <3>1. PICK n \in lo + 1 .. a : s = Wrap(n - 1)
      BY <2>1 DEF Window, Numbers
    <3>2. n \in hi + 1 .. a
      BY <1>1, <1>3, <2>1, <3>1
    <3> QED BY <3>1, <3>2 DEF Numbers
  <2>2. ASSUME NEW s \in Numbers(hi, a) PROVE s \in kept
    <3>1. PICK n \in hi + 1 .. a : s = Wrap(n - 1)
      BY <2>2 DEF Numbers
    <3>2. n \in lo + 1 .. a /\ ~(n <= k)
      BY <1>1, <3>1
    <3>3. ~AtOrBefore(s, Wrap(k - 1))
      BY <1>3, <3>1, <3>2
    <3> QED BY <3>1, <3>2, <3>3 DEF Window, Numbers
  <2> QED BY <2>1, <2>2
<1> HIDE DEF new, kept, hi
<1>6. ASSUME NEW n \in hi + 1 .. a PROVE new.outstanding[Wrap(n - 1)] = n
  <2>1. n \in lo + 1 .. a /\ Wrap(n - 1) \in kept
    BY <1>1, <1>4 DEF Numbers
  <2> QED BY <1>2, <2>1 DEF Window
<1>7. new.nextSequence = Wrap(a) /\ new.pendingAck = None /\ DOMAIN new.outstanding = Numbers(hi, a)
  BY <1>2, <1>4 DEF Window
<1>8. a - hi <= MaxPending /\ hi \in 0 .. a
  BY <1>1, Space
<1>9. Window(new, a, hi)
  BY <1>1, <1>6, <1>7, <1>8 DEF Window
<1> QED BY <1>2, <1>9 DEF new, hi

\* Channel::next_frame carries a message that was accepted.
LEMMA NextFrameIsAccepted ==
  ASSUME NEW ch, NEW a, NEW lo, Window(ch, a, lo), NEW frame \in NextFrame(ch)
  PROVE  \E n \in 1 .. a : frame = DataFrame(Wrap(n - 1), None, n)
<1>1. PICK s \in DOMAIN ch.outstanding : frame = DataFrame(s, ch.pendingAck, ch.outstanding[s])
  BY DEF NextFrame
<1>2. PICK n \in lo + 1 .. a : s = Wrap(n - 1)
  BY DEF Window, Numbers
<1>3. n \in 1 .. a /\ ch.outstanding[s] = n /\ ch.pendingAck = None
  BY <1>2 DEF Window
<1> QED BY <1>1, <1>2, <1>3

-----------------------------------------------------------------------------
(* The receiving channel *)

\* m messages after the r-th.
Run(r, m) == [i \in 1 .. m |-> r + i]

\* A receiving channel whose caller was handed r of the other peer's a messages
\* has nothing to send, and buffers messages beyond the next one.
Inbound(ch, r, a) ==
  /\ ch.expectedSequence = Wrap(r)
  /\ ch.pendingAck = IF r = 0 THEN None ELSE Wrap(r - 1)
  /\ DOMAIN ch.outstanding = {}
  /\ \A s \in DOMAIN ch.waiting : \E n \in r + 2 .. a : s = Wrap(n - 1) /\ ch.waiting[s] = n

\* A call that was handed a frame after the r-th message delivers the next ones.
Received(res, r, a) ==
  \E m \in 0 .. a - r : /\ res.delivered = Run(r, m)
                        /\ IsChannel(res.channel) /\ Inbound(res.channel, r + m, a)

\* A run of messages continued.
LEMMA RunContinues ==
  ASSUME NEW r \in Nat, NEW k \in Nat, NEW m \in Nat
  PROVE  Run(r, k) \o Run(r + k, m) = Run(r, k + m)
<1>1. Run(r, k) \in Seq(Nat) /\ Len(Run(r, k)) = k
  BY DEF Run
<1>2. Run(r + k, m) \in Seq(Nat) /\ Len(Run(r + k, m)) = m
  BY DEF Run
<1>4. ASSUME NEW i \in 1 .. k + m
      PROVE  (Run(r, k) \o Run(r + k, m))[i] = r + i
  <2>1. CASE i <= k
    <3>1. (Run(r, k) \o Run(r + k, m))[i] = Run(r, k)[i]
      BY <1>1, <1>2, <2>1
    <3> QED BY <2>1, <3>1 DEF Run
  <2>2. CASE i > k
    <3>1. (Run(r, k) \o Run(r + k, m))[i] = Run(r + k, m)[i - k]
      BY <1>1, <1>2, <2>2
    <3>2. i - k \in 1 .. m /\ r + k + (i - k) = r + i
      BY <2>2
    <3> QED BY <3>1, <3>2 DEF Run
  <2>3. i <= k \/ i > k
    OBVIOUS
  <2> QED BY <2>1, <2>2, <2>3, Zenon
<1>5. /\ Run(r, k) \o Run(r + k, m) \in Seq(Nat)
      /\ Len(Run(r, k) \o Run(r + k, m)) = k + m
  BY <1>1, <1>2
<1> DEFINE joined == Run(r, k) \o Run(r + k, m)
<1>7. joined \in Seq(Nat) /\ Len(joined) = k + m /\ \A i \in 1 .. k + m : joined[i] = r + i
  BY <1>4, <1>5, Zenon
<1> HIDE DEF joined
<1>8. joined = [i \in 1 .. k + m |-> joined[i]]
  BY <1>7
<1>9. joined = Run(r, k + m)
  BY <1>7, <1>8 DEF Run
<1> QED BY <1>9 DEF joined

\* A set of numbers has a least element.
LEMMA LeastExists ==
  ASSUME NEW T \in SUBSET Nat, T # {}
  PROVE  \E i \in T : \A j \in T : i <= j
<1>1. PICK i \in T : \A j \in T : ~ (<<j, i>> \in OpToRel(<, Nat))
  BY NatLessThanWellFounded, WFMin
<1>2. \A j \in T : ~ (j < i)
  BY <1>1 DEF OpToRel
<1> QED BY <1>2

\* The buffered messages behind the expected one, up to the first gap.
IsBufferedRun(ch, n) ==
  /\ n \in 0 .. MaxPending
  /\ \A i \in 1 .. n : Wrap(ch.expectedSequence + i) \in DOMAIN ch.waiting
  /\ n = MaxPending \/ Wrap(ch.expectedSequence + n + 1) \notin DOMAIN ch.waiting

\* There is such a run.
LEMMA BufferedRunExists ==
  ASSUME NEW ch, ch.expectedSequence \in Int
  PROVE  IsBufferedRun(ch, BufferedRun(ch))
<1> DEFINE e == ch.expectedSequence
           W == DOMAIN ch.waiting
           T == {n \in 0 .. MaxPending : n = MaxPending \/ Wrap(e + n + 1) \notin W}
<1>1. MaxPending \in Nat
  BY Space
<1>2. T \in SUBSET Nat /\ MaxPending \in T
  BY <1>1
<1>3. PICK n \in T : \A j \in T : n <= j
  BY <1>2, LeastExists
<1>4. ASSUME NEW i \in 1 .. n PROVE Wrap(e + i) \in W
  <2>1. i - 1 \in 0 .. MaxPending /\ i - 1 \notin T
    BY <1>1, <1>3
  <2>2. i - 1 # MaxPending
    BY <1>1, <1>3
  <2>3. Wrap(e + (i - 1) + 1) \in W
    BY <2>1, <2>2
  <2>4. e + (i - 1) + 1 = e + i
    OBVIOUS
  <2> QED BY <2>3, <2>4
<1>5. IsBufferedRun(ch, n)
  BY <1>3, <1>4 DEF IsBufferedRun
<1>6. BufferedRun(ch) = CHOOSE k \in 0 .. MaxPending : IsBufferedRun(ch, k)
  BY DEF BufferedRun, IsBufferedRun
<1> QED BY <1>5, <1>6 DEF IsBufferedRun

\* Channel::receive of the expected message hands over the run behind it, and
\* nothing of that run stays buffered.
LEMMA DeliverMoves ==
  ASSUME NEW ch, NEW r \in Nat, NEW a \in Nat, r < a, a <= r + MaxPending,
         IsChannel(ch), Inbound(ch, r, a)
  PROVE  Received(DeliverExpected(ch, r + 1), r, a)
<1> DEFINE e == ch.expectedSequence
           n == BufferedRun(ch)
           W == DOMAIN ch.waiting
           run == {Wrap(e + i) : i \in 1 .. n}
           res == DeliverExpected(ch, r + 1)
           new == res.channel
<1>1. e = Wrap(r) /\ e \in Int
  BY WrapType DEF Inbound
<1>2. IsBufferedRun(ch, n)
  BY <1>1, BufferedRunExists
<1> HIDE DEF n
<1>3. n \in Nat /\ n <= MaxPending /\ MaxPending <= HalfSpace /\ MaxPending \in Nat
  BY <1>2, Space DEF IsBufferedRun
<1>4. \A i \in Int : Wrap(e + i) = Wrap(r + i)
  BY <1>1, WrapShift
<1>5. ASSUME NEW s \in W, NEW j \in 0 .. MaxPending, s = Wrap(r + j)
      PROVE  j + r + 1 \in r + 2 .. a /\ ch.waiting[s] = j + r + 1
  <2>1. PICK k \in r + 2 .. a : s = Wrap(k - 1) /\ ch.waiting[s] = k
    BY DEF Inbound
  <2>2. /\ k - 1 \in Nat /\ r + j \in Nat
        /\ k - 1 < r + j + SeqSpace /\ r + j < k - 1 + SeqSpace
    BY <1>3, Space
  <2>3. k - 1 = r + j
    BY <1>5, <2>1, <2>2, WrapInjective
  <2>4. k = j + r + 1
    BY <2>3
  <2> QED BY <2>1, <2>4
<1>6. ASSUME NEW i \in 1 .. n
      PROVE  Wrap(r + i) \in W /\ r + 1 + i <= a /\ ch.waiting[Wrap(e + i)] = r + 1 + i
  <2>1. i \in 0 .. MaxPending /\ i \in Int
    BY <1>3
  <2>2. Wrap(e + i) \in W /\ Wrap(e + i) = Wrap(r + i)
    BY <1>2, <1>4, <2>1 DEF IsBufferedRun
  <2>3. i + r + 1 \in r + 2 .. a /\ ch.waiting[Wrap(r + i)] = i + r + 1
    BY <1>5, <2>1, <2>2
  <2> QED BY <2>1, <2>2, <2>3
<1>7. r + (n + 1) <= a /\ n + 1 \in 0 .. a - r
  <2>1. CASE n = 0
    BY <2>1
  <2>2. CASE n # 0
    <3>1. n \in 1 .. n
      BY <1>3, <2>2
    <3>2. r + 1 + n <= a
      BY <1>6, <3>1
    <3> QED BY <1>3, <3>2
  <2> QED BY <2>1, <2>2
<1>8. res.delivered = Run(r, n + 1)
  <2>1. res.delivered = <<r + 1>> \o [i \in 1 .. n |-> ch.waiting[Wrap(e + i)]]
    BY DEF DeliverExpected, n
  <2>2. [i \in 1 .. n |-> ch.waiting[Wrap(e + i)]] = Run(r + 1, n)
    BY <1>3, <1>6 DEF Run
  <2>3. <<r + 1>> = Run(r, 1)
    BY DEF Run
  <2>4. Run(r, 1) \o Run(r + 1, n) = Run(r, 1 + n)
    BY <1>3, RunContinues
  <2>5. 1 + n = n + 1
    BY <1>3
  <2> QED BY <2>1, <2>2, <2>3, <2>4, <2>5
<1>9. /\ Wrap(e + n + 1) = Wrap(r + (n + 1)) /\ Wrap(e + n + 1) \in SequenceNumber
      /\ Wrap(Wrap(e + n + 1) - 1) = Wrap(r + n) /\ Wrap(r + n) \in SequenceNumber
  <2>1. n + 1 \in Int /\ r + (n + 1) \in Nat /\ r + n \in Int /\ e + (n + 1) = e + n + 1
    BY <1>1, <1>3
  <2>2. Wrap(e + n + 1) = Wrap(r + (n + 1))
    BY <1>4, <2>1
  <2>3. Wrap(Wrap(r + (n + 1)) + (-1)) = Wrap(r + (n + 1) + (-1))
    BY <2>1, WrapShift
  <2>4. Wrap(r + (n + 1)) + (-1) = Wrap(r + (n + 1)) - 1 /\ r + (n + 1) + (-1) = r + n
    BY <1>3, <2>1, WrapType
  <2> QED BY <2>1, <2>2, <2>3, <2>4, WrapType
<1>10. /\ new.expectedSequence = Wrap(r + (n + 1)) /\ new.pendingAck = Wrap(r + n)
       /\ new.outstanding = ch.outstanding
       /\ new.waiting = [s \in W \ run |-> ch.waiting[s]]
       /\ IsChannel(new)
  <2> DEFINE rest == [s \in W \ run |-> ch.waiting[s]]
  <2>1. new = [ch EXCEPT !.expectedSequence = Wrap(e + n + 1), !.waiting = rest,
                         !.pendingAck = Wrap(Wrap(e + n + 1) - 1)]
    BY DEF DeliverExpected, n
  <2> HIDE DEF rest, new
  <2>2. new = [ch EXCEPT !.expectedSequence = Wrap(r + (n + 1)), !.waiting = rest,
                         !.pendingAck = Wrap(r + n)]
    BY <1>9, <2>1
  <2>3. Wrap(r + (n + 1)) \in SequenceNumber /\ Wrap(r + n) \in SequenceNumber
    BY <1>9
  <2>4. /\ new.expectedSequence = Wrap(r + (n + 1)) /\ new.pendingAck = Wrap(r + n)
        /\ new.outstanding = ch.outstanding /\ new.waiting = rest /\ IsChannel(new)
    BY <2>2, <2>3 DEF IsChannel
  <2> QED BY <2>4 DEF rest
<1> HIDE DEF new
<1>11. ASSUME NEW s \in DOMAIN new.waiting
       PROVE  \E k \in r + (n + 1) + 2 .. a : s = Wrap(k - 1) /\ new.waiting[s] = k
  <2>1. s \in W /\ s \notin run /\ new.waiting[s] = ch.waiting[s]
    BY <1>10
  <2>2. PICK k \in r + 2 .. a : s = Wrap(k - 1) /\ ch.waiting[s] = k
    BY <2>1 DEF Inbound
  <2>3. ASSUME k - 1 - r <= n PROVE FALSE
    <3>1. k - 1 - r \in 1 .. n /\ k - 1 - r \in Int /\ r + (k - 1 - r) = k - 1
      BY <1>3, <2>3
    <3>2. Wrap(e + (k - 1 - r)) = s
      BY <1>4, <2>2, <3>1
    <3> QED BY <2>1, <3>1, <3>2
  <2>4. ASSUME k - 1 - r = n + 1 PROVE FALSE
    <3>1. n # MaxPending /\ r + (n + 1) = k - 1
      BY <1>3, <2>4
    <3>2. Wrap(e + n + 1) \notin W
      BY <1>2, <3>1 DEF IsBufferedRun
    <3> QED BY <1>9, <2>1, <2>2, <3>1, <3>2
  <2>5. k \in r + (n + 1) + 2 .. a
    BY <1>3, <2>3, <2>4
  <2> QED BY <2>1, <2>2, <2>5
<1>12. Inbound(new, r + (n + 1), a)
  <2> DEFINE R == r + (n + 1)
  <2>1. DOMAIN new.outstanding = {}
    BY <1>10 DEF Inbound
  <2>2. R # 0 /\ R - 1 = r + n
    BY <1>3
  <2>3. new.expectedSequence = Wrap(R) /\ new.pendingAck = Wrap(r + n)
    BY <1>10
  <2>4. \A s \in DOMAIN new.waiting : \E k \in R + 2 .. a : s = Wrap(k - 1) /\ new.waiting[s] = k
    BY <1>11
  <2> HIDE DEF R
  <2>5. Inbound(new, R, a)
    BY <2>1, <2>2, <2>3, <2>4 DEF Inbound
  <2> QED BY <2>5 DEF R
<1>13. res.channel = new
  BY DEF new
<1> QED BY <1>7, <1>8, <1>10, <1>12, <1>13 DEF Received

\* Channel::receive of a message ahead of the expected one delivers nothing.
LEMMA BufferAheadMoves ==
  ASSUME NEW ch, NEW r \in Nat, NEW a \in Nat, NEW n \in r + 2 .. a, NEW frame,
         frame.sequence = Wrap(n - 1), frame.payload = n, IsChannel(ch), Inbound(ch, r, a)
  PROVE  IsChannel(BufferAhead(ch, frame)) /\ Inbound(BufferAhead(ch, frame), r, a)
<1> DEFINE new == BufferAhead(ch, frame)
           more == Inserted(ch.waiting, Wrap(n - 1), n)
<1>1. CASE new = ch
  BY <1>1
<1>2. CASE new = [ch EXCEPT !.waiting = more]
  <2> HIDE DEF new, more
  <2>1. /\ new.expectedSequence = ch.expectedSequence /\ new.pendingAck = ch.pendingAck
        /\ new.outstanding = ch.outstanding /\ new.waiting = more /\ IsChannel(new)
    BY <1>2 DEF IsChannel
  <2>2. ASSUME NEW s \in DOMAIN more
        PROVE  \E k \in r + 2 .. a : s = Wrap(k - 1) /\ more[s] = k
    <3>1. CASE s = Wrap(n - 1)
      BY <3>1 DEF more, Inserted
    <3>2. CASE s # Wrap(n - 1)
      <4>1. s \in DOMAIN ch.waiting /\ more[s] = ch.waiting[s]
        BY <3>2 DEF more, Inserted
      <4> QED BY <4>1 DEF Inbound
    <3> QED BY <3>1, <3>2
  <2>3. Inbound(new, r, a)
    BY <2>1, <2>2 DEF Inbound
  <2> QED BY <2>1, <2>3 DEF new
<1>3. new = ch \/ new = [ch EXCEPT !.waiting = more]
  BY DEF BufferAhead
<1> QED BY <1>1, <1>2, <1>3

\* An acknowledgement says nothing to a channel that sends nothing.
LEMMA InboundAcknowledged ==
  ASSUME NEW ch, NEW ack, DOMAIN ch.outstanding = {}, IsChannel(ch)
  PROVE  /\ IsChannel(Acknowledge(ch, ack)) /\ DOMAIN Acknowledge(ch, ack).outstanding = {}
         /\ Acknowledge(ch, ack).expectedSequence = ch.expectedSequence
         /\ Acknowledge(ch, ack).pendingAck = ch.pendingAck
         /\ Acknowledge(ch, ack).waiting = ch.waiting
<1> DEFINE none == [s \in {t \in DOMAIN ch.outstanding : ~AtOrBefore(t, ack)} |-> ch.outstanding[s]]
<1>1. Acknowledge(ch, ack) = [ch EXCEPT !.outstanding = none]
  BY DEF Acknowledge
<1>2. DOMAIN none = {}
  OBVIOUS
<1> HIDE DEF none
<1> QED BY <1>1, <1>2 DEF IsChannel

\* Channel::receive of an acknowledgement.
LEMMA ReceiveAckMoves ==
  ASSUME NEW ch, NEW r \in Nat, NEW a \in Nat, NEW ack, ack # None, r <= a,
         IsChannel(ch), Inbound(ch, r, a)
  PROVE  /\ Received(Receive(ch, AckFrame(ack)), r, a)
         /\ Receive(ch, AckFrame(ack)).delivered = <<>>
<1> DEFINE new == Acknowledge(ch, ack)
<1>1. Receive(ch, AckFrame(ack)) = [channel |-> new, delivered |-> <<>>]
  BY DEF Receive, AckFrame, AcknowledgeFrom
<1>2. IsChannel(new) /\ Inbound(new, r, a)
  BY InboundAcknowledged DEF Inbound
<1>3. <<>> = Run(r, 0) /\ 0 \in 0 .. a - r /\ r + 0 = r
  BY DEF Run
<1> HIDE DEF new
<1> QED BY <1>1, <1>2, <1>3 DEF Received

\* Channel::receive of the n-th message, whichever it is: circular comparison
\* tells the next message, one already delivered and one ahead apart.
LEMMA ReceiveDataMoves ==
  ASSUME NEW ch, NEW r \in Nat, NEW a \in Nat, NEW n \in 1 .. a,
         r <= a, a <= r + MaxPending, r + 1 - n < HalfSpace,
         IsChannel(ch), Inbound(ch, r, a)
  PROVE  Received(Receive(ch, DataFrame(Wrap(n - 1), None, n)), r, a)
<1> DEFINE frame == DataFrame(Wrap(n - 1), None, n)
           res == Receive(ch, frame)
<1>1. /\ frame.sequence = Wrap(n - 1) /\ frame.payload = n /\ frame.ack = None
      /\ frame.ackOnly = FALSE
  BY DEF DataFrame
<1> HIDE DEF frame
<1>2. /\ n - 1 \in Nat /\ n - 1 < r + SeqSpace /\ r < n - 1 + SeqSpace
      /\ r - (n - 1) < HalfSpace /\ (n - 1) - r <= HalfSpace
  BY Space
<1>3. ch.expectedSequence = Wrap(r) /\ AcknowledgeFrom(ch, frame) = ch
  BY <1>1 DEF Inbound, AcknowledgeFrom
<1>4. frame.sequence = ch.expectedSequence <=> n - 1 = r
  BY <1>1, <1>2, <1>3, WrapInjective
<1>5. AtOrBefore(frame.sequence, ch.expectedSequence) <=> n - 1 <= r
  BY <1>1, <1>2, <1>3, AtOrBeforeIsOrder
<1>6. CASE n - 1 = r
  <2>1. n = r + 1 /\ r < a
    BY <1>6
  <2>2. res = DeliverExpected(ch, r + 1)
    BY <1>1, <1>3, <1>4, <1>6, <2>1 DEF Receive
  <2>3. Received(DeliverExpected(ch, r + 1), r, a)
    BY <2>1, DeliverMoves
  <2> QED BY <2>2, <2>3 DEF frame
<1>7. <<>> = Run(r, 0) /\ 0 \in 0 .. a - r /\ r + 0 = r
  BY DEF Run
<1>8. CASE n - 1 < r
  <2>1. res = [channel |-> ch, delivered |-> <<>>]
    BY <1>1, <1>2, <1>3, <1>4, <1>5, <1>8 DEF Receive
  <2>2. Received(res, r, a)
    BY <1>7, <2>1 DEF Received
  <2> QED BY <2>2 DEF frame
<1>9. CASE n - 1 > r
  <2> DEFINE new == BufferAhead(ch, frame)
  <2>1. res = [channel |-> new, delivered |-> <<>>]
    BY <1>1, <1>2, <1>3, <1>4, <1>5, <1>9 DEF Receive
  <2>2. n \in r + 2 .. a
    BY <1>9
  <2>3. IsChannel(new) /\ Inbound(new, r, a)
    BY <1>1, <2>2, BufferAheadMoves
  <2> HIDE DEF new
  <2>4. Received(res, r, a)
    BY <1>7, <2>1, <2>3 DEF Received
  <2> QED BY <2>4 DEF frame
<1> QED BY <1>2, <1>6, <1>8, <1>9

-----------------------------------------------------------------------------
(* The calls of ReliableControl *)

\* A ReliableControl is a pair of channels.
IsControl(rc) ==
  /\ rc \in [outbound : {rc.outbound}, inbound : {rc.inbound}]
  /\ IsChannel(rc.outbound) /\ IsChannel(rc.inbound)

\* Every frame carries one of the first a messages.
CarryAccepted(frames, a) ==
  \A frame \in frames : \E n \in 1 .. a : frame = DataFrame(Wrap(n - 1), None, n)

\* ReliableControl::send, with room in the window and without.
LEMMA SendMoves ==
  ASSUME NEW rc, NEW a, NEW lo, IsControl(rc), Window(rc.outbound, a, lo)
  PROVE  LET res == Send(rc, a + 1)
             b == IF res.accepted THEN a + 1 ELSE a
         IN  /\ IsControl(res.control) /\ Window(res.control.outbound, b, lo)
             /\ res.control.inbound = rc.inbound /\ CarryAccepted(res.frames, b)
<1> DEFINE res == Send(rc, a + 1)
           b == IF res.accepted THEN a + 1 ELSE a
           queued == res.control
<1>1. res.accepted = HasCapacity(rc.outbound) /\ res.frames = NextFrame(queued.outbound)
  BY DEF Send, Flush
<1>2. queued = IF HasCapacity(rc.outbound) THEN [rc EXCEPT !.outbound = Queue(rc.outbound, a + 1)] ELSE rc
  BY DEF Send
<1> HIDE DEF res, queued
<1>3. IsControl(queued) /\ Window(queued.outbound, b, lo) /\ queued.inbound = rc.inbound
  <2>1. CASE HasCapacity(rc.outbound)
    <3> DEFINE out == Queue(rc.outbound, a + 1)
    <3>1. IsChannel(out) /\ Window(out, a + 1, lo)
      BY <2>1, QueueMoves DEF IsControl
    <3> HIDE DEF out
    <3>2. queued = [rc EXCEPT !.outbound = out]
      BY <1>2, <2>1 DEF out
    <3>3. queued.outbound = out /\ queued.inbound = rc.inbound
          /\ queued \in [outbound : {queued.outbound}, inbound : {queued.inbound}]
      BY <3>2 DEF IsControl
    <3>4. b = a + 1
      BY <1>1, <2>1
    <3> QED BY <3>1, <3>3, <3>4 DEF IsControl
  <2>2. CASE ~HasCapacity(rc.outbound)
    BY <1>1, <1>2, <2>2
  <2> QED BY <2>1, <2>2
<1>4. CarryAccepted(res.frames, b)
  BY <1>1, <1>3, NextFrameIsAccepted DEF CarryAccepted
<1> QED BY <1>3, <1>4 DEF res, queued

\* What a receive does to a control whose caller has r of the other peer's b
\* messages: the window it leaves, what it hands over and what it transmits.
Settled(res, a, lo, r, b) ==
  /\ IsControl(res.control) /\ Window(res.control.outbound, a, lo)
  /\ CarryAccepted(res.frames, a)
  /\ \E m \in 0 .. b - r :
        /\ res.delivered = Run(r, m) /\ Inbound(res.control.inbound, r + m, b)
        /\ \A frame \in res.acks : r + m # 0 /\ frame = AckFrame(Wrap(r + m - 1))

\* The receiving half and the acknowledgement of a call of receive.
LEMMA ReceiveHalves ==
  ASSUME NEW rc, NEW frame, NEW a, NEW lo, NEW r \in Nat, NEW b \in Nat, r <= b,
         IsControl(rc), Received(Receive(rc.inbound, frame), r, b),
         IsChannel(AcknowledgeFrom(rc.outbound, frame)),
         Window(AcknowledgeFrom(rc.outbound, frame), a, lo)
  PROVE  Settled(ReceiveControl(rc, frame), a, lo, r, b)
<1> DEFINE in == Receive(rc.inbound, frame)
           out == AcknowledgeFrom(rc.outbound, frame)
           res == ReceiveControl(rc, frame)
<1>1. PICK m \in 0 .. b - r : /\ in.delivered = Run(r, m)
                              /\ IsChannel(in.channel) /\ Inbound(in.channel, r + m, b)
  BY DEF Received
<1>2. /\ res.control = [outbound |-> out, inbound |-> in.channel] /\ res.delivered = in.delivered
      /\ res.acks = IF frame.ackOnly THEN {} ELSE AcknowledgementFrame(in.channel)
      /\ res.frames = NextFrame(res.control.outbound)
  BY DEF ReceiveControl, Flush
<1> HIDE DEF in, out, res
<1>3. IsControl(res.control) /\ Window(res.control.outbound, a, lo)
  BY <1>1, <1>2 DEF IsControl, out
<1>4. CarryAccepted(res.frames, a)
  BY <1>2, <1>3, NextFrameIsAccepted DEF CarryAccepted
<1>5. ASSUME NEW f \in res.acks
      PROVE  r + m # 0 /\ f = AckFrame(Wrap(r + m - 1))
  <2>1. f \in AcknowledgementFrame(in.channel)
    BY <1>2, <1>5
  <2>2. in.channel.pendingAck # None /\ f = AckFrame(in.channel.pendingAck)
    BY <2>1 DEF AcknowledgementFrame
  <2> QED BY <1>1, <2>2 DEF Inbound
<1>6. res.delivered = Run(r, m) /\ Inbound(res.control.inbound, r + m, b)
  BY <1>1, <1>2
<1>7. Settled(res, a, lo, r, b)
  BY <1>3, <1>4, <1>5, <1>6 DEF Settled
<1> QED BY <1>7 DEF res

\* ReliableControl::receive of a data frame leaves the window alone.
LEMMA ReceiveControlData ==
  ASSUME NEW rc, NEW a, NEW lo, NEW r \in Nat, NEW b \in Nat, NEW n \in 1 .. b,
         IsControl(rc), Window(rc.outbound, a, lo), Inbound(rc.inbound, r, b),
         r <= b, b <= r + MaxPending, r + 1 - n < HalfSpace
  PROVE  Settled(ReceiveControl(rc, DataFrame(Wrap(n - 1), None, n)), a, lo, r, b)
<1> DEFINE frame == DataFrame(Wrap(n - 1), None, n)
<1>1. IsChannel(rc.outbound) /\ IsChannel(rc.inbound)
  BY DEF IsControl
<1>2. AcknowledgeFrom(rc.outbound, frame) = rc.outbound
  BY DEF AcknowledgeFrom, DataFrame
<1>3. Received(Receive(rc.inbound, frame), r, b)
  BY <1>1, ReceiveDataMoves
<1> HIDE DEF frame
<1>4. Settled(ReceiveControl(rc, frame), a, lo, r, b)
  BY <1>1, <1>2, <1>3, ReceiveHalves
<1> QED BY <1>4 DEF frame

\* ReliableControl::receive of an acknowledgement of the k-th message.
LEMMA ReceiveControlAck ==
  ASSUME NEW rc, NEW a, NEW lo, NEW r \in Nat, NEW b \in Nat, NEW k \in 1 .. a,
         IsControl(rc), Window(rc.outbound, a, lo), Inbound(rc.inbound, r, b),
         r <= b, a - k <= HalfSpace
  PROVE  Settled(ReceiveControl(rc, AckFrame(Wrap(k - 1))), a, Later(lo, k), r, b)
<1> DEFINE frame == AckFrame(Wrap(k - 1))
<1>1. IsChannel(rc.outbound) /\ IsChannel(rc.inbound)
  BY DEF IsControl
<1>2. k - 1 \in Int
  BY DEF Window
<1>3. Wrap(k - 1) # None
  BY <1>2, WrapType
<1>4. AcknowledgeFrom(rc.outbound, frame) = Acknowledge(rc.outbound, Wrap(k - 1))
  BY <1>3 DEF AcknowledgeFrom, AckFrame
<1>5. /\ IsChannel(AcknowledgeFrom(rc.outbound, frame))
      /\ Window(AcknowledgeFrom(rc.outbound, frame), a, Later(lo, k))
  BY <1>1, <1>4, AcknowledgeMoves
<1>6. Received(Receive(rc.inbound, frame), r, b)
  BY <1>1, <1>3, ReceiveAckMoves
<1> HIDE DEF frame
<1>7. Settled(ReceiveControl(rc, frame), a, Later(lo, k), r, b)
  BY <1>5, <1>6, ReceiveHalves
<1> QED BY <1>7 DEF frame

-----------------------------------------------------------------------------
(* The invariant *)

\* Two pairs of channels and the counters of two callers.
Types ==
  /\ control = [p \in Peers |-> control[p]] /\ \A p \in Peers : IsControl(control[p])
  /\ accepted \in [Peers -> Nat] /\ ended \in [Peers -> BOOLEAN]
  /\ delivered = [p \in Peers |-> delivered[p]]

\* How many messages p's caller was handed.
Got(p) == Len(delivered[p])

\* p keeps the messages the other peer's caller may lack.
Sending(p) ==
  \E lo \in 0 .. accepted[p] :
     /\ Window(control[p].outbound, accepted[p], lo)
     /\ ended[Other(p)] \/ lo <= Got(Other(p))

\* Unless its loop has ended, p's channel is where p's caller is.
Receiving(p) == ended[p] \/ Inbound(control[p].inbound, Got(p), accepted[Other(p)])

\* p's caller was handed the other peer's first messages.
Handed(p) ==
  /\ Got(p) \in Nat /\ Got(p) <= accepted[Other(p)]
  /\ delivered[p] = Run(0, Got(p))

\* A datagram carries an accepted message, or the acknowledgement of one that
\* was delivered.
Carried(record) ==
  /\ record.to \in Peers
  /\ \/ /\ record.frame = DataFrame(Wrap(record.index - 1), None, record.index)
        /\ record.index \in 1 .. accepted[Other(record.to)]
     \/ /\ record.frame = AckFrame(Wrap(record.index - 1))
        /\ record.index \in 1 .. accepted[record.to]
        /\ ended[Other(record.to)] \/ record.index <= Got(Other(record.to))

ControlInv ==
  /\ Types
  /\ \A p \in Peers : Sending(p) /\ Receiving(p) /\ Handed(p)
  /\ \A record \in DOMAIN wire : Carried(record)

\* A channel whose peer accepts more messages.
LEMMA InboundGrows ==
  ASSUME NEW ch, NEW r \in Nat, NEW a \in Nat, NEW b \in Nat, a <= b, Inbound(ch, r, a)
  PROVE  Inbound(ch, r, b)
<1>1. r + 2 .. a \subseteq r + 2 .. b
  OBVIOUS
<1>2. \A s \in DOMAIN ch.waiting : \E n \in r + 2 .. b : s = Wrap(n - 1) /\ ch.waiting[s] = n
  BY <1>1 DEF Inbound
<1> QED BY <1>2 DEF Inbound

\* A datagram stays what it is: nothing is unsaid, neither by a peer that has
\* accepted or been handed more nor by one whose loop has ended.
LEMMA CarriedStays ==
  ASSUME Types, Types', NEW record, Carried(record),
         \A p \in Peers : /\ accepted[p] <= accepted'[p] /\ Got(p) \in Nat /\ Got(p)' \in Nat
                          /\ Got(p) <= Got(p)' /\ (ended[p] => ended'[p])
  PROVE  Carried(record)'
<1> DEFINE q == record.to
           o == Other(record.to)
           k == record.index
<1>1. q \in Peers /\ o \in Peers
  BY OtherPeer DEF Carried
<1>2. /\ accepted[q] \in Nat /\ accepted'[q] \in Nat /\ accepted[q] <= accepted'[q]
      /\ accepted[o] \in Nat /\ accepted'[o] \in Nat /\ accepted[o] <= accepted'[o]
      /\ Got(o) \in Nat /\ Got(o)' \in Nat /\ Got(o) <= Got(o)' /\ (ended[o] => ended'[o])
  BY <1>1 DEF Types
<1>3. CASE k \in 1 .. accepted[o] /\ record.frame = DataFrame(Wrap(k - 1), None, k)
  <2>1. k \in 1 .. accepted'[o]
    BY <1>2, <1>3
  <2> QED BY <1>1, <1>3, <2>1 DEF Carried
<1>4. CASE /\ k \in 1 .. accepted[q] /\ record.frame = AckFrame(Wrap(k - 1))
           /\ ended[o] \/ k <= Got(o)
  <2>1. k \in 1 .. accepted'[q] /\ (ended'[o] \/ k <= Got(o)')
    BY <1>2, <1>4
  <2> QED BY <1>1, <1>4, <2>1 DEF Carried
<1> QED BY <1>3, <1>4 DEF Carried

\* The other peer is where it was.
Aside(p) ==
  LET q == Other(p)
  IN  /\ control'[q] = control[q] /\ accepted'[q] = accepted[q]
      /\ delivered'[q] = delivered[q] /\ ended'[q] = ended[q]

\* p has gone on and taken nothing back.
Onward(p) ==
  /\ accepted[p] <= accepted'[p] /\ Got(p) <= Got(p)' /\ (ended[p] => ended'[p])

\* What a step of one peer has to keep for both directions to be right.
LEMMA PeerStep ==
  ASSUME ControlInv, NEW p \in Peers, Types', Aside(p), Onward(p),
         Sending(p)', Receiving(p)', Handed(p)',
         \A record \in DOMAIN wire' : record \in DOMAIN wire \/ Carried(record)'
  PROVE  ControlInv'
<1> DEFINE q == Other(p)
<1>1. q \in Peers /\ Other(q) = p /\ \A o \in Peers : o = p \/ o = q
  BY OtherPeer DEF Other, Peers
<1>2. /\ control'[q] = control[q] /\ accepted'[q] = accepted[q]
      /\ delivered'[q] = delivered[q] /\ ended'[q] = ended[q]
  BY DEF Aside
<1>3. Got(q)' = Got(q)
  BY <1>2 DEF Got
<1>4. /\ accepted[p] \in Nat /\ accepted'[p] \in Nat /\ accepted[p] <= accepted'[p]
      /\ Got(p) \in Nat /\ Got(p)' \in Nat /\ Got(p) <= Got(p)' /\ (ended[p] => ended'[p])
      /\ Got(q) \in Nat /\ accepted[q] \in Nat
  BY <1>1 DEF ControlInv, Types, Handed, Onward
<1> HIDE DEF q
<1>5. Sending(q)'
  <2>1. PICK lo \in 0 .. accepted[q] : /\ Window(control[q].outbound, accepted[q], lo)
                                       /\ ended[p] \/ lo <= Got(p)
    BY <1>1 DEF ControlInv, Sending
  <2>2. ended'[p] \/ lo <= Got(p)'
    BY <1>4, <2>1
  <2>3. lo \in 0 .. accepted'[q] /\ Window(control'[q].outbound, accepted'[q], lo)
    BY <1>2, <2>1, Zenon
  <2>4. ended'[Other(q)] \/ lo <= Got(Other(q))'
    BY <1>1, <2>2
  <2> QED BY <2>3, <2>4 DEF Sending
<1>6. Receiving(q)'
  <2>1. ended[q] \/ Inbound(control[q].inbound, Got(q), accepted[p])
    BY <1>1 DEF ControlInv, Receiving
  <2>2. ended[q] \/ Inbound(control[q].inbound, Got(q), accepted'[p])
    BY <1>4, <2>1, InboundGrows
  <2> QED BY <1>1, <1>2, <1>3, <2>2 DEF Receiving
<1>7. Handed(q)'
  <2>1. Got(q) <= accepted[p] /\ delivered[q] = Run(0, Got(q))
    BY <1>1 DEF ControlInv, Handed
  <2>2. Got(q)' \in Nat /\ Got(q)' <= accepted'[p] /\ delivered'[q] = Run(0, Got(q)')
    BY <1>2, <1>3, <1>4, <2>1
  <2> QED BY <1>1, <2>2 DEF Handed
<1>8. \A o \in Peers : /\ accepted[o] <= accepted'[o] /\ Got(o) \in Nat /\ Got(o)' \in Nat
                       /\ Got(o) <= Got(o)' /\ (ended[o] => ended'[o])
  <2>1. /\ accepted[q] <= accepted'[q] /\ Got(q) \in Nat /\ Got(q)' \in Nat
        /\ Got(q) <= Got(q)' /\ (ended[q] => ended'[q])
    BY <1>2, <1>3, <1>4
  <2> QED BY <1>1, <1>4, <2>1
<1>9. ASSUME NEW record \in DOMAIN wire' PROVE Carried(record)'
  <2>1. CASE record \in DOMAIN wire
    <3>1. Carried(record)
      BY <2>1 DEF ControlInv
    <3> QED BY <1>8, <3>1, CarriedStays DEF ControlInv
  <2> QED BY <2>1
<1>10. \A o \in Peers : Sending(o)' /\ Receiving(o)' /\ Handed(o)'
  BY <1>1, <1>5, <1>6, <1>7
<1> QED BY <1>9, <1>10 DEF ControlInv

-----------------------------------------------------------------------------
(* The steps *)

\* What p may put on the wire when its caller has got messages.
Sendable(p, frame, got) ==
  \/ \E n \in 1 .. accepted[p] : frame = DataFrame(Wrap(n - 1), None, n)
  \/ /\ frame = AckFrame(Wrap(got - 1)) /\ got \in 1 .. accepted[Other(p)]
     /\ ended[p] \/ got <= Got(p)

\* A frame p may send is a datagram the other peer may receive.
LEMMA SendableCarried ==
  ASSUME NEW p \in Peers, NEW frame, NEW got, Sendable(p, frame, got)
  PROVE  Carried(InFlight(p, frame, got))
<1> DEFINE record == InFlight(p, frame, got)
<1>1. record.to = Other(p) /\ record.frame = frame
      /\ record.index = IF frame.ackOnly THEN got ELSE frame.payload
  BY DEF InFlight
<1>2. Other(p) \in Peers /\ Other(Other(p)) = p
  BY OtherPeer
<1> HIDE DEF record
<1>3. CASE \E n \in 1 .. accepted[p] : frame = DataFrame(Wrap(n - 1), None, n)
  <2>1. PICK n \in 1 .. accepted[p] : frame = DataFrame(Wrap(n - 1), None, n)
    BY <1>3
  <2>2. frame.ackOnly = FALSE /\ frame.payload = n
    BY <2>1 DEF DataFrame
  <2>3. record.index = n
    BY <1>1, <2>2
  <2>4. Carried(record)
    BY <1>1, <1>2, <2>1, <2>3 DEF Carried
  <2> QED BY <2>4 DEF record
<1>4. CASE /\ frame = AckFrame(Wrap(got - 1)) /\ got \in 1 .. accepted[Other(p)]
           /\ ended[p] \/ got <= Got(p)
  <2>1. frame.ackOnly = TRUE
    BY <1>4 DEF AckFrame
  <2>2. record.index = got
    BY <1>1, <2>1
  <2>3. Carried(record)
    BY <1>1, <1>2, <1>4, <2>2 DEF Carried
  <2> QED BY <2>3 DEF record
<1> QED BY <1>3, <1>4 DEF Sendable

\* The same for every peer, frame and caller ...
Handover == \A p \in Peers : \A frame, got : Sendable(p, frame, got) => Carried(InFlight(p, frame, got))

LEMMA HandoverHolds == Handover
BY SendableCarried DEF Handover

\* ... and so in the state after a step.
LEMMA HandoverNext == Handover'
BY HandoverHolds, PTL

\* A call adds the records of its frames to the wire.
LEMMA TransmitAdds ==
  ASSUME NEW p \in Peers, NEW b, NEW frames, NEW got, wire' = Transmit(p, b, frames, got),
         DOMAIN b \subseteq DOMAIN wire, \A frame \in frames : Sendable(p, frame, got)'
  PROVE  \A record \in DOMAIN wire' : record \in DOMAIN wire \/ Carried(record)'
<1>1. DOMAIN wire' = DOMAIN b \cup {InFlight(p, f, got) : f \in frames}
  BY DEF Transmit, AddCopies
<1>2. \A f \in frames : Carried(InFlight(p, f, got))'
  BY HandoverNext DEF Handover
<1> QED BY <1>1, <1>2

\* An arrival takes a record off the wire.
LEMMA RemoveCopyDomain ==
  ASSUME NEW b, NEW record
  PROVE  DOMAIN RemoveCopy(b, record) \subseteq DOMAIN b
BY DEF RemoveCopy

\* A step that gives p a new control, count, sequence and end, and no one else.
Steps(p, c, a, d, e) ==
  /\ IsControl(c) /\ a \in Nat /\ e \in BOOLEAN
  /\ control' = [control EXCEPT ![p] = c] /\ accepted' = [accepted EXCEPT ![p] = a]
  /\ delivered' = [delivered EXCEPT ![p] = d] /\ ended' = [ended EXCEPT ![p] = e]

\* The fields of the state after a step of p.
LEMMA Stepped ==
  ASSUME Types, NEW p \in Peers, NEW c, NEW a, NEW d, NEW e, Steps(p, c, a, d, e)
  PROVE  /\ Types' /\ Aside(p)
         /\ control'[p] = c /\ accepted'[p] = a /\ delivered'[p] = d /\ ended'[p] = e
<1> USE DEF Steps
<1> DEFINE q == Other(p)
<1>1. q \in Peers /\ q # p /\ \A o \in Peers : o = p \/ o = q
  BY OtherPeer DEF Other, Peers
<1> HIDE DEF q
<1>2. /\ control'[p] = c /\ control'[q] = control[q] /\ control' = [o \in Peers |-> control'[o]]
  BY <1>1 DEF Types
<1>3. accepted'[p] = a /\ accepted'[q] = accepted[q] /\ accepted' \in [Peers -> Nat]
  BY <1>1 DEF Types
<1>4. ended'[p] = e /\ ended'[q] = ended[q] /\ ended' \in [Peers -> BOOLEAN]
  BY <1>1 DEF Types
<1>5. delivered'[p] = d /\ delivered'[q] = delivered[q] /\ delivered' = [o \in Peers |-> delivered'[o]]
  BY <1>1 DEF Types
<1>6. \A o \in Peers : IsControl(control'[o])
  BY <1>1, <1>2 DEF Types
<1>7. Types'
  BY <1>2, <1>3, <1>4, <1>5, <1>6 DEF Types
<1>8. Aside(p)
  BY <1>2, <1>3, <1>4, <1>5 DEF Aside, q
<1> QED BY <1>2, <1>3, <1>4, <1>5, <1>7, <1>8

\* Leaving a peer's entry alone is replacing it by itself.
LEMMA Same ==
  ASSUME Types, NEW p \in Peers
  PROVE  /\ control = [control EXCEPT ![p] = control[p]]
         /\ accepted = [accepted EXCEPT ![p] = accepted[p]]
         /\ delivered = [delivered EXCEPT ![p] = delivered[p]]
         /\ ended = [ended EXCEPT ![p] = ended[p]]
<1>1. control = [control EXCEPT ![p] = control[p]]
  BY DEF Types
<1>2. accepted = [accepted EXCEPT ![p] = accepted[p]]
  BY DEF Types
<1>3. delivered = [delivered EXCEPT ![p] = delivered[p]]
  BY DEF Types
<1>4. ended = [ended EXCEPT ![p] = ended[p]]
  BY DEF Types
<1> QED BY <1>1, <1>2, <1>3, <1>4

\* A state in which one peer went on as the invariant asks.
Advanced(p) ==
  Types' /\ Aside(p) /\ Onward(p) /\ Sending(p)' /\ Receiving(p)' /\ Handed(p)'

\* What send does, whether its transmission fails or not.
LEMMA SendAdvances ==
  ASSUME ControlInv, NEW p \in Peers, NEW e \in BOOLEAN, ended[p] => e,
         LET r == Send(control[p], accepted[p] + 1)
         IN  /\ control' = [control EXCEPT ![p] = r.control]
             /\ accepted' = [accepted EXCEPT ![p] = IF r.accepted THEN @ + 1 ELSE @],
         delivered' = delivered, ended' = [ended EXCEPT ![p] = e]
  PROVE  /\ Advanced(p)
         /\ \A frame \in Send(control[p], accepted[p] + 1).frames : Sendable(p, frame, Got(p))'
<1> DEFINE r == Send(control[p], accepted[p] + 1)
           a == accepted[p]
           b == IF r.accepted THEN a + 1 ELSE a
           q == Other(p)
<1>1. PICK lo \in 0 .. a : Window(control[p].outbound, a, lo) /\ (ended[q] \/ lo <= Got(q))
  BY DEF ControlInv, Sending
<1>2. a \in Nat /\ IsControl(control[p]) /\ Types /\ q \in Peers /\ Handed(p) /\ Receiving(p)
  BY OtherPeer DEF ControlInv, Types
<1>3. /\ IsControl(r.control) /\ Window(r.control.outbound, b, lo)
      /\ r.control.inbound = control[p].inbound /\ CarryAccepted(r.frames, b)
  BY <1>1, <1>2, SendMoves
<1>4. control' = [control EXCEPT ![p] = r.control]
      /\ accepted' = [accepted EXCEPT ![p] = b]
  BY <1>2 DEF Types
<1> HIDE DEF r
<1>5. b \in Nat /\ a <= b
  BY <1>2
<1> HIDE DEF b, a, q
<1>6. delivered' = [delivered EXCEPT ![p] = delivered[p]]
  BY <1>2, Same
<1>7. /\ Types' /\ Aside(p) /\ control'[p] = r.control /\ accepted'[p] = b
      /\ delivered'[p] = delivered[p] /\ ended'[p] = e
  <2>1. Steps(p, r.control, b, delivered[p], e)
    BY <1>3, <1>4, <1>5, <1>6 DEF Steps
  <2> QED BY <1>2, <2>1, Stepped
<1>8. Got(p)' = Got(p) /\ Got(q)' = Got(q) /\ ended'[q] = ended[q] /\ accepted'[q] = accepted[q]
  BY <1>7 DEF Got, Aside, q
<1>9. Onward(p)
  BY <1>2, <1>5, <1>7, <1>8 DEF Onward, Handed, a
<1>10. Sending(p)'
  <2>1. lo \in 0 .. b
    BY <1>1, <1>2, <1>5
  <2> QED BY <1>1, <1>3, <1>7, <1>8, <2>1 DEF Sending, q
<1>11. Receiving(p)'
  BY <1>2, <1>3, <1>7, <1>8 DEF Receiving, q
<1>12. Handed(p)'
  BY <1>2, <1>7, <1>8 DEF Handed, q
<1>13. ASSUME NEW frame \in r.frames PROVE Sendable(p, frame, Got(p))'
  BY <1>3, <1>7 DEF CarryAccepted, Sendable
<1> QED BY <1>7, <1>9, <1>10, <1>11, <1>12, <1>13 DEF Advanced, r, a

\* ReliableControl::send.
LEMMA SendMessageKeeps ==
  ASSUME ControlInv, NEW p \in Peers, SendMessage(p)
  PROVE  ControlInv'
<1> DEFINE frames == Send(control[p], accepted[p] + 1).frames
<1>1. ended' = [ended EXCEPT ![p] = ended[p]] /\ ended[p] \in BOOLEAN
  BY Same DEF ControlInv, SendMessage, Types
<1>2. /\ LET r == Send(control[p], accepted[p] + 1)
         IN  /\ control' = [control EXCEPT ![p] = r.control]
             /\ accepted' = [accepted EXCEPT ![p] = IF r.accepted THEN @ + 1 ELSE @]
      /\ delivered' = delivered
      /\ wire' = Transmit(p, wire, frames, Got(p))
  BY DEF SendMessage, Got
<1>3. Advanced(p) /\ \A frame \in frames : Sendable(p, frame, Got(p))'
  BY <1>1, <1>2, SendAdvances
<1>4. Got(p)' = Got(p)
  BY <1>2 DEF Got
<1> HIDE DEF frames
<1>5. wire' = Transmit(p, wire, frames, Got(p)')
  BY <1>2, <1>4
<1>6. \A record \in DOMAIN wire' : record \in DOMAIN wire \/ Carried(record)'
  BY <1>3, <1>5, TransmitAdds
<1> QED BY <1>3, <1>6, PeerStep DEF Advanced

\* A send whose transmission fails.
LEMMA SendFailsKeeps ==
  ASSUME ControlInv, NEW p \in Peers, SendFails(p)
  PROVE  ControlInv'
<1>1. /\ LET r == Send(control[p], accepted[p] + 1)
         IN  /\ control' = [control EXCEPT ![p] = r.control]
             /\ accepted' = [accepted EXCEPT ![p] = IF r.accepted THEN @ + 1 ELSE @]
      /\ delivered' = delivered /\ ended' = [ended EXCEPT ![p] = TRUE] /\ wire' = wire
  BY DEF SendFails
<1>2. Advanced(p)
  BY <1>1, SendAdvances
<1> QED BY <1>1, <1>2, PeerStep DEF Advanced

\* ReliableControl::retry.
LEMMA RetryKeeps ==
  ASSUME ControlInv, NEW p \in Peers, Retry(p)
  PROVE  ControlInv'
<1>1. /\ control' = control /\ accepted' = accepted /\ delivered' = delivered /\ ended' = ended
      /\ wire' = Transmit(p, wire, Flush(control[p]), Got(p))
  BY DEF Retry, Got
<1>2. PICK lo \in 0 .. accepted[p] : Window(control[p].outbound, accepted[p], lo)
  BY DEF ControlInv, Sending
<1>3. \A frame \in Flush(control[p]) : Sendable(p, frame, Got(p))'
  <2>1. CarryAccepted(NextFrame(control[p].outbound), accepted[p])
    BY <1>2, NextFrameIsAccepted DEF CarryAccepted
  <2> QED BY <1>1, <2>1 DEF CarryAccepted, Flush, Sendable
<1>4. Got(p)' = Got(p) /\ Got(Other(p))' = Got(Other(p))
  BY <1>1 DEF Got
<1>5. wire' = Transmit(p, wire, Flush(control[p]), Got(p)')
  BY <1>1, <1>4
<1>6. \A record \in DOMAIN wire' : record \in DOMAIN wire \/ Carried(record)'
  BY <1>3, <1>5, TransmitAdds
<1>7. Types' /\ Aside(p)
  BY <1>1 DEF ControlInv, Types, Aside
<1>8. Sending(p)' /\ Receiving(p)' /\ Handed(p)'
  BY <1>1, <1>4 DEF ControlInv, Sending, Receiving, Handed
<1>9. Onward(p)
  BY <1>1, <1>4 DEF ControlInv, Types, Handed, Onward
<1> QED BY <1>6, <1>7, <1>8, <1>9, PeerStep

\* Every part of the invariant but the wire is as it was.
LEMMA Unmoved ==
  ASSUME ControlInv, UNCHANGED <<control, accepted, delivered, ended>>,
         DOMAIN wire' \subseteq DOMAIN wire
  PROVE  ControlInv'
<1>1. \A p \in Peers : Got(p)' = Got(p)
  BY DEF Got
<1>2. Types'
  BY DEF ControlInv, Types
<1>3. ASSUME NEW p \in Peers PROVE Sending(p)' /\ Receiving(p)' /\ Handed(p)'
  BY <1>1, OtherPeer DEF ControlInv, Sending, Receiving, Handed
<1>4. ASSUME NEW record \in DOMAIN wire' PROVE Carried(record)'
  <2>1. Carried(record) /\ record.to \in Peers
    BY DEF ControlInv, Carried
  <2>2. Got(Other(record.to))' = Got(Other(record.to))
    BY <1>1, <2>1, OtherPeer
  <2> QED BY <2>1, <2>2 DEF Carried
<1> QED BY <1>2, <1>3, <1>4 DEF ControlInv

\* A datagram is lost.
LEMMA LoseKeeps ==
  ASSUME ControlInv, NEW record, Lose(record)
  PROVE  ControlInv'
<1>1. wire' = RemoveCopy(wire, record) /\ UNCHANGED <<control, accepted, delivered, ended>>
  BY DEF Lose
<1>2. DOMAIN wire' \subseteq DOMAIN wire
  BY <1>1, RemoveCopyDomain
<1> QED BY <1>1, <1>2, Unmoved

\* What receive makes of a datagram, in a loop that has not ended: an
\* acknowledgement names a message the other caller has, data is within a window
\* of what this one expects.
LEMMA ReceiveSettles ==
  ASSUME ControlInv, NEW p \in Peers, NEW record \in DOMAIN wire, ~ended[p], record.to = p,
         Fresh(record)
  PROVE  \E lo \in 0 .. accepted[p] :
            /\ Settled(ReceiveControl(control[p], record.frame), accepted[p], lo, Got(p), accepted[Other(p)])
            /\ ended[Other(p)] \/ lo <= Got(Other(p))
<1> DEFINE q == Other(p)
           a == accepted[p]
           b == accepted[q]
           r == Got(p)
           n == record.index
<1>1. q \in Peers /\ Other(q) = p
  BY OtherPeer
<1>2. /\ Sending(p) /\ Sending(q) /\ Receiving(p) /\ Handed(p) /\ Handed(q) /\ Carried(record)
      /\ IsControl(control[p]) /\ a \in Nat /\ b \in Nat
  BY <1>1 DEF ControlInv, Types
<1>3. r \in Nat /\ r <= b /\ Inbound(control[p].inbound, r, b)
  BY <1>2 DEF Receiving, Handed
<1>4. PICK lo \in 0 .. a : Window(control[p].outbound, a, lo) /\ (ended[q] \/ lo <= Got(q))
  BY <1>2 DEF Sending
<1>5. b <= r + MaxPending
  <2>1. PICK low \in 0 .. b : Window(control[q].outbound, b, low) /\ low <= r
    BY <1>1, <1>2 DEF Sending
  <2>2. b - low <= MaxPending
    BY <2>1 DEF Window
  <2> QED BY <1>2, <1>3, <2>1, <2>2, Space
<1>6. CASE record.frame = DataFrame(Wrap(n - 1), None, n) /\ n \in 1 .. b
  <2>1. r + 1 - n < HalfSpace
    <3>1. ~record.frame.ackOnly
      BY <1>6 DEF DataFrame
    <3> QED BY <3>1 DEF Fresh, Got
  <2> HIDE DEF q, a, b, r, n
  <2>2. Settled(ReceiveControl(control[p], record.frame), a, lo, r, b)
    BY <1>2, <1>3, <1>4, <1>5, <1>6, <2>1, ReceiveControlData
  <2> QED BY <1>4, <2>2 DEF q, a, b, r
<1>7. CASE /\ record.frame = AckFrame(Wrap(n - 1)) /\ n \in 1 .. a
           /\ ended[q] \/ n <= Got(q)
  <2>1. a - n <= HalfSpace
    <3>1. record.frame.ackOnly
      BY <1>7 DEF AckFrame
    <3> QED BY <3>1 DEF Fresh
  <2> HIDE DEF q, a, b, r, n
  <2>2. Settled(ReceiveControl(control[p], record.frame), a, Later(lo, n), r, b)
    BY <1>2, <1>3, <1>4, <1>7, <2>1, ReceiveControlAck
  <2>3. Later(lo, n) \in 0 .. a /\ (ended[q] \/ Later(lo, n) <= Got(q))
    BY <1>2, <1>4, <1>7 DEF Later
  <2> QED BY <2>2, <2>3 DEF q, a, b, r
<1> QED BY <1>2, <1>6, <1>7 DEF Carried

\* What a call of receive leaves and transmits, as far as both outcomes share it:
\* g is where its channel has got to.
LEMMA ReceiveAdvances ==
  ASSUME ControlInv, NEW p \in Peers, NEW record \in DOMAIN wire, ~ended[p], record.to = p,
         Fresh(record)
  PROVE  \E g \in Nat :
            LET res == ReceiveControl(control[p], record.frame)
            IN  /\ IsControl(res.control) /\ Got(p) <= g /\ g <= accepted[Other(p)]
                /\ delivered[p] \o res.delivered = Run(0, g)
                /\ Len(delivered[p] \o res.delivered) = g
                /\ Inbound(res.control.inbound, g, accepted[Other(p)])
                /\ CarryAccepted(res.frames, accepted[p])
                /\ \A frame \in res.acks : g # 0 /\ frame = AckFrame(Wrap(g - 1))
                /\ \E lo \in 0 .. accepted[p] :
                      /\ Window(res.control.outbound, accepted[p], lo)
                      /\ ended[Other(p)] \/ lo <= Got(Other(p))
<1> DEFINE res == ReceiveControl(control[p], record.frame)
           a == accepted[p]
           b == accepted[Other(p)]
           r == Got(p)
<1>1. PICK lo \in 0 .. a : Settled(res, a, lo, r, b) /\ (ended[Other(p)] \/ lo <= Got(Other(p)))
  BY ReceiveSettles
<1> HIDE DEF res
<1>2. PICK m \in 0 .. b - r :
        /\ res.delivered = Run(r, m) /\ Inbound(res.control.inbound, r + m, b)
        /\ \A frame \in res.acks : r + m # 0 /\ frame = AckFrame(Wrap(r + m - 1))
  BY <1>1 DEF Settled
<1>3. r \in Nat /\ r <= b /\ b \in Nat /\ delivered[p] = Run(0, r)
  BY OtherPeer DEF ControlInv, Types, Handed
<1> HIDE DEF a, b, r
<1>4. PICK g \in Nat : g = r + m
  BY <1>2, <1>3
<1>5. r <= g /\ g <= b
  BY <1>2, <1>3, <1>4
<1>6. delivered[p] \o res.delivered = Run(0, g)
  <2> HIDE DEF Run
  <2>1. Run(0, r) \o Run(0 + r, m) = Run(0, r + m)
    <3>1. m \in Nat
      BY <1>3
    <3> QED BY <1>3, <3>1, RunContinues
  <2>2. 0 + r = r
    BY <1>3
  <2> QED BY <1>2, <1>3, <1>4, <2>1, <2>2
<1>7. Len(Run(0, g)) = g
  BY DEF Run
<1>8. /\ IsControl(res.control) /\ Window(res.control.outbound, a, lo)
      /\ CarryAccepted(res.frames, a)
  BY <1>1 DEF Settled
<1>9. /\ Inbound(res.control.inbound, g, b)
      /\ \A frame \in res.acks : g # 0 /\ frame = AckFrame(Wrap(g - 1))
  <2>1. r + m = g
    BY <1>4
  <2>2. Inbound(res.control.inbound, g, b)
    BY <1>2, <2>1, Zenon
  <2>3. ASSUME NEW frame \in res.acks
        PROVE  g # 0 /\ frame = AckFrame(Wrap(g - 1))
    <3>1. r + m # 0 /\ frame = AckFrame(Wrap(r + m - 1))
      BY <1>2
    <3>2. g # 0 /\ r + m - 1 = g - 1
      BY <1>3, <2>1, <3>1
    <3> QED BY <3>1, <3>2, Zenon
  <2> QED BY <2>2, <2>3
<1>10. Len(delivered[p] \o res.delivered) = g
  BY <1>6, <1>7
<1>11. \E low \in 0 .. a : Window(res.control.outbound, a, low) /\ (ended[Other(p)] \/ low <= Got(Other(p)))
  BY <1>1, <1>8
<1> QED BY <1>5, <1>6, <1>8, <1>9, <1>10, <1>11 DEF res, a, b, r

\* ReliableControl::receive.
LEMMA ReceiveFrameKeeps ==
  ASSUME ControlInv, NEW p \in Peers, NEW record \in DOMAIN wire, ReceiveFrame(p, record)
  PROVE  ControlInv'
<1> DEFINE res == ReceiveControl(control[p], record.frame)
           q == Other(p)
<1>1. ~ended[p] /\ record.to = p /\ Fresh(record)
  BY DEF ReceiveFrame
<1>2. PICK g \in Nat :
        /\ IsControl(res.control) /\ Got(p) <= g /\ g <= accepted[q]
        /\ delivered[p] \o res.delivered = Run(0, g)
        /\ Len(delivered[p] \o res.delivered) = g
        /\ Inbound(res.control.inbound, g, accepted[q])
        /\ CarryAccepted(res.frames, accepted[p])
        /\ \A frame \in res.acks : g # 0 /\ frame = AckFrame(Wrap(g - 1))
        /\ \E lo \in 0 .. accepted[p] :
              /\ Window(res.control.outbound, accepted[p], lo)
              /\ ended[q] \/ lo <= Got(q)
  BY <1>1, ReceiveAdvances
<1>3. /\ Types /\ accepted[p] \in Nat /\ ended[p] \in BOOLEAN /\ Got(p) \in Nat
      /\ q \in Peers /\ accepted[q] \in Nat /\ Got(q) \in Nat
  BY OtherPeer DEF ControlInv, Types, Handed
<1>4. /\ control' = [control EXCEPT ![p] = res.control]
      /\ delivered' = [delivered EXCEPT ![p] = delivered[p] \o res.delivered]
      /\ accepted' = accepted /\ ended' = ended
      /\ wire' = Transmit(p, RemoveCopy(wire, record), res.acks \cup res.frames, Got(p)')
  BY DEF ReceiveFrame, Got
<1> HIDE DEF res
<1>5. Steps(p, res.control, accepted[p], Run(0, g), ended[p])
  <2>1. accepted' = [accepted EXCEPT ![p] = accepted[p]] /\ ended' = [ended EXCEPT ![p] = ended[p]]
    BY <1>3, <1>4, Same
  <2> QED BY <1>2, <1>3, <1>4, <2>1 DEF Steps
<1>6. /\ Types' /\ Aside(p) /\ control'[p] = res.control /\ accepted'[p] = accepted[p]
      /\ delivered'[p] = Run(0, g) /\ ended'[p] = ended[p]
  BY <1>3, <1>5, Stepped
<1>7. Got(p)' = g
  BY <1>2, <1>6 DEF Got
<1>8. Got(q)' = Got(q) /\ ended'[q] = ended[q] /\ accepted'[q] = accepted[q]
  BY <1>6 DEF Got, Aside
<1> HIDE DEF q
<1>9. Onward(p)
  BY <1>2, <1>3, <1>6, <1>7 DEF Onward
<1>10. Sending(p)' /\ Receiving(p)' /\ Handed(p)'
  BY <1>2, <1>6, <1>7, <1>8 DEF Sending, Receiving, Handed, q
<1>11. ASSUME NEW frame \in res.acks \cup res.frames PROVE Sendable(p, frame, g)'
  <2>1. CASE frame \in res.acks
    <3>1. frame = AckFrame(Wrap(g - 1)) /\ g \in 1 .. accepted'[q] /\ g <= Got(p)'
      BY <1>2, <1>3, <1>7, <1>8, <2>1
    <3> QED BY <3>1 DEF Sendable, q
  <2>2. CASE frame \in res.frames
    BY <1>2, <1>6, <2>2 DEF CarryAccepted, Sendable
  <2> QED BY <1>11, <2>1, <2>2
<1>12. \A rec \in DOMAIN wire' : rec \in DOMAIN wire \/ Carried(rec)'
  <2>1. wire' = Transmit(p, RemoveCopy(wire, record), res.acks \cup res.frames, g)
    BY <1>4, <1>7
  <2> QED BY <1>11, <2>1, RemoveCopyDomain, TransmitAdds
<1> QED BY <1>6, <1>9, <1>10, <1>12, PeerStep

\* A receive whose transmission fails.
LEMMA ReceiveFailsKeeps ==
  ASSUME ControlInv, NEW p \in Peers, NEW record \in DOMAIN wire, ReceiveFails(p, record)
  PROVE  ControlInv'
<1> DEFINE res == ReceiveControl(control[p], record.frame)
           q == Other(p)
<1>1. ~ended[p] /\ record.to = p /\ Fresh(record)
  BY DEF ReceiveFails
<1>2. PICK g \in Nat :
        /\ IsControl(res.control) /\ g <= accepted[q]
        /\ Len(delivered[p] \o res.delivered) = g
        /\ \A frame \in res.acks : g # 0 /\ frame = AckFrame(Wrap(g - 1))
        /\ \E lo \in 0 .. accepted[p] :
              /\ Window(res.control.outbound, accepted[p], lo)
              /\ ended[q] \/ lo <= Got(q)
  BY <1>1, ReceiveAdvances
<1>3. /\ Types /\ accepted[p] \in Nat /\ Got(p) \in Nat /\ Handed(p)
      /\ q \in Peers /\ accepted[q] \in Nat /\ Got(q) \in Nat
  BY OtherPeer DEF ControlInv, Types, Handed
<1>4. /\ control' = [control EXCEPT ![p] = res.control] /\ ended' = [ended EXCEPT ![p] = TRUE]
      /\ accepted' = accepted /\ delivered' = delivered
      /\ \E emitted \in {{}, res.acks} :
           wire' = Transmit(p, RemoveCopy(wire, record), emitted, Len(delivered[p] \o res.delivered))
  BY DEF ReceiveFails
<1> HIDE DEF res
<1>5. Steps(p, res.control, accepted[p], delivered[p], TRUE)
  <2>1. accepted' = [accepted EXCEPT ![p] = accepted[p]]
        /\ delivered' = [delivered EXCEPT ![p] = delivered[p]]
    BY <1>3, <1>4, Same
  <2> QED BY <1>2, <1>3, <1>4, <2>1 DEF Steps
<1>6. /\ Types' /\ Aside(p) /\ control'[p] = res.control /\ accepted'[p] = accepted[p]
      /\ delivered'[p] = delivered[p] /\ ended'[p] = TRUE
  BY <1>3, <1>5, Stepped
<1>7. Got(p)' = Got(p)
  BY <1>6 DEF Got
<1>8. Got(q)' = Got(q) /\ ended'[q] = ended[q] /\ accepted'[q] = accepted[q]
  BY <1>6 DEF Got, Aside
<1> HIDE DEF q
<1>9. Onward(p)
  BY <1>3, <1>6, <1>7 DEF Onward
<1>10. Sending(p)' /\ Receiving(p)' /\ Handed(p)'
  BY <1>2, <1>3, <1>6, <1>7, <1>8 DEF Sending, Receiving, Handed, q
<1>11. PICK emitted \in {{}, res.acks} : wire' = Transmit(p, RemoveCopy(wire, record), emitted, g)
  BY <1>2, <1>4
<1>12. ASSUME NEW frame \in emitted PROVE Sendable(p, frame, g)'
  <2>1. frame \in res.acks
    BY <1>11, <1>12
  <2>2. frame = AckFrame(Wrap(g - 1)) /\ g \in 1 .. accepted'[q] /\ ended'[p]
    BY <1>2, <1>3, <1>6, <1>8, <2>1
  <2> QED BY <2>2 DEF Sendable, q
<1>13. \A rec \in DOMAIN wire' : rec \in DOMAIN wire \/ Carried(rec)'
  BY <1>11, <1>12, RemoveCopyDomain, TransmitAdds
<1> QED BY <1>6, <1>9, <1>10, <1>13, PeerStep

-----------------------------------------------------------------------------
(* The theorems *)

\* Two fresh channels and an empty wire.
LEMMA InitControlInv == Init => ControlInv
<1> SUFFICES ASSUME Init PROVE ControlInv
  OBVIOUS
<1> DEFINE new == NewChannel
<1>1. 0 \in SequenceNumber /\ Wrap(0) = 0 /\ DOMAIN EmptyMap = {}
  BY Space, ModOfSmall DEF SequenceNumber, EmptyMap, Wrap
<1>2. /\ new.nextSequence = 0 /\ new.expectedSequence = 0 /\ new.pendingAck = None
      /\ new.outstanding = EmptyMap /\ new.waiting = EmptyMap
  BY DEF NewChannel
<1>3. IsChannel(new)
  BY <1>1 DEF IsChannel, NewChannel
<1>4. Window(new, 0, 0)
  BY <1>1, <1>2, Space DEF Window, Numbers
<1>5. Inbound(new, 0, 0)
  BY <1>1, <1>2 DEF Inbound
<1> HIDE DEF new
<1>6. ASSUME NEW p \in Peers
      PROVE  /\ control[p] = [outbound |-> new, inbound |-> new] /\ accepted[p] = 0
             /\ delivered[p] = <<>> /\ ended[p] = FALSE
  BY DEF Init, NewControl, new
<1>7. ASSUME NEW p \in Peers PROVE IsControl(control[p])
  <2>1. control[p].outbound = new /\ control[p].inbound = new
        /\ control[p] \in [outbound : {new}, inbound : {new}]
    <3>1. control[p] = [outbound |-> new, inbound |-> new]
      BY <1>6
    <3> QED BY <3>1
  <2> QED BY <1>3, <2>1 DEF IsControl
<1>8. Types
  BY <1>6, <1>7 DEF Types, Init
<1>9. Run(0, 0) = <<>>
  BY DEF Run
<1>10. ASSUME NEW p \in Peers PROVE Sending(p) /\ Receiving(p) /\ Handed(p)
  <2>1. Other(p) \in Peers
    BY OtherPeer
  <2>2. Got(p) = 0 /\ Got(Other(p)) = 0
    <3>1. Len(<<>>) = 0
      OBVIOUS
    <3>2. delivered[p] = <<>> /\ delivered[Other(p)] = <<>>
      BY <1>6, <2>1
    <3> QED BY <3>1, <3>2 DEF Got
  <2>3. /\ control[p] = [outbound |-> new, inbound |-> new]
        /\ accepted[p] = 0 /\ accepted[Other(p)] = 0
    BY <1>6, <2>1
  <2>4. Sending(p)
    BY <1>4, <2>2, <2>3 DEF Sending
  <2>5. Receiving(p)
    BY <1>5, <2>2, <2>3 DEF Receiving
  <2>6. Handed(p)
    <3>1. delivered[p] = <<>>
      BY <1>6
    <3>2. delivered[p] = Run(0, Got(p))
      BY <1>9, <2>2, <3>1, Zenon
    <3>3. Got(p) \in Nat /\ Got(p) <= accepted[Other(p)]
      BY <2>2, <2>3
    <3> QED BY <3>2, <3>3 DEF Handed
  <2> QED BY <2>4, <2>5, <2>6
<1>11. DOMAIN wire = {}
  BY <1>1 DEF Init
<1> QED BY <1>8, <1>10, <1>11 DEF ControlInv

\* Every step keeps both directions right.
LEMMA NextControlInv == ControlInv /\ [Next]_vars => ControlInv'
<1> SUFFICES ASSUME ControlInv, [Next]_vars PROVE ControlInv'
  OBVIOUS
<1>1. CASE UNCHANGED vars
  BY <1>1, Unmoved DEF vars
<1>2. ASSUME NEW p \in Peers, SendMessage(p) \/ SendIfAvailable(p) \/ Retry(p) \/ SendFails(p)
      PROVE  ControlInv'
  BY <1>2, SendMessageKeeps, RetryKeeps, SendFailsKeeps DEF SendIfAvailable
<1>3. ASSUME NEW record \in DOMAIN wire, Lose(record)
      PROVE  ControlInv'
  BY <1>3, LoseKeeps
<1>4. ASSUME NEW record \in DOMAIN wire, NEW p \in Peers,
             ReceiveFrame(p, record) \/ ReceiveFails(p, record)
      PROVE  ControlInv'
  BY <1>4, ReceiveFrameKeeps, ReceiveFailsKeeps
<1> QED BY <1>1, <1>2, <1>3, <1>4 DEF Next

(***************************************************************************)
(* Both ReliableControl pairs, the datagrams between them and what the     *)
(* callers were handed fit together in every reachable state, for every    *)
(* even sequence space and every max_pending up to half of it.             *)
(***************************************************************************)
THEOREM ControlInvariance == Spec => []ControlInv
BY InitControlInv, NextControlInv, PTL DEF Spec

(***************************************************************************)
(* ReliableControl::receive hands its caller the messages the other peer's *)
(* window accepted, in order, each once and without a gap.                 *)
(***************************************************************************)
THEOREM InOrderDeliveryHolds == Spec => []InOrderDelivery
<1>1. ControlInv => InOrderDelivery
  <2> SUFFICES ASSUME ControlInv, NEW p \in Peers
               PROVE  /\ Len(delivered[p]) <= accepted[Other(p)]
                      /\ \A i \in 1 .. Len(delivered[p]) : delivered[p][i] = i
    BY DEF InOrderDelivery
  <2>1. Got(p) \in Nat /\ Got(p) <= accepted[Other(p)] /\ delivered[p] = Run(0, Got(p))
    BY DEF ControlInv, Handed
  <2>2. \A i \in 1 .. Got(p) : Run(0, Got(p))[i] = i
    BY <2>1 DEF Run
  <2> QED BY <2>1, <2>2 DEF Got
<1> QED BY <1>1, ControlInvariance, PTL

(***************************************************************************)
(* Channel::acknowledge forgets a message only when the other peer's       *)
(* caller has it, unless that peer's loop ended in the middle of receive.  *)
(***************************************************************************)
THEOREM AckedIsDeliveredHolds == Spec => []AckedIsDelivered
<1>1. ControlInv => AckedIsDelivered
  <2> SUFFICES ASSUME ControlInv, NEW p \in Peers, ~ended[Other(p)],
                      NEW n \in (Len(delivered[Other(p)]) + 1) .. accepted[p]
               PROVE  /\ Wrap(n - 1) \in DOMAIN control[p].outbound.outstanding
                      /\ control[p].outbound.outstanding[Wrap(n - 1)] = n
    BY DEF AckedIsDelivered
  <2>1. PICK lo \in 0 .. accepted[p] :
          Window(control[p].outbound, accepted[p], lo) /\ lo <= Got(Other(p))
    BY DEF ControlInv, Sending
  <2>2. Got(Other(p)) \in Nat /\ accepted[p] \in Nat
    BY OtherPeer DEF ControlInv, Handed, Types
  <2>3. n \in lo + 1 .. accepted[p]
    BY <2>1, <2>2 DEF Got
  <2> QED BY <2>1, <2>3 DEF Window, Numbers
<1> QED BY <1>1, ControlInvariance, PTL

-----------------------------------------------------------------------------
(* The capability exchange *)

HelloFrame == Handshake!DataFrame(0, None, Handshake!Hello)

HelloAckFrame == Handshake!DataFrame(0, None, Handshake!HelloAck)

\* A channel, as a record of its own fields.
ChannelRecord(ch) ==
  ch \in [nextSequence : {ch.nextSequence}, expectedSequence : {ch.expectedSequence},
          pendingAck : {ch.pendingAck}, outstanding : {ch.outstanding}, waiting : {ch.waiting}]

\* An outbound channel with nothing to send but message m, its first.
Offers(ch, m) ==
  /\ ChannelRecord(ch)
  /\ ch.pendingAck = None
  /\ \A s \in DOMAIN ch.outstanding : s = 0 /\ ch.outstanding[s] = m

\* An inbound channel that no message has reached.
Untouched(ch) ==
  /\ ChannelRecord(ch)
  /\ ch.expectedSequence = 0
  /\ DOMAIN ch.waiting = {}

\* The phases of a host that has taken the client's HelloAck.
HasTaken == {"Session", "FailedAcking"}

\* Before the host has taken the HelloAck there is nothing in flight but the two
\* messages of the exchange and the client's acknowledgements.
NothingElse(w) ==
  \A r \in DOMAIN w :
     /\ r.to = "Client" => r.frame = HelloFrame
     /\ r.to = "Host" => r.frame.ackOnly \/ r.frame = HelloAckFrame

\* Where the exchange stands before the host has taken the HelloAck.
Before ==
  /\ phase["Client"] # "Session"
  /\ NothingElse(wire)
  /\ phase["Host"] = "Start" => control["Host"] = Handshake!NewControl
  /\ phase["Host"] = "AwaitAck" =>
        Offers(control["Host"].outbound, Handshake!Hello) /\ Untouched(control["Host"].inbound)
  /\ phase["Client"] = "AwaitAck" =>
        /\ Offers(control["Client"].outbound, Handshake!HelloAck)
        /\ DOMAIN control["Client"].outbound.outstanding # {}

\* The inductive invariant of the exchange.
ExchangeInv ==
  /\ phase \in [Peers -> HostPhases \cup ClientPhases]
  /\ control \in [Peers -> {control[p] : p \in Peers}]
  /\ phase["Host"] \in HostPhases \ {"Rejected"}
  /\ phase["Client"] \in ClientPhases \ {"Rejected"}
  /\ phase["Client"] = "AwaitHello" =>
        /\ phase["Host"] \notin HasTaken
        /\ control["Client"] = Handshake!NewControl
        /\ \A r \in DOMAIN wire : r.to # "Host"
  /\ phase["Host"] \notin HasTaken => Before

\* The exchange and the ordered channel have the same peers.
LEMMA ExchangePeers ==
  /\ Handshake!Peers = Peers /\ Peers = {"Host", "Client"}
  /\ Handshake!Other("Host") = "Client" /\ Handshake!Other("Client") = "Host"
  /\ Handshake!HostPhases = HostPhases /\ Handshake!ClientPhases = ClientPhases
BY DEF Handshake!Peers, Peers, Handshake!Other, Handshake!HostPhases, HostPhases,
       Handshake!ClientPhases, ClientPhases

\* What is in flight after a transmission.
LEMMA ExchangeTransmits ==
  ASSUME NEW b, NEW frames
  PROVE  /\ \A x \in DOMAIN Handshake!Transmit("Host", b, frames) :
               x \in DOMAIN b \/ (x.to = "Client" /\ x.frame \in frames)
         /\ \A x \in DOMAIN Handshake!Transmit("Client", b, frames) :
               x \in DOMAIN b \/ (x.to = "Host" /\ x.frame \in frames)
<1> DEFINE sent(q) == {[to |-> q, frame |-> f] : f \in frames}
<1>1. \A q : \A x \in sent(q) : x.to = q /\ x.frame \in frames
  OBVIOUS
<1>2. /\ DOMAIN Handshake!Transmit("Host", b, frames) = DOMAIN b \cup sent("Client")
      /\ DOMAIN Handshake!Transmit("Client", b, frames) = DOMAIN b \cup sent("Host")
  BY ExchangePeers DEF Handshake!Transmit, Handshake!AddCopies
<1> HIDE DEF sent
<1> QED BY <1>1, <1>2

\* An arrival or a loss adds nothing.
LEMMA ExchangeRemoves ==
  ASSUME NEW b, NEW record
  PROVE  DOMAIN Handshake!RemoveCopy(b, record) \subseteq DOMAIN b
BY DEF Handshake!RemoveCopy

\* A new channel offers whatever it is given and nothing has reached it.
LEMMA NewChannelFacts ==
  /\ ChannelRecord(Handshake!NewChannel)
  /\ Handshake!NewChannel.nextSequence = 0
  /\ Handshake!NewChannel.pendingAck = None
  /\ DOMAIN Handshake!NewChannel.outstanding = {}
  /\ Untouched(Handshake!NewChannel)
BY DEF Handshake!NewChannel, Handshake!EmptyMap, ChannelRecord, Untouched

\* An acknowledgement only takes messages out of the window.
LEMMA AcknowledgedKeeps ==
  ASSUME NEW ch, ChannelRecord(ch), NEW frame
  PROVE  LET r == Handshake!AcknowledgeFrom(ch, frame)
         IN  /\ ChannelRecord(r)
             /\ r.expectedSequence = ch.expectedSequence
             /\ r.pendingAck = ch.pendingAck
             /\ r.waiting = ch.waiting
             /\ DOMAIN r.outstanding \subseteq DOMAIN ch.outstanding
             /\ \A s \in DOMAIN r.outstanding : r.outstanding[s] = ch.outstanding[s]
             /\ frame.ack = None => r = ch
<1> DEFINE r == Handshake!AcknowledgeFrom(ch, frame)
           D == {t \in DOMAIN ch.outstanding : ~Handshake!AtOrBefore(t, frame.ack)}
           o == [s \in D |-> ch.outstanding[s]]
<1>1. CASE frame.ack = None
  BY <1>1 DEF Handshake!AcknowledgeFrom
<1>2. CASE frame.ack # None
  <2>1. r = [ch EXCEPT !.outstanding = o]
    BY <1>2 DEF Handshake!AcknowledgeFrom, Handshake!Acknowledge
  <2>2. DOMAIN o \subseteq DOMAIN ch.outstanding /\ \A s \in DOMAIN o : o[s] = ch.outstanding[s]
    OBVIOUS
  <2> HIDE DEF o, r
  <2>3. /\ ChannelRecord(r) /\ r.outstanding = o
        /\ r.expectedSequence = ch.expectedSequence
        /\ r.pendingAck = ch.pendingAck /\ r.waiting = ch.waiting
    BY <2>1 DEF ChannelRecord
  <2> QED BY <1>2, <2>2, <2>3 DEF r
<1> QED BY <1>1, <1>2

\* So it leaves an offer an offer and an untouched channel untouched.
LEMMA AcknowledgedOffers ==
  ASSUME NEW ch, NEW frame
  PROVE  /\ \A m : Offers(ch, m) => Offers(Handshake!AcknowledgeFrom(ch, frame), m)
         /\ Untouched(ch) => Untouched(Handshake!AcknowledgeFrom(ch, frame))
<1> DEFINE r == Handshake!AcknowledgeFrom(ch, frame)
<1>1. ASSUME ChannelRecord(ch)
      PROVE  /\ ChannelRecord(r)
             /\ r.expectedSequence = ch.expectedSequence
             /\ r.pendingAck = ch.pendingAck
             /\ r.waiting = ch.waiting
             /\ DOMAIN r.outstanding \subseteq DOMAIN ch.outstanding
             /\ \A s \in DOMAIN r.outstanding : r.outstanding[s] = ch.outstanding[s]
  BY <1>1, AcknowledgedKeeps
<1> HIDE DEF r
<1>2. Untouched(ch) => Untouched(r)
  BY <1>1 DEF Untouched
<1>3. ASSUME NEW m, Offers(ch, m) PROVE Offers(r, m)
  BY <1>1, <1>3 DEF Offers
<1> QED BY <1>2, <1>3 DEF r

\* The only frame of a channel that offers m.
LEMMA OfferedFrame ==
  ASSUME NEW rc, NEW m, Offers(rc.outbound, m)
  PROVE  Handshake!Flush(rc) \subseteq {Handshake!DataFrame(0, None, m)}
BY DEF Handshake!Flush, Handshake!NextFrame, Offers

\* What a call of receive returns and sends: r is its result.
ReceiveResult(r, rc, frame) ==
  /\ r.control.outbound = Handshake!AcknowledgeFrom(rc.outbound, frame)
  /\ r.control.inbound = Handshake!Receive(rc.inbound, frame).channel
  /\ r.control = [outbound |-> r.control.outbound, inbound |-> r.control.inbound]
  /\ r.delivered = Handshake!Receive(rc.inbound, frame).delivered
  /\ r.frames = Handshake!Flush(r.control)
  /\ \A f \in r.acks : f.ackOnly

\* The acknowledgements a call sends are acknowledgements.
LEMMA AcksAreAcks ==
  ASSUME NEW rc, NEW frame
  PROVE  ReceiveResult(Handshake!ReceiveControl(rc, frame), rc, frame)
BY DEF ReceiveResult, Handshake!ReceiveControl, Handshake!AcknowledgementFrame, Handshake!AckFrame

\* An acknowledgement delivers nothing.
LEMMA AckDeliversNothing ==
  ASSUME NEW ch, NEW frame, frame.ackOnly
  PROVE  /\ Handshake!Receive(ch, frame).delivered = <<>>
         /\ Handshake!Receive(ch, frame).channel = Handshake!AcknowledgeFrom(ch, frame)
<1> DEFINE acked == Handshake!AcknowledgeFrom(ch, frame)
<1>1. Handshake!Receive(ch, frame) = [channel |-> acked, delivered |-> <<>>]
  <2> HIDE DEF acked
  <2> QED BY DEF Handshake!Receive, acked
<1> HIDE DEF acked
<1> QED BY <1>1 DEF acked

\* Nothing is buffered in an untouched channel.
LEMMA NoBufferedRun ==
  ASSUME NEW ch, Untouched(ch)
  PROVE  Handshake!BufferedRun(ch) = 0
<1> DEFINE Gap(n) == /\ \A i \in 1 .. n : Handshake!Wrap(ch.expectedSequence + i) \in DOMAIN ch.waiting
                     /\ \/ n = MaxPending
                        \/ Handshake!Wrap(ch.expectedSequence + n + 1) \notin DOMAIN ch.waiting
<1>1. Handshake!BufferedRun(ch) = CHOOSE n \in 0 .. MaxPending : Gap(n)
  BY DEF Handshake!BufferedRun
<1>2. 0 \in 0 .. MaxPending /\ MaxPending \in Nat
  BY MaxPendingAssumption
<1>3. DOMAIN ch.waiting = {}
  BY DEF Untouched
<1>4. Gap(0)
  BY <1>3
<1>5. ASSUME NEW n \in 0 .. MaxPending, Gap(n) PROVE n = 0
  <2>1. CASE n > 0
    <3>1. 1 \in 1 .. n
      BY <1>2, <2>1
    <3> QED BY <1>3, <1>5, <3>1
  <2> QED BY <1>2, <2>1
<1> HIDE DEF Gap
<1> QED BY <1>1, <1>2, <1>4, <1>5

\* The first message of the exchange is handed over alone.
LEMMA FirstIsDelivered ==
  ASSUME NEW ch, Untouched(ch), NEW m
  PROVE  Handshake!Receive(ch, Handshake!DataFrame(0, None, m)).delivered = <<m>>
<1> DEFINE frame == Handshake!DataFrame(0, None, m)
           d == Handshake!DeliverExpected(ch, m)
<1>1. /\ ~frame.ackOnly /\ frame.sequence = 0 /\ frame.ack = None /\ frame.payload = m
  BY DEF Handshake!DataFrame
<1>2. Handshake!AcknowledgeFrom(ch, frame) = ch
  BY <1>1 DEF Handshake!AcknowledgeFrom
<1>3. ch.expectedSequence = 0
  BY DEF Untouched
<1> HIDE DEF frame
<1>4. Handshake!Receive(ch, frame) = d
  <2> HIDE DEF d
  <2> QED BY <1>1, <1>2, <1>3 DEF Handshake!Receive, d
<1>5. d.delivered = <<m>> \o [i \in 1 .. 0 |-> ch.waiting[Handshake!Wrap(ch.expectedSequence + i)]]
  BY NoBufferedRun DEF Handshake!DeliverExpected
<1>6. [i \in 1 .. 0 |-> ch.waiting[Handshake!Wrap(ch.expectedSequence + i)]] = <<>>
  OBVIOUS
<1>7. <<m>> \o <<>> = <<m>>
  OBVIOUS
<1> HIDE DEF d
<1> QED BY <1>4, <1>5, <1>6, <1>7 DEF frame

\* What the first message sent leaves in the window, and the frame it goes in.
LEMMA FirstIsOffered ==
  ASSUME NEW rc, NEW m, NEW inbound,
         rc = [outbound |-> Handshake!NewChannel, inbound |-> inbound]
  PROVE  LET r == Handshake!Send(rc, m)
         IN  /\ Offers(r.control.outbound, m)
             /\ DOMAIN r.control.outbound.outstanding # {}
             /\ r.control.inbound = inbound
             /\ r.frames \subseteq {Handshake!DataFrame(0, None, m)}
<1> DEFINE r == Handshake!Send(rc, m)
           ch == Handshake!NewChannel
           q == Handshake!Queue(ch, m)
           o == Handshake!Inserted(ch.outstanding, 0, m)
<1>1. Handshake!HasCapacity(ch)
  <2>1. Handshake!Cardinality({}) = 0
    <3>1. \A S : Handshake!Cardinality(S) = Cardinality(S)
      BY Zenon DEF Handshake!Cardinality, Cardinality
    <3> QED BY <3>1, FS_EmptySet, Zenon
  <2>2. 0 < MaxPending
    BY MaxPendingAssumption
  <2>3. DOMAIN ch.outstanding = {}
    BY NewChannelFacts
  <2> HIDE DEF ch
  <2> QED BY <2>1, <2>2, <2>3 DEF Handshake!HasCapacity
<1>2. DOMAIN o = {0} /\ o[0] = m
  <2>1. DOMAIN ch.outstanding = {}
    BY NewChannelFacts
  <2> HIDE DEF ch
  <2> QED BY <2>1 DEF Handshake!Inserted
<1>3. ChannelRecord(q) /\ q.pendingAck = None /\ q.outstanding = o
  <2> DEFINE w == Handshake!Wrap(ch.nextSequence + 1)
  <2>1. ChannelRecord(ch) /\ ch.nextSequence = 0 /\ ch.pendingAck = None
    BY NewChannelFacts
  <2> HIDE DEF ch
  <2>2. q = [ch EXCEPT !.nextSequence = w, !.outstanding = o]
    BY <2>1 DEF Handshake!Queue
  <2> HIDE DEF w, o, q
  <2> QED BY <2>1, <2>2 DEF ChannelRecord
<1>4. Offers(q, m)
  <2> HIDE DEF q, o
  <2> QED BY <1>2, <1>3 DEF Offers
<1>5. r.control = [outbound |-> q, inbound |-> inbound] /\ r.frames = Handshake!Flush(r.control)
  <2> HIDE DEF ch
  <2>1. rc.outbound = ch
    BY DEF ch
  <2>2. r.control = [rc EXCEPT !.outbound = q] /\ r.frames = Handshake!Flush(r.control)
    <3> HIDE DEF q
    <3> QED BY <1>1, <2>1 DEF Handshake!Send, q
  <2> HIDE DEF q, r
  <2> QED BY <2>2
<1> HIDE DEF q, r, o
<1>6. r.control.outbound = q /\ r.control.inbound = inbound
  BY <1>5
<1>7. r.frames \subseteq {Handshake!DataFrame(0, None, m)}
  BY <1>4, <1>5, <1>6, OfferedFrame
<1> QED BY <1>2, <1>3, <1>4, <1>6, <1>7 DEF r

\* Once the host has taken the HelloAck, nobody is rejected any more.
LEMMA AfterExchange ==
  ASSUME ExchangeInv, phase["Host"] \in HasTaken,
         phase' \in [Peers -> HostPhases \cup ClientPhases],
         control' \in [Peers -> {control'[p] : p \in Peers}],
         phase'["Host"] = phase["Host"],
         phase'["Client"] \in {phase["Client"], "Session", "TimedOut", "Failed"}
  PROVE  ExchangeInv'
BY DEF ExchangeInv, HostPhases, ClientPhases, HasTaken

\* A map with one entry replaced is a map over the same peers.
LEMMA ControlReplaced ==
  ASSUME ExchangeInv, NEW p \in Peers, NEW c, control' = [control EXCEPT ![p] = c]
  PROVE  /\ control' \in [Peers -> {control'[q] : q \in Peers}]
         /\ control'[p] = c
         /\ \A q \in Peers \ {p} : control'[q] = control[q]
<1>1. DOMAIN control = Peers
  BY DEF ExchangeInv
<1>2. control' = [q \in Peers |-> control'[q]]
  BY <1>1 DEF ExchangeInv
<1> QED BY <1>1, <1>2

\* One peer's phase replaced.
LEMMA PhaseReplaced ==
  ASSUME ExchangeInv, NEW p \in Peers, NEW x \in HostPhases \cup ClientPhases,
         phase' = [phase EXCEPT ![p] = x]
  PROVE  /\ phase' \in [Peers -> HostPhases \cup ClientPhases]
         /\ phase'[p] = x
         /\ \A q \in Peers \ {p} : phase'[q] = phase[q]
BY DEF ExchangeInv

\* Nothing is in flight and nobody has begun.
LEMMA ExchangeInit == Handshake!Init => ExchangeInv
<1> SUFFICES ASSUME Handshake!Init PROVE ExchangeInv
  OBVIOUS
<1>1. phase = [p \in Peers |-> IF p = "Host" THEN "Start" ELSE "AwaitHello"]
  BY ExchangePeers DEF Handshake!Init
<1>2. control = [p \in Peers |-> Handshake!NewControl] /\ DOMAIN wire = {}
  BY ExchangePeers DEF Handshake!Init, Handshake!EmptyMap
<1>3. phase["Host"] = "Start" /\ phase["Client"] = "AwaitHello"
  BY <1>1 DEF Peers
<1>4. /\ control["Host"] = Handshake!NewControl /\ control["Client"] = Handshake!NewControl
      /\ control \in [Peers -> {control[p] : p \in Peers}]
  BY <1>2 DEF Peers
<1>5. phase \in [Peers -> HostPhases \cup ClientPhases]
  BY <1>1 DEF HostPhases, ClientPhases
<1> QED BY <1>2, <1>3, <1>4, <1>5 DEF ExchangeInv, Before, NothingElse, HostPhases, ClientPhases, HasTaken

\* The host's hello is the first message of its channel.
LEMMA HostStartKeeps ==
  ASSUME ExchangeInv, Handshake!HostStart PROVE ExchangeInv'
<1> DEFINE r == Handshake!Send(control["Host"], Handshake!Hello)
<1>1. /\ phase["Host"] = "Start" /\ phase' = [phase EXCEPT !["Host"] = "AwaitAck"]
      /\ control' = [control EXCEPT !["Host"] = r.control]
      /\ wire' = Handshake!Transmit("Host", wire, r.frames)
  BY DEF Handshake!HostStart
<1>2. /\ Offers(r.control.outbound, Handshake!Hello)
      /\ r.control.inbound = Handshake!NewChannel
      /\ r.frames \subseteq {HelloFrame}
  <2>1. control["Host"] = [outbound |-> Handshake!NewChannel, inbound |-> Handshake!NewChannel]
    BY <1>1 DEF ExchangeInv, Before, Handshake!NewControl, HasTaken
  <2> QED BY <2>1, FirstIsOffered DEF HelloFrame
<1> HIDE DEF r
<1>3. "Host" \in Peers /\ "Client" \in Peers
  BY DEF Peers
<1>4. /\ control' \in [Peers -> {control'[q] : q \in Peers}]
      /\ control'["Host"] = r.control /\ control'["Client"] = control["Client"]
  BY <1>1, <1>3, ControlReplaced
<1>5. /\ phase' \in [Peers -> HostPhases \cup ClientPhases]
      /\ phase'["Host"] = "AwaitAck" /\ phase'["Client"] = phase["Client"]
  BY <1>1, <1>3, PhaseReplaced DEF HostPhases
<1>6. \A x \in DOMAIN wire' : x \in DOMAIN wire \/ (x.to = "Client" /\ x.frame = HelloFrame)
  BY <1>1, <1>2, ExchangeTransmits
<1>7. NothingElse(wire')
  BY <1>1, <1>6 DEF ExchangeInv, Before, NothingElse, HasTaken
<1>8. \A x \in DOMAIN wire' : x.to = "Host" => x \in DOMAIN wire
  BY <1>6
<1> QED BY <1>1, <1>2, <1>4, <1>5, <1>7, <1>8, NewChannelFacts
        DEF ExchangeInv, Before, HostPhases, HasTaken

\* A peer that stops negotiating leaves the other where it is.
LEMMA TimeOutKeeps ==
  ASSUME ExchangeInv, NEW p \in Peers, Handshake!TimeOut(p) \/ Handshake!Fail(p) PROVE ExchangeInv'
<1>1. /\ phase[p] \in {"Start", "AwaitHello", "AwaitAck"}
      /\ control' = control /\ wire' = wire
  BY DEF Handshake!TimeOut, Handshake!Fail
<1>2. PICK x \in {"TimedOut", "Failed"} : phase' = [phase EXCEPT ![p] = x]
  BY DEF Handshake!TimeOut, Handshake!Fail
<1>3. /\ phase' \in [Peers -> HostPhases \cup ClientPhases] /\ phase'[p] = x
      /\ \A q \in Peers \ {p} : phase'[q] = phase[q]
  BY <1>2, PhaseReplaced DEF HostPhases
<1> QED BY <1>1, <1>3 DEF ExchangeInv, Before, HostPhases, ClientPhases, Peers, HasTaken

\* A loss takes something away.
LEMMA ExchangeLoses ==
  ASSUME ExchangeInv, NEW record, Handshake!Lose(record) PROVE ExchangeInv'
<1>1. DOMAIN wire' \subseteq DOMAIN wire /\ phase' = phase /\ control' = control
  BY ExchangeRemoves DEF Handshake!Lose
<1> QED BY <1>1 DEF ExchangeInv, Before, NothingElse

\* A retry sends the one message its peer offers.
LEMMA ExchangeRetries ==
  ASSUME ExchangeInv, NEW p \in Peers, Handshake!Retry(p) PROVE ExchangeInv'
<1> DEFINE F == Handshake!Flush(control[p])
<1>1. /\ phase[p] \notin {"Start", "TimedOut", "Rejected", "Failed", "FailedAcking"} /\ F # {}
      /\ wire' = Handshake!Transmit(p, wire, F)
      /\ phase' = phase /\ control' = control
  BY DEF Handshake!Retry, Handshake!Running, Handshake!Ended
<1>2. CASE phase["Host"] \in HasTaken
  BY <1>1, <1>2, AfterExchange DEF ExchangeInv
<1>3. CASE phase["Host"] \notin HasTaken /\ p = "Host"
  <2>1. F \subseteq {HelloFrame}
    BY <1>1, <1>3, OfferedFrame DEF ExchangeInv, Before, HostPhases, HelloFrame, HasTaken
  <2> HIDE DEF F
  <2>2. \A x \in DOMAIN wire' : x \in DOMAIN wire \/ (x.to = "Client" /\ x.frame = HelloFrame)
    BY <1>1, <1>3, <2>1, ExchangeTransmits
  <2> QED BY <1>1, <1>3, <2>2 DEF ExchangeInv, Before, NothingElse
<1>4. CASE phase["Host"] \notin HasTaken /\ p = "Client"
  <2>1. phase["Client"] = "AwaitAck"
    <3>1. ASSUME phase["Client"] = "AwaitHello" PROVE F = {}
      BY <1>4, <3>1, NewChannelFacts
         DEF ExchangeInv, Handshake!NewControl, Handshake!Flush, Handshake!NextFrame
    <3> QED BY <1>1, <1>4, <3>1 DEF ExchangeInv, Before, ClientPhases
  <2>2. F \subseteq {HelloAckFrame}
    BY <1>4, <2>1, OfferedFrame DEF ExchangeInv, Before, HelloAckFrame
  <2> HIDE DEF F
  <2>3. \A x \in DOMAIN wire' : x \in DOMAIN wire \/ (x.to = "Host" /\ x.frame = HelloAckFrame)
    BY <1>1, <1>4, <2>2, ExchangeTransmits
  <2> QED BY <1>1, <1>4, <2>1, <2>3 DEF ExchangeInv, Before, NothingElse
<1> QED BY <1>2, <1>3, <1>4 DEF Peers

\* The host is handed the HelloAck or nothing.
LEMMA HostReceiveKeeps ==
  ASSUME ExchangeInv, NEW record \in DOMAIN wire, Handshake!HostReceive(record)
  PROVE  ExchangeInv'
<1> DEFINE rc == control["Host"]
           r == Handshake!ReceiveControl(rc, record.frame)
           w == Handshake!RemoveCopy(wire, record)
<1>1. /\ phase["Host"] = "AwaitAck" /\ record.to = "Host"
      /\ wire' = Handshake!Transmit("Host", w, r.acks \cup r.frames)
      /\ \/ /\ r.delivered = <<>>
            /\ control' = [control EXCEPT !["Host"] = r.control]
            /\ phase' = phase
         \/ /\ r.delivered # <<>>
            /\ control' = [control EXCEPT !["Host"] = Handshake!NewControl]
            /\ phase' = [phase EXCEPT !["Host"] =
                  IF Head(r.delivered) = Handshake!HelloAck THEN "Session" ELSE "Rejected"]
  BY DEF Handshake!HostReceive, Handshake!Arrives
<1>2. /\ Before /\ Offers(rc.outbound, Handshake!Hello) /\ Untouched(rc.inbound)
      /\ phase["Client"] # "AwaitHello"
      /\ record.frame.ackOnly \/ record.frame = HelloAckFrame
  BY <1>1 DEF ExchangeInv, Before, NothingElse, HasTaken
<1>3. "Host" \in Peers /\ "Client" \in Peers
  BY DEF Peers
<1>4. /\ r.control.outbound = Handshake!AcknowledgeFrom(rc.outbound, record.frame)
      /\ r.control.inbound = Handshake!Receive(rc.inbound, record.frame).channel
      /\ r.delivered = Handshake!Receive(rc.inbound, record.frame).delivered
      /\ r.frames = Handshake!Flush(r.control)
      /\ \A f \in r.acks : f.ackOnly
  <2>1. ReceiveResult(r, rc, record.frame)
    BY AcksAreAcks
  <2> HIDE DEF r
  <2> QED BY <2>1 DEF ReceiveResult
<1>5. DOMAIN w \subseteq DOMAIN wire
  BY ExchangeRemoves
<1>6. CASE record.frame.ackOnly
  <2>1. r.delivered = <<>> /\ r.acks = {} /\ Untouched(r.control.inbound)
    <3>1. r.acks = {}
      BY <1>6 DEF Handshake!ReceiveControl
    <3> HIDE DEF r
    <3> QED BY <1>2, <1>4, <1>6, <3>1, AckDeliversNothing, AcknowledgedOffers
  <2>2. Offers(r.control.outbound, Handshake!Hello)
    <3> HIDE DEF r
    <3> QED BY <1>2, <1>4, AcknowledgedOffers
  <2>3. r.frames \subseteq {HelloFrame}
    <3> HIDE DEF r
    <3> QED BY <1>4, <2>2, OfferedFrame DEF HelloFrame
  <2> HIDE DEF r, w
  <2>4. \A x \in DOMAIN wire' : x \in DOMAIN wire \/ (x.to = "Client" /\ x.frame = HelloFrame)
    BY <1>1, <1>5, <2>1, <2>3, ExchangeTransmits
  <2>5. control' = [control EXCEPT !["Host"] = r.control] /\ phase' = phase
    BY <1>1, <2>1
  <2>6. /\ control' \in [Peers -> {control'[q] : q \in Peers}]
        /\ control'["Host"] = r.control /\ control'["Client"] = control["Client"]
    BY <1>3, <2>5, ControlReplaced
  <2>7. NothingElse(wire')
    BY <1>2, <2>4 DEF Before, NothingElse
  <2> QED BY <1>1, <1>2, <2>1, <2>2, <2>5, <2>6, <2>7 DEF ExchangeInv, Before, HasTaken
<1>7. CASE record.frame = HelloAckFrame
  <2>1. r.delivered = <<Handshake!HelloAck>>
    <3> HIDE DEF r
    <3> QED BY <1>2, <1>4, <1>7, FirstIsDelivered DEF HelloAckFrame
  <2> HIDE DEF r
  <2>2. r.delivered # <<>> /\ Head(r.delivered) = Handshake!HelloAck
    BY <2>1
  <2>3. phase' = [phase EXCEPT !["Host"] = "Session"]
    BY <1>1, <2>2
  <2>4. /\ phase' \in [Peers -> HostPhases \cup ClientPhases]
        /\ phase'["Host"] = "Session" /\ phase'["Client"] = phase["Client"]
    BY <1>3, <2>3, PhaseReplaced DEF HostPhases
  <2>5. control' \in [Peers -> {control'[q] : q \in Peers}]
    BY <1>1, <1>3, <2>2, ControlReplaced
  <2> QED BY <1>2, <2>4, <2>5 DEF ExchangeInv, HostPhases, HasTaken
<1> QED BY <1>2, <1>6, <1>7

\* The client is handed the Hello alone, and answers it.
LEMMA ClientReceiveHelloKeeps ==
  ASSUME ExchangeInv, NEW record \in DOMAIN wire, Handshake!ClientReceiveHello(record)
  PROVE  ExchangeInv'
<1> DEFINE rc == control["Client"]
           r == Handshake!ReceiveControl(rc, record.frame)
           sent == Handshake!Send(r.control, Handshake!HelloAck)
           w == Handshake!RemoveCopy(wire, record)
           arrived == Handshake!Transmit("Client", w, r.acks \cup r.frames)
<1>1. /\ phase["Client"] = "AwaitHello" /\ record.to = "Client"
      /\ \/ r.delivered = <<>>
         \/ /\ control' = [control EXCEPT !["Client"] = sent.control]
            /\ wire' = Handshake!Transmit("Client", arrived, sent.frames)
            /\ phase' = [phase EXCEPT !["Client"] = "AwaitAck"]
         \/ \E m \in Handshake!Range(r.delivered) : m # Handshake!Hello
  BY DEF Handshake!ClientReceiveHello, Handshake!Arrives
<1>2. Before /\ record.frame = HelloFrame /\ phase["Host"] \notin HasTaken
  BY <1>1 DEF ExchangeInv, Before, NothingElse, HasTaken
<1>3. "Host" \in Peers /\ "Client" \in Peers
  BY DEF Peers
<1>4. rc.outbound = Handshake!NewChannel /\ rc.inbound = Handshake!NewChannel
  BY <1>1 DEF ExchangeInv, Handshake!NewControl
<1>5. /\ r.control.outbound = Handshake!AcknowledgeFrom(rc.outbound, record.frame)
      /\ r.control = [outbound |-> r.control.outbound, inbound |-> r.control.inbound]
      /\ r.delivered = Handshake!Receive(rc.inbound, record.frame).delivered
      /\ r.frames = Handshake!Flush(r.control)
      /\ \A f \in r.acks : f.ackOnly
  <2>1. ReceiveResult(r, rc, record.frame)
    BY AcksAreAcks
  <2> HIDE DEF r
  <2> QED BY <2>1 DEF ReceiveResult
<1>6. DOMAIN w \subseteq DOMAIN wire
  BY ExchangeRemoves
<1>7. r.control.outbound = Handshake!NewChannel
  <2>1. record.frame.ack = None
    BY <1>2 DEF HelloFrame, Handshake!DataFrame
  <2> HIDE DEF r
  <2> QED BY <1>4, <1>5, <2>1 DEF Handshake!AcknowledgeFrom
<1>8. r.delivered = <<Handshake!Hello>>
  <2> HIDE DEF r
  <2> QED BY <1>2, <1>4, <1>5, FirstIsDelivered, NewChannelFacts DEF HelloFrame
<1>9. r.frames = {}
  <2> HIDE DEF r
  <2> QED BY <1>5, <1>7, NewChannelFacts DEF Handshake!Flush, Handshake!NextFrame
<1>10. /\ Offers(sent.control.outbound, Handshake!HelloAck)
       /\ DOMAIN sent.control.outbound.outstanding # {}
       /\ sent.frames \subseteq {HelloAckFrame}
  <2> HIDE DEF r
  <2> QED BY <1>5, <1>7, FirstIsOffered DEF HelloAckFrame
<1> HIDE DEF r, sent, w
<1>11. /\ control' = [control EXCEPT !["Client"] = sent.control]
       /\ wire' = Handshake!Transmit("Client", arrived, sent.frames)
       /\ phase' = [phase EXCEPT !["Client"] = "AwaitAck"]
  <2>1. r.delivered # <<>> /\ \A m \in Handshake!Range(r.delivered) : m = Handshake!Hello
    BY <1>8 DEF Handshake!Range
  <2> QED BY <1>1, <2>1
<1>12. \A x \in DOMAIN arrived : x \in DOMAIN wire \/ (x.to = "Host" /\ x.frame.ackOnly)
  BY <1>5, <1>6, <1>9, ExchangeTransmits
<1> HIDE DEF arrived
<1>13. \A x \in DOMAIN wire' :
         \/ x \in DOMAIN wire
         \/ x.to = "Host" /\ (x.frame.ackOnly \/ x.frame = HelloAckFrame)
  BY <1>10, <1>11, <1>12, ExchangeTransmits
<1>14. NothingElse(wire')
  BY <1>2, <1>13 DEF Before, NothingElse
<1>15. /\ control' \in [Peers -> {control'[q] : q \in Peers}]
       /\ control'["Client"] = sent.control /\ control'["Host"] = control["Host"]
  BY <1>3, <1>11, ControlReplaced
<1>16. /\ phase' \in [Peers -> HostPhases \cup ClientPhases]
       /\ phase'["Client"] = "AwaitAck" /\ phase'["Host"] = phase["Host"]
  BY <1>3, <1>11, PhaseReplaced DEF HostPhases
<1> QED BY <1>2, <1>10, <1>14, <1>15, <1>16 DEF ExchangeInv, Before, ClientPhases

\* Before the host has taken it, nothing acknowledges the client's HelloAck.
LEMMA ClientReceiveAckKeeps ==
  ASSUME ExchangeInv, NEW record \in DOMAIN wire, Handshake!ClientReceiveAck(record)
  PROVE  ExchangeInv'
<1> DEFINE rc == control["Client"]
           r == Handshake!ReceiveControl(rc, record.frame)
           w == Handshake!RemoveCopy(wire, record)
<1>1. /\ phase["Client"] = "AwaitAck" /\ record.to = "Client"
      /\ wire' = Handshake!Transmit("Client", w, r.acks \cup r.frames)
      /\ \/ /\ Handshake!ClientMayReturn(r.control)
            /\ control' = [control EXCEPT !["Client"] = Handshake!NewControl]
            /\ phase' = [phase EXCEPT !["Client"] = "Session"]
         \/ /\ ~Handshake!ClientMayReturn(r.control)
            /\ control' = [control EXCEPT !["Client"] = r.control]
            /\ phase' = phase
  BY DEF Handshake!ClientReceiveAck, Handshake!Arrives
<1>2. "Host" \in Peers /\ "Client" \in Peers
  BY DEF Peers
<1>3. CASE phase["Host"] \in HasTaken
  <2> HIDE DEF r
  <2>1. control' \in [Peers -> {control'[q] : q \in Peers}]
    BY <1>1, <1>2, ControlReplaced
  <2>2. /\ phase' \in [Peers -> HostPhases \cup ClientPhases]
        /\ phase'["Host"] = phase["Host"] /\ phase'["Client"] \in {phase["Client"], "Session"}
    <3>1. CASE phase' = phase
      BY <1>3, <3>1 DEF ExchangeInv
    <3>2. CASE phase' = [phase EXCEPT !["Client"] = "Session"]
      BY <1>2, <1>3, <3>2, PhaseReplaced DEF HostPhases
    <3> QED BY <1>1, <3>1, <3>2
  <2> QED BY <1>3, <2>1, <2>2, AfterExchange
<1>4. CASE phase["Host"] \notin HasTaken
  <2>1. /\ Before /\ record.frame = HelloFrame
        /\ Offers(rc.outbound, Handshake!HelloAck) /\ DOMAIN rc.outbound.outstanding # {}
    BY <1>1, <1>4 DEF ExchangeInv, Before, NothingElse
  <2>2. record.frame.ack = None
    BY <2>1 DEF HelloFrame, Handshake!DataFrame
  <2>3. /\ r.control.outbound = Handshake!AcknowledgeFrom(rc.outbound, record.frame)
        /\ r.frames = Handshake!Flush(r.control)
        /\ \A f \in r.acks : f.ackOnly
    <3>1. ReceiveResult(r, rc, record.frame)
      BY AcksAreAcks
    <3> HIDE DEF r
    <3> QED BY <3>1 DEF ReceiveResult
  <2> HIDE DEF r
  <2>4. r.control.outbound = rc.outbound
    BY <2>2, <2>3 DEF Handshake!AcknowledgeFrom
  <2>5. ~Handshake!ClientMayReturn(r.control)
    BY <2>1, <2>4 DEF Handshake!ClientMayReturn
  <2>6. r.frames \subseteq {HelloAckFrame}
    BY <2>1, <2>3, <2>4, OfferedFrame DEF HelloAckFrame
  <2>7. DOMAIN w \subseteq DOMAIN wire
    BY ExchangeRemoves
  <2> HIDE DEF w
  <2>8. \A x \in DOMAIN wire' :
          \/ x \in DOMAIN wire
          \/ x.to = "Host" /\ (x.frame.ackOnly \/ x.frame = HelloAckFrame)
    BY <1>1, <2>3, <2>6, <2>7, ExchangeTransmits
  <2>9. NothingElse(wire')
    BY <2>1, <2>8 DEF Before, NothingElse
  <2>10. control' = [control EXCEPT !["Client"] = r.control] /\ phase' = phase
    BY <1>1, <2>5
  <2>11. /\ control' \in [Peers -> {control'[q] : q \in Peers}]
         /\ control'["Client"] = r.control /\ control'["Host"] = control["Host"]
    BY <1>2, <2>10, ControlReplaced
  <2> QED BY <1>1, <1>4, <2>1, <2>4, <2>9, <2>10, <2>11 DEF ExchangeInv, Before
<1> QED BY <1>3, <1>4

\* A receive that fails: the host's may have taken the HelloAck, and otherwise
\* what it sent is an acknowledgement of the client's.
LEMMA ReceiveFailsInNegotiation ==
  ASSUME ExchangeInv, NEW p \in Peers, NEW record \in DOMAIN wire, Handshake!ReceiveFails(p, record)
  PROVE  ExchangeInv'
<1> DEFINE rc == control[p]
           r == Handshake!ReceiveControl(rc, record.frame)
           w == Handshake!RemoveCopy(wire, record)
           took == p = "Host" /\ Handshake!HelloAck \in Handshake!Range(r.delivered)
<1>1. /\ phase[p] \in {"AwaitHello", "AwaitAck"} /\ record.to = p
      /\ phase' = [phase EXCEPT ![p] = IF took THEN "FailedAcking" ELSE "Failed"]
      /\ control' = control
  BY DEF Handshake!ReceiveFails, Handshake!Arrives
<1>2. PICK emitted \in {{}, r.acks} : wire' = Handshake!Transmit(p, w, emitted)
  BY DEF Handshake!ReceiveFails
<1>3. \A f \in emitted : f.ackOnly
  <2>1. ReceiveResult(r, rc, record.frame)
    BY AcksAreAcks
  <2> HIDE DEF r, rc
  <2> QED BY <1>2, <2>1 DEF ReceiveResult
<1>4. DOMAIN w \subseteq DOMAIN wire
  BY ExchangeRemoves
<1>5. "Host" \in Peers /\ "Client" \in Peers
  BY DEF Peers
<1>6. CASE p = "Client"
  <2>1. phase' = [phase EXCEPT !["Client"] = "Failed"]
    BY <1>1, <1>6
  <2>2. /\ phase' \in [Peers -> HostPhases \cup ClientPhases]
        /\ phase'["Client"] = "Failed" /\ phase'["Host"] = phase["Host"]
    BY <1>5, <2>1, PhaseReplaced DEF ClientPhases
  <2> HIDE DEF r, w
  <2>3. \A x \in DOMAIN wire' : x \in DOMAIN wire \/ (x.to = "Host" /\ x.frame.ackOnly)
    BY <1>2, <1>3, <1>4, <1>6, ExchangeTransmits
  <2>4. NothingElse(wire) => NothingElse(wire')
    BY <2>3 DEF NothingElse
  <2> QED BY <1>1, <2>2, <2>4 DEF ExchangeInv, Before, ClientPhases
<1>7. CASE p = "Host"
  <2>1. /\ phase["Host"] = "AwaitAck" /\ phase["Client"] # "AwaitHello"
        /\ Before /\ Untouched(rc.inbound)
        /\ record.frame.ackOnly \/ record.frame = HelloAckFrame
    BY <1>1, <1>7 DEF ExchangeInv, Before, NothingElse, HasTaken, HostPhases
  <2>2. CASE record.frame.ackOnly
    <3>1. r.acks = {} /\ r.delivered = <<>>
      <4>1. r.acks = {}
        BY <2>2 DEF Handshake!ReceiveControl
      <4>2. r.delivered = Handshake!Receive(rc.inbound, record.frame).delivered
        BY DEF Handshake!ReceiveControl
      <4>3. Handshake!Receive(rc.inbound, record.frame).delivered = <<>>
        BY <2>2, AckDeliversNothing
      <4> QED BY <4>1, <4>2, <4>3
    <3> HIDE DEF r, w
    <3>2. phase' = [phase EXCEPT !["Host"] = "Failed"]
      BY <1>1, <1>7, <3>1 DEF Handshake!Range
    <3>3. /\ phase' \in [Peers -> HostPhases \cup ClientPhases]
          /\ phase'["Host"] = "Failed" /\ phase'["Client"] = phase["Client"]
      BY <1>5, <3>2, PhaseReplaced DEF HostPhases
    <3>4. \A x \in DOMAIN wire' : x \in DOMAIN wire
      BY <1>2, <1>4, <1>7, <3>1, ExchangeTransmits
    <3>5. NothingElse(wire')
      BY <2>1, <3>4 DEF Before, NothingElse
    <3> QED BY <1>1, <2>1, <3>3, <3>5 DEF ExchangeInv, Before, HostPhases
  <2>3. CASE record.frame = HelloAckFrame
    <3>1. r.delivered = Handshake!Receive(rc.inbound, record.frame).delivered
      BY DEF Handshake!ReceiveControl
    <3> HIDE DEF r, w
    <3>2. r.delivered = <<Handshake!HelloAck>>
      BY <2>1, <2>3, <3>1, FirstIsDelivered DEF HelloAckFrame
    <3>3. phase' = [phase EXCEPT !["Host"] = "FailedAcking"]
      <4>1. 1 \in DOMAIN r.delivered /\ r.delivered[1] = Handshake!HelloAck
        BY <3>2
      <4>2. took
        BY <1>7, <4>1 DEF Handshake!Range
      <4> HIDE DEF took
      <4> QED BY <1>1, <1>7, <4>2
    <3>4. /\ phase' \in [Peers -> HostPhases \cup ClientPhases]
          /\ phase'["Host"] = "FailedAcking" /\ phase'["Client"] = phase["Client"]
      BY <1>5, <3>3, PhaseReplaced DEF HostPhases
    <3> QED BY <1>1, <2>1, <3>4 DEF ExchangeInv, HostPhases, HasTaken
  <2> QED BY <2>1, <2>2, <2>3
<1> QED BY <1>6, <1>7 DEF Peers

\* The sessions' own traffic, which begins when the host has taken the HelloAck.
LEMMA SessionKeeps ==
  ASSUME ExchangeInv, NEW p \in Peers, NEW record,
         Handshake!SessionSend(p) \/ Handshake!SessionReceive(p, record)
  PROVE  ExchangeInv'
<1>1. phase[p] = "Session" /\ phase' = phase
  BY DEF Handshake!SessionSend, Handshake!SessionReceive
<1>2. \E c : control' = [control EXCEPT ![p] = c]
  BY DEF Handshake!SessionSend, Handshake!SessionReceive
<1>3. control' \in [Peers -> {control'[q] : q \in Peers}]
  BY <1>2, ControlReplaced
<1>4. phase["Host"] \in HasTaken
  BY <1>1 DEF ExchangeInv, Before, Peers, HasTaken
<1> QED BY <1>1, <1>3, <1>4, AfterExchange DEF ExchangeInv

\* Every step keeps the exchange in order.
LEMMA ExchangeNext ==
  ExchangeInv /\ [Handshake!Next]_(Handshake!vars) => ExchangeInv'
<1> SUFFICES ASSUME ExchangeInv, [Handshake!Next]_(Handshake!vars) PROVE ExchangeInv'
  OBVIOUS
<1>1. CASE Handshake!Next
  BY <1>1, HostStartKeeps, SessionKeeps, ExchangeRetries, TimeOutKeeps, ExchangeLoses,
     HostReceiveKeeps, ClientReceiveHelloKeeps, ClientReceiveAckKeeps, ReceiveFailsInNegotiation, ExchangePeers
     DEF Handshake!Next, Handshake!Receives
<1>2. CASE UNCHANGED Handshake!vars
  BY <1>2 DEF Handshake!vars, ExchangeInv, Before, NothingElse
<1> QED BY <1>1, <1>2

\* Until the host has taken the HelloAck nothing is in flight but the messages of
\* the exchange, whatever is lost, delayed or sent again and whoever fails.
THEOREM ExchangeInvariance == Handshake!Spec => []ExchangeInv
BY ExchangeInit, ExchangeNext, PTL DEF Handshake!Spec

\* A client in its session has a host that has taken its HelloAck and is in its
\* session, unless it failed in the receive that took it: no acknowledgement of
\* the HelloAck exists before.
THEOREM ClientJoinsHostHolds == Handshake!Spec => []ClientJoinsHost
<1>1. ExchangeInv => ClientJoinsHost
  BY DEF ExchangeInv, Before, ClientJoinsHost, HasTaken
<1> QED BY <1>1, ExchangeInvariance, PTL

\* Neither negotiation is handed anything but the message it waits for, although
\* the sessions use the same sequence numbers again.
THEOREM NobodyRejectedHolds == Handshake!Spec => []NobodyRejected
<1>1. ExchangeInv => NobodyRejected
  BY DEF ExchangeInv, NobodyRejected, Peers
<1> QED BY <1>1, ExchangeInvariance, PTL

=============================================================================
