----------------------- MODULE OutboundSchedulerProofs -----------------------
(***************************************************************************)
(* Proofs about OutboundScheduler, for every datagram size, burst, set of  *)
(* rates and queue capacities.  The debts measure what has been served:    *)
(* while a class is below its quantum it has passed the waiting ones by no *)
(* more than its debt, and the packet that fills the quantum adds less     *)
(* than a datagram.                                                        *)
(***************************************************************************)
EXTENDS OutboundScheduler, TLAPS

Priorities == {"Critical", "Audio"}

Waiters == {"Audio", "Video"}

\* The types of the queues, the debts, the bucket and the history.
Types ==
  /\ queue \in [Classes -> Seq(Lengths)]
  /\ \A c \in Classes : Len(queue[c]) <= QueueCapacity[c]
  /\ debt \in [Priorities -> Nat]
  /\ \A c \in Priorities : debt[c] <= Quantum(rate)
  /\ tokens \in 0 .. Capacity(rate)
  /\ rate \in Rates
  /\ passed \in [Waiters -> Nat]

\* What a class of this debt has served since the debt was last forgiven.
ServedBy(d) == IF d < Quantum(rate) THEN d ELSE Run

\* Audio that still owes nothing has let a video packet go, after one run of
\* critical traffic; the run under way is measured by the critical debt.
AudioPassed ==
  passed["Audio"] <= ServedBy(debt["Critical"])
                     + IF debt["Audio"] < Quantum(rate) THEN Run ELSE 0

\* Each unit of audio that passed a due video packet brought at most one run
\* of critical traffic with it.
VideoPassed ==
  passed["Video"] <= ServedBy(debt["Critical"])
                     + IF debt["Audio"] < Quantum(rate)
                       THEN debt["Audio"] + debt["Audio"] * Run
                       ELSE Run + Quantum(rate) * Run

SchedulerInv == Types /\ AudioPassed /\ VideoPassed

-----------------------------------------------------------------------------
(* Arithmetic. *)

\* The smaller of two numbers.
LEMMA MinOfTwo ==
  ASSUME NEW a \in Int, NEW b \in Int
  PROVE  Min({a, b}) = IF a <= b THEN a ELSE b
BY DEF Min

\* The larger of two numbers.
LEMMA MaxOfTwo ==
  ASSUME NEW a \in Int, NEW b \in Int
  PROVE  Max({a, b}) = IF a >= b THEN a ELSE b
BY DEF Max

\* A product of numbers is one, and no smaller than a factor of it.
LEMMA ProductFacts ==
  ASSUME NEW a \in Nat, NEW b \in Nat
  PROVE  a * b \in Nat /\ (b > 0 => a * b >= a)
<1>1. a * b \in Nat
  OBVIOUS
<1>2. ASSUME b > 0 PROVE a * b >= a
  <2>1. a * b = a * (b - 1) + a /\ a * (b - 1) \in Nat
    BY <1>2
  <2> QED BY <2>1
<1> QED BY <1>1, <1>2

\* Multiples grow with their factor.
LEMMA MultiplesGrow ==
  ASSUME NEW d \in Nat, NEW e \in Nat, NEW r \in Nat, d < e
  PROVE  d * r + r <= e * r /\ d * r \in Nat /\ e * r \in Nat
<1>1. e * r = (e - d - 1) * r + (d * r + r) /\ (e - d - 1) * r \in Nat
  OBVIOUS
<1> QED BY <1>1

\* A quantum and a bucket that paces hold a whole datagram.
LEMMA QuantumFacts ==
  ASSUME NEW r \in Nat
  PROVE  /\ Quantum(r) \in Nat /\ Quantum(r) >= Datagram
         /\ Capacity(r) \in Nat /\ (r # 0 => Capacity(r) >= Datagram)
         /\ Datagram \in Nat /\ Datagram > 0
<1>1. /\ Datagram \in Nat /\ Datagram > 0 /\ BurstDatagrams \in Nat /\ BurstDatagrams > 0
      /\ BurstTicks \in Nat /\ QuantumTicks \in Nat
  BY SchedulerAssumption
<1> DEFINE top == Datagram * BurstDatagrams
           q == r * QuantumTicks
           c == r * BurstTicks
<1>2. top \in Nat /\ top >= Datagram /\ q \in Nat /\ c \in Nat
  BY <1>1, ProductFacts
<1>3. Quantum(r) = Min({Max({q, Datagram}), top})
      /\ Capacity(r) = IF r = 0 THEN 0 ELSE Min({Max({c, Datagram}), top})
  BY DEF Quantum, Capacity
<1> HIDE DEF top, q, c
<1>4. /\ Max({q, Datagram}) = (IF q >= Datagram THEN q ELSE Datagram)
      /\ Max({c, Datagram}) = (IF c >= Datagram THEN c ELSE Datagram)
  BY <1>1, <1>2, MaxOfTwo
<1> DEFINE x == Max({q, Datagram})
           y == Max({c, Datagram})
<1>5. x \in Nat /\ x >= Datagram /\ y \in Nat /\ y >= Datagram
  BY <1>1, <1>2, <1>4
<1> HIDE DEF x, y
<1>6. Min({x, top}) = (IF x <= top THEN x ELSE top) /\ Min({y, top}) = (IF y <= top THEN y ELSE top)
  BY <1>2, <1>5, MinOfTwo
<1>7. Quantum(r) = Min({x, top}) /\ Capacity(r) = IF r = 0 THEN 0 ELSE Min({y, top})
  BY <1>3 DEF x, y
<1> QED BY <1>1, <1>2, <1>5, <1>6, <1>7

-----------------------------------------------------------------------------
(* Invariance. *)

\* The names are different, the rate is a number, and a run ends within a
\* datagram of the quantum.
LEMMA RateFacts ==
  ASSUME rate \in Rates
  PROVE  /\ rate \in Nat /\ Quantum(rate) \in Nat /\ Quantum(rate) >= Datagram
         /\ Capacity(rate) \in Nat /\ (rate # 0 => Capacity(rate) >= Datagram)
         /\ Datagram \in Nat /\ Datagram > 0
         /\ Run \in Nat /\ Run = Quantum(rate) + Datagram - 1 /\ Run >= Quantum(rate)
<1>1. rate \in Nat
  BY SchedulerAssumption
<1> QED BY <1>1, QuantumFacts DEF Run

\* select_class: a class that is served has not used up its quantum while
\* lower work is due, and video passes waiting audio only when audio has.
LEMMA SelectClassFacts ==
  ASSUME NEW class \in SelectClass
  PROVE  /\ class \in Classes
         /\ class \in Priorities => queue[class] # <<>> /\ ~ MustYield(class)
         /\ class = "Video" => VideoDue /\ (queue["Audio"] # <<>> => MustYield("Audio"))
BY DEF SelectClass, Classes, Priorities

\* The head of a queue is the length of a packet.
LEMMA HeadFacts ==
  ASSUME Types, NEW c \in Classes, queue[c] # <<>>
  PROVE  /\ Head(queue[c]) \in Lengths /\ Head(queue[c]) \in Nat /\ Head(queue[c]) > 0
         /\ Head(queue[c]) <= Datagram
         /\ Tail(queue[c]) \in Seq(Lengths) /\ Len(Tail(queue[c])) <= QueueCapacity[c]
<1>1. queue[c] \in Seq(Lengths) /\ Len(queue[c]) <= QueueCapacity[c] /\ QueueCapacity[c] \in Nat
  BY SchedulerAssumption DEF Types
<1>2. Datagram \in Nat
  BY SchedulerAssumption
<1>3. Head(queue[c]) \in Lengths /\ Tail(queue[c]) \in Seq(Lengths)
      /\ Len(Tail(queue[c])) = Len(queue[c]) - 1
  BY <1>1
<1> QED BY <1>1, <1>2, <1>3 DEF Lengths

\* The history after a step that passes nobody.
LEMMA NobodyPassed ==
  ASSUME Types, Waiting(passed)
  PROVE  /\ passed' \in [Waiters -> Nat]
         /\ passed'["Audio"] <= passed["Audio"] /\ passed'["Video"] <= passed["Video"]
BY DEF Types, Waiting, Waiters

\* The scheduler starts idle.
LEMMA InitSchedulerInv == Init => SchedulerInv
<1> SUFFICES ASSUME Init PROVE SchedulerInv
  OBVIOUS
<1>1. rate \in Rates
  BY DEF Init
<1>2. Types
  <2>1. \A c \in Classes : queue[c] = <<>> /\ Len(queue[c]) <= QueueCapacity[c]
    BY SchedulerAssumption DEF Init
  <2>2. queue \in [Classes -> Seq(Lengths)]
    BY DEF Init
  <2>3. debt \in [Priorities -> Nat] /\ \A c \in Priorities : debt[c] = 0
    BY DEF Init, NoDebt, Priorities
  <2>4. passed \in [Waiters -> Nat]
    BY DEF Init, NothingPassed, Waiters
  <2>5. tokens \in 0 .. Capacity(rate)
    BY <1>1, RateFacts DEF Init
  <2> QED BY <1>1, <2>1, <2>2, <2>3, <2>4, <2>5, RateFacts DEF Types
<1>3. /\ passed["Audio"] = 0 /\ passed["Video"] = 0
      /\ debt["Audio"] = 0 /\ debt["Critical"] = 0
  BY DEF Init, NothingPassed, NoDebt
<1>4. AudioPassed /\ VideoPassed
  BY <1>1, <1>3, RateFacts DEF AudioPassed, VideoPassed, ServedBy
<1> QED BY <1>2, <1>4 DEF SchedulerInv

\* The bounds are numbers, and a history of nothing is within them.
LEMMA BoundFacts ==
  ASSUME Types
  PROVE  /\ ServedBy(debt["Critical"]) \in Nat /\ ServedBy(debt["Critical"]) <= Run
         /\ debt["Audio"] \in Nat /\ debt["Critical"] \in Nat
         /\ debt["Audio"] <= Quantum(rate) /\ debt["Critical"] <= Quantum(rate)
         /\ debt["Audio"] * Run \in Nat /\ Quantum(rate) * Run \in Nat
         /\ passed["Audio"] \in Nat /\ passed["Video"] \in Nat
         /\ passed["Audio"] = 0 => AudioPassed
         /\ passed["Video"] = 0 => VideoPassed
<1>1. /\ debt["Audio"] \in Nat /\ debt["Critical"] \in Nat
      /\ debt["Audio"] <= Quantum(rate) /\ debt["Critical"] <= Quantum(rate)
      /\ passed["Audio"] \in Nat /\ passed["Video"] \in Nat /\ rate \in Rates
  BY DEF Types, Priorities, Waiters
<1>2. /\ Run \in Nat /\ Quantum(rate) \in Nat /\ Quantum(rate) <= Run
  BY <1>1, RateFacts
<1>3. debt["Audio"] * Run \in Nat /\ Quantum(rate) * Run \in Nat
  BY <1>1, <1>2, ProductFacts
<1>4. ServedBy(debt["Critical"]) \in Nat /\ ServedBy(debt["Critical"]) <= Run
  BY <1>1, <1>2 DEF ServedBy
<1> QED BY <1>1, <1>2, <1>3, <1>4 DEF AudioPassed, VideoPassed

\* A step that passes nobody and leaves the rate and the debts alone.
LEMMA IdleKeeps ==
  ASSUME SchedulerInv, Types', Waiting(passed), debt' = debt, rate' = rate
  PROVE  SchedulerInv'
<1>1. passed'["Audio"] <= passed["Audio"] /\ passed'["Video"] <= passed["Video"]
  BY NobodyPassed DEF SchedulerInv
<1>2. passed'["Audio"] \in Nat /\ passed'["Video"] \in Nat
  BY DEF Types, Waiters
<1>3. Quantum(rate') = Quantum(rate) /\ Run' = Run
  BY DEF Run, Quantum
<1> DEFINE a == ServedBy(debt["Critical"]) + IF debt["Audio"] < Quantum(rate) THEN Run ELSE 0
           v == ServedBy(debt["Critical"])
                + IF debt["Audio"] < Quantum(rate) THEN debt["Audio"] + debt["Audio"] * Run
                  ELSE Run + Quantum(rate) * Run
<1>4. a \in Nat /\ v \in Nat /\ passed["Audio"] \in Nat /\ passed["Video"] \in Nat
  <2>1. Run \in Nat /\ Quantum(rate) \in Nat
    BY RateFacts DEF SchedulerInv, Types
  <2> QED BY <2>1, BoundFacts DEF SchedulerInv
<1>5. passed["Audio"] <= a /\ passed["Video"] <= v
  BY DEF SchedulerInv, AudioPassed, VideoPassed
<1>6. AudioPassed' <=> passed'["Audio"] <= a
  BY <1>3 DEF AudioPassed, ServedBy
<1>7. VideoPassed' <=> passed'["Video"] <= v
  BY <1>3 DEF VideoPassed, ServedBy
<1> HIDE DEF a, v
<1> QED BY <1>1, <1>2, <1>4, <1>5, <1>6, <1>7 DEF SchedulerInv

\* Nobody has been passed.
Forgotten == Types /\ passed["Audio"] = 0 /\ passed["Video"] = 0

\* A history nobody is in is within its bounds.
LEMMA ForgottenIsBounded == Forgotten => SchedulerInv
BY BoundFacts DEF SchedulerInv, Forgotten

\* A step that forgets the history.
LEMMA ForgottenKeeps == Forgotten' => SchedulerInv'
BY ForgottenIsBounded, PTL

\* A packet is queued, and may push out the oldest of its class.
LEMMA QueuePacketKeeps ==
  ASSUME SchedulerInv, NEW class \in Classes, NEW length \in Lengths, QueuePacket(class, length)
  PROVE  SchedulerInv'
<1>1. /\ Types /\ debt' = debt /\ tokens' = tokens /\ rate' = rate /\ Waiting(passed)
      /\ \/ /\ Len(queue[class]) < QueueCapacity[class]
            /\ queue' = [queue EXCEPT ![class] = Append(queue[class], length)]
         \/ /\ Len(queue[class]) = QueueCapacity[class]
            /\ queue' = [queue EXCEPT ![class] = Append(Tail(queue[class]), length)]
  BY DEF QueuePacket, SchedulerInv
<1>2. /\ queue[class] \in Seq(Lengths) /\ Len(queue[class]) <= QueueCapacity[class]
      /\ QueueCapacity[class] \in Nat /\ QueueCapacity[class] > 0
  BY <1>1, SchedulerAssumption DEF Types
<1>3. \E q \in Seq(Lengths) : Len(q) <= QueueCapacity[class] /\ queue' = [queue EXCEPT ![class] = q]
  <2>1. CASE Len(queue[class]) < QueueCapacity[class]
    <3>1. /\ Append(queue[class], length) \in Seq(Lengths)
          /\ Len(Append(queue[class], length)) <= QueueCapacity[class]
      BY <1>2, <2>1
    <3>2. queue' = [queue EXCEPT ![class] = Append(queue[class], length)]
      BY <1>1, <1>2, <2>1
    <3> QED BY <3>1, <3>2, Zenon
  <2>2. CASE Len(queue[class]) = QueueCapacity[class]
    <3>1. queue[class] # <<>> /\ Tail(queue[class]) \in Seq(Lengths)
          /\ Len(Tail(queue[class])) = Len(queue[class]) - 1
      BY <1>2, <2>2
    <3>2. /\ Append(Tail(queue[class]), length) \in Seq(Lengths)
          /\ Len(Append(Tail(queue[class]), length)) <= QueueCapacity[class]
      BY <1>2, <2>2, <3>1
    <3>3. queue' = [queue EXCEPT ![class] = Append(Tail(queue[class]), length)]
      BY <1>1, <1>2, <2>2
    <3> QED BY <3>2, <3>3, Zenon
  <2> QED BY <1>1, <2>1, <2>2
<1>4. /\ queue' \in [Classes -> Seq(Lengths)]
      /\ \A c \in Classes : Len(queue'[c]) <= QueueCapacity[c]
  BY <1>1, <1>3 DEF Types
<1>5. passed' \in [Waiters -> Nat]
  BY <1>1, NobodyPassed
<1>6. Types'
  BY <1>1, <1>4, <1>5 DEF Types
<1> QED BY <1>1, <1>6, IdleKeeps

\* The bucket is refilled.
LEMMA TickKeeps ==
  ASSUME SchedulerInv, Tick
  PROVE  SchedulerInv'
<1>1. /\ Types /\ debt' = debt /\ queue' = queue /\ rate' = rate /\ Waiting(passed)
      /\ tokens' = Min({tokens + rate, Capacity(rate)})
  BY DEF Tick, SchedulerInv
<1>2. tokens \in Nat /\ rate \in Nat /\ Capacity(rate) \in Nat
  BY <1>1, RateFacts DEF Types
<1>3. tokens' = IF tokens + rate <= Capacity(rate) THEN tokens + rate ELSE Capacity(rate)
  BY <1>1, <1>2, MinOfTwo
<1>4. tokens' \in 0 .. Capacity(rate)
  BY <1>2, <1>3
<1>5. passed' \in [Waiters -> Nat]
  BY <1>1, NobodyPassed
<1>6. Types'
  BY <1>1, <1>4, <1>5 DEF Types
<1> QED BY <1>1, <1>6, IdleKeeps

\* A new rate clamps the credit and the debts.
LEMMA SetWireRateKeeps ==
  ASSUME SchedulerInv, NEW r \in Rates, SetWireRate(r)
  PROVE  SchedulerInv'
<1>1. /\ Types /\ queue' = queue /\ rate' = r /\ passed' = NothingPassed
      /\ tokens' = (IF rate = 0 THEN Capacity(r) ELSE Min({tokens, Capacity(r)}))
      /\ debt' = [c \in DOMAIN debt |-> Min({debt[c], Quantum(r)})]
  BY DEF SetWireRate, SchedulerInv, ClampDebt
<1>2. /\ r \in Nat /\ Quantum(r) \in Nat /\ Capacity(r) \in Nat /\ tokens \in Nat
  <2>1. r \in Nat
    BY SchedulerAssumption
  <2>2. Capacity(rate) \in Nat
    BY <1>1, RateFacts DEF Types
  <2> QED BY <1>1, <2>1, <2>2, QuantumFacts DEF Types
<1>3. tokens' \in 0 .. Capacity(r)
  <2>1. Min({tokens, Capacity(r)}) = IF tokens <= Capacity(r) THEN tokens ELSE Capacity(r)
    BY <1>2, MinOfTwo
  <2> QED BY <1>1, <1>2, <2>1
<1>4. debt \in [Priorities -> Nat]
  BY <1>1 DEF Types
<1>5. \A c \in Priorities :
         Min({debt[c], Quantum(r)}) = IF debt[c] <= Quantum(r) THEN debt[c] ELSE Quantum(r)
  BY <1>2, <1>4, MinOfTwo
<1>6. debt' \in [Priorities -> Nat] /\ \A c \in Priorities : debt'[c] <= Quantum(r)
  BY <1>1, <1>2, <1>4, <1>5
<1>7. passed' \in [Waiters -> Nat] /\ passed'["Audio"] = 0 /\ passed'["Video"] = 0
  BY <1>1 DEF NothingPassed, Waiters
<1>8. Types'
  BY <1>1, <1>3, <1>6, <1>7 DEF Types
<1> QED BY <1>7, <1>8, ForgottenKeeps DEF Forgotten

\* A new generation starts with a full bucket and without debts.
LEMMA ResetGenerationKeeps ==
  ASSUME SchedulerInv, ResetGeneration
  PROVE  SchedulerInv'
<1>1. /\ Types /\ queue' = queue /\ rate' = rate /\ passed' = NothingPassed
      /\ tokens' = Capacity(rate) /\ debt' = NoDebt
  BY DEF ResetGeneration, SchedulerInv
<1>2. Capacity(rate) \in Nat /\ Quantum(rate) \in Nat
  BY <1>1, RateFacts DEF Types
<1>3. debt' \in [Priorities -> Nat] /\ \A c \in Priorities : debt'[c] <= Quantum(rate)
  BY <1>1, <1>2 DEF NoDebt, Priorities
<1>4. passed' \in [Waiters -> Nat] /\ passed'["Audio"] = 0 /\ passed'["Video"] = 0
  BY <1>1 DEF NothingPassed, Waiters
<1>5. Types'
  BY <1>1, <1>2, <1>3, <1>4 DEF Types
<1> QED BY <1>4, <1>5, ForgottenKeeps DEF Forgotten

\* A debt stays within its quantum.
LEMMA DebtClamped ==
  ASSUME NEW q \in Nat, NEW d \in Nat, NEW len \in Nat
  PROVE  Min({d + len, q}) \in Nat /\ Min({d + len, q}) <= q
BY MinOfTwo

\* What a packet served from the head of its queue changes.
LEMMA PopFacts ==
  ASSUME SchedulerInv, NEW class \in Classes, PopDue(class), NEW length, length = Head(queue[class])
  PROVE  /\ Types /\ class \in SelectClass /\ queue[class] # <<>> /\ rate' = rate
         /\ length \in Nat /\ length > 0 /\ length <= Datagram
         /\ queue' \in [Classes -> Seq(Lengths)]
         /\ \A c \in Classes : Len(queue'[c]) <= QueueCapacity[c]
         /\ \A c \in Classes : c # class => queue'[c] = queue[c]
         /\ passed' \in [Waiters -> Nat]
         /\ passed'["Audio"] = IF Due("Audio")' /\ class # "Audio"
                               THEN passed["Audio"] + IF class = "Video" THEN 0 ELSE length
                               ELSE 0
         /\ passed'["Video"] = IF Due("Video")' /\ class # "Video"
                               THEN passed["Video"] + length ELSE 0
<1>1. /\ Types /\ class \in SelectClass /\ rate' = rate
      /\ queue' = [queue EXCEPT ![class] = Tail(queue[class])]
  BY DEF PopDue, SchedulerInv
<1>2. queue[class] # <<>>
  BY <1>1, SelectClassFacts DEF Priorities, Classes, VideoDue
<1>3. /\ length \in Nat /\ length > 0 /\ length <= Datagram
      /\ Tail(queue[class]) \in Seq(Lengths) /\ Len(Tail(queue[class])) <= QueueCapacity[class]
  BY <1>1, <1>2, HeadFacts
<1>4. /\ queue' \in [Classes -> Seq(Lengths)]
      /\ \A c \in Classes : Len(queue'[c]) <= QueueCapacity[c]
      /\ \A c \in Classes : c # class => queue'[c] = queue[c]
  BY <1>1, <1>3 DEF Types
<1> DEFINE ahead == [c \in {"Audio", "Video"} |->
                       IF c = class THEN 0
                       ELSE IF class = "Video" THEN passed[c] ELSE passed[c] + length]
<1>5. passed' = [c \in {"Audio", "Video"} |-> IF Due(c)' THEN ahead[c] ELSE 0]
  BY DEF PopDue, Waiting
<1>6. passed["Audio"] \in Nat /\ passed["Video"] \in Nat
  BY <1>1 DEF Types, Waiters
<1>7. /\ ahead["Audio"] = (IF class = "Audio" THEN 0
                           ELSE passed["Audio"] + IF class = "Video" THEN 0 ELSE length)
      /\ ahead["Video"] = (IF class = "Video" THEN 0 ELSE passed["Video"] + length)
  BY <1>6
<1>8. passed' \in [Waiters -> Nat]
  <2>1. ahead["Audio"] \in Nat /\ ahead["Video"] \in Nat
    BY <1>3, <1>6, <1>7
  <2> HIDE DEF ahead
  <2> QED BY <1>5, <2>1 DEF Waiters
<1>9. /\ passed'["Audio"] = (IF Due("Audio")' THEN ahead["Audio"] ELSE 0)
      /\ passed'["Video"] = (IF Due("Video")' THEN ahead["Video"] ELSE 0)
  BY <1>5
<1> HIDE DEF ahead
<1> QED BY <1>1, <1>2, <1>3, <1>4, <1>7, <1>8, <1>9

\* Critical traffic is served.
LEMMA PopCriticalKeeps ==
  ASSUME SchedulerInv, PopDue("Critical")
  PROVE  SchedulerInv'
<1> DEFINE length == Head(queue["Critical"])
           d == debt["Critical"]
           e == Min({d + length, Quantum(rate)})
           b == IF e < Quantum(rate) THEN e ELSE Run
           x == IF debt["Audio"] < Quantum(rate) THEN Run ELSE 0
<1>1. /\ Types /\ "Critical" \in SelectClass /\ rate' = rate
      /\ length \in Nat /\ length > 0 /\ length <= Datagram
      /\ queue' \in [Classes -> Seq(Lengths)]
      /\ \A c \in Classes : Len(queue'[c]) <= QueueCapacity[c]
      /\ queue'["Audio"] = queue["Audio"] /\ queue'["Video"] = queue["Video"]
      /\ passed' \in [Waiters -> Nat]
  BY PopFacts DEF Classes
<1>2. /\ passed'["Audio"] = (IF Due("Audio")' THEN passed["Audio"] + length ELSE 0)
      /\ passed'["Video"] = (IF Due("Video")' THEN passed["Video"] + length ELSE 0)
  BY PopFacts DEF Classes
<1>3. tokens' = tokens /\ debt' = [debt EXCEPT !["Critical"] = e]
  BY DEF PopDue, RecordService
<1>4. ~ MustYield("Critical")
  BY <1>1, SelectClassFacts DEF Priorities
<1>5. Due("Audio")' \/ Due("Video")' => d < Quantum(rate)
  <2>1. (Due("Audio")' <=> queue["Audio"] # <<>>) /\ (Due("Video")' <=> VideoDue)
    BY <1>1, <1>3 DEF Due, VideoDue, CanConsume
  <2>2. debt["Critical"] \in Nat /\ Quantum(rate) \in Nat
    BY <1>1, BoundFacts, RateFacts DEF Types
  <2> QED BY <1>4, <2>1, <2>2 DEF MustYield, LowerDue
<1> HIDE DEF length
<1>6. /\ debt["Audio"] \in Nat /\ d \in Nat /\ Quantum(rate) \in Nat /\ Run \in Nat
      /\ Datagram \in Nat /\ Run = Quantum(rate) + Datagram - 1
      /\ passed["Audio"] \in Nat /\ passed["Video"] \in Nat
      /\ debt["Audio"] * Run \in Nat /\ Quantum(rate) * Run \in Nat
  BY <1>1, BoundFacts, RateFacts DEF Types
<1>7. e \in Nat /\ e <= Quantum(rate)
  BY <1>1, <1>6, DebtClamped
<1> HIDE DEF d
<1>8. b \in Nat /\ x \in Nat /\ (d < Quantum(rate) => d + length <= b)
  <2>1. ASSUME d < Quantum(rate)
        PROVE  d + length <= IF e < Quantum(rate) THEN e ELSE Quantum(rate) + Datagram - 1
    <3>1. 0 < length
      BY <1>1
    <3> DEFINE q == Quantum(rate)
    <3>2. q \in Nat /\ d < q /\ e = Min({d + length, q})
      BY <1>6, <2>1
    <3> HIDE DEF q, e
    <3>3. d + length <= IF e < q THEN e ELSE q + Datagram - 1
      <4>1. length \in Nat /\ length <= Datagram /\ d \in Nat /\ Datagram \in Nat
        BY <1>1, <1>6
      <4>2. e = IF d + length <= q THEN d + length ELSE q
        BY <3>2, <4>1, MinOfTwo
      <4> QED BY <3>1, <3>2, <4>1, <4>2
    <3> QED BY <3>3 DEF q
  <2>2. d < Quantum(rate) => d + length <= b
    BY <1>6, <2>1
  <2> HIDE DEF e
  <2> QED BY <1>6, <1>7, <2>2
<1>9. debt'["Critical"] = e /\ debt'["Audio"] = debt["Audio"] /\ debt' \in [Priorities -> Nat]
      /\ \A c \in Priorities : debt'[c] <= Quantum(rate)
  BY <1>1, <1>3, <1>7 DEF Types, Priorities, d
<1> HIDE DEF e
<1>10. Types'
  BY <1>1, <1>3, <1>9 DEF Types
<1>11. Run' = Run /\ Quantum(rate') = Quantum(rate)
  BY <1>1 DEF Run
<1>12. AudioPassed'
  <2>1. AudioPassed' <=> passed'["Audio"] <= b + x
    BY <1>1, <1>9, <1>11 DEF AudioPassed, ServedBy
  <2>2. d < Quantum(rate) => passed["Audio"] <= d + x
    BY DEF SchedulerInv, AudioPassed, ServedBy, d
  <2> HIDE DEF b, x
  <2>3. CASE Due("Audio")'
    <3>1. passed["Audio"] <= d + x /\ d + length <= b
      BY <1>5, <1>8, <2>2, <2>3
    <3>2. passed["Audio"] + length <= b + x
      BY <1>1, <1>6, <1>8, <3>1
    <3> QED BY <1>2, <2>1, <2>3, <3>2
  <2>4. CASE ~ Due("Audio")'
    BY <1>2, <1>8, <2>1, <2>4
  <2> QED BY <2>3, <2>4
<1>13. VideoPassed'
  <2> DEFINE g == IF debt["Audio"] < Quantum(rate) THEN debt["Audio"] + debt["Audio"] * Run
                  ELSE Run + Quantum(rate) * Run
  <2>1. g \in Nat
    <3> DEFINE m == debt["Audio"] * Run
               n == Quantum(rate) * Run
    <3>1. m \in Nat /\ n \in Nat /\ g = IF debt["Audio"] < Quantum(rate) THEN debt["Audio"] + m ELSE Run + n
      BY <1>6
    <3> HIDE DEF m, n
    <3> QED BY <1>6, <3>1
  <2>2. VideoPassed' <=> passed'["Video"] <= b + g
    BY <1>1, <1>9, <1>11 DEF VideoPassed, ServedBy
  <2>3. d < Quantum(rate) => passed["Video"] <= d + g
    BY DEF SchedulerInv, VideoPassed, ServedBy, d
  <2> HIDE DEF b, g
  <2>4. CASE Due("Video")'
    <3>1. passed["Video"] <= d + g /\ d + length <= b
      BY <1>5, <1>8, <2>3, <2>4
    <3>2. passed["Video"] + length <= b + g
      BY <1>1, <1>6, <1>8, <2>1, <3>1
    <3> QED BY <1>2, <2>2, <2>4, <3>2
  <2>5. CASE ~ Due("Video")'
    BY <1>2, <1>8, <2>1, <2>2, <2>5
  <2> QED BY <2>4, <2>5
<1> QED BY <1>10, <1>12, <1>13 DEF SchedulerInv

\* An audio packet after d units of audio: with its own critical run it stays
\* within what the audio debt e that it leaves accounts for.
LEMMA AudioRunGrows ==
  ASSUME rate \in Rates, NEW d \in Nat, d < Quantum(rate),
         NEW len \in Nat, 0 < len, len <= Datagram
  PROVE  d + d * Run + Run + len
            <= IF Min({d + len, Quantum(rate)}) < Quantum(rate)
               THEN Min({d + len, Quantum(rate)}) + Min({d + len, Quantum(rate)}) * Run
               ELSE Run + Quantum(rate) * Run
<1> DEFINE q == Quantum(rate)
           run == Run
           e == Min({d + len, q})
<1>0. q \in Nat /\ run \in Nat /\ Datagram \in Nat /\ run = q + Datagram - 1 /\ d < q
  BY RateFacts
<1> HIDE DEF q, run
<1>1. e = IF d + len <= q THEN d + len ELSE q
  BY <1>0, MinOfTwo
<1> HIDE DEF e
<1>2. e \in Nat /\ d < e /\ e <= q
  BY <1>0, <1>1
<1>3. d * run + run <= e * run /\ d * run \in Nat /\ e * run \in Nat
  BY <1>0, <1>2, MultiplesGrow
<1> DEFINE m == d * run
           n == e * run
<1>4. m + run <= n /\ m \in Nat /\ n \in Nat
  BY <1>3
<1>5. e = q => n = q * run
  OBVIOUS
<1> DEFINE k == q * run
<1> HIDE DEF m, n, k
<1>6. CASE e < q
  <2>1. d + m + run + len <= e + n
    BY <1>0, <1>1, <1>2, <1>4, <1>6
  <2> QED BY <1>6, <2>1 DEF m, n, e, q, run
<1>7. CASE ~ (e < q)
  <2>1. e = q /\ n = k
    BY <1>0, <1>2, <1>5, <1>7 DEF k, n
  <2>2. d + m + run + len <= run + k
    BY <1>0, <1>2, <1>4, <2>1
  <2> QED BY <1>7, <2>2 DEF m, k, e, q, run
<1> QED BY <1>6, <1>7

\* Audio is served, and critical traffic may start a new run.
LEMMA PopAudioKeeps ==
  ASSUME SchedulerInv, PopDue("Audio")
  PROVE  SchedulerInv'
<1> DEFINE length == Head(queue["Audio"])
           d == debt["Audio"]
           q == Quantum(rate)
           e == Min({d + length, q})
<1>1. /\ Types /\ "Audio" \in SelectClass /\ rate' = rate
      /\ length \in Nat /\ length > 0 /\ length <= Datagram
      /\ queue' \in [Classes -> Seq(Lengths)]
      /\ \A c \in Classes : Len(queue'[c]) <= QueueCapacity[c]
      /\ queue'["Video"] = queue["Video"]
      /\ passed' \in [Waiters -> Nat]
  BY PopFacts DEF Classes
<1>2. /\ passed'["Audio"] = 0
      /\ passed'["Video"] = (IF Due("Video")' THEN passed["Video"] + length ELSE 0)
  BY PopFacts DEF Classes
<1>3. tokens' = tokens /\ debt' = [debt EXCEPT !["Critical"] = 0, !["Audio"] = e]
  BY DEF PopDue, RecordService
<1>4. ~ MustYield("Audio")
  BY <1>1, SelectClassFacts DEF Priorities
<1>5. /\ d \in Nat /\ q \in Nat /\ q > 0 /\ Run \in Nat
      /\ Datagram \in Nat /\ Run = q + Datagram - 1 /\ q <= Run
      /\ passed["Video"] \in Nat /\ q * Run \in Nat /\ debt["Critical"] \in Nat
  BY <1>1, BoundFacts, RateFacts DEF Types
<1>6. Due("Video")' => d < q
  <2>1. Due("Video")' <=> VideoDue
    BY <1>1, <1>3 DEF Due, VideoDue, CanConsume
  <2> QED BY <1>4, <1>5, <2>1 DEF MustYield, LowerDue
<1> HIDE DEF length
<1>7. e \in Nat /\ e <= q
  BY <1>1, <1>5, DebtClamped
<1>8. debt'["Critical"] = 0 /\ debt'["Audio"] = e /\ debt' \in [Priorities -> Nat]
      /\ \A c \in Priorities : debt'[c] <= q
  <2> HIDE DEF e, q
  <2>1. debt \in [Priorities -> Nat]
    BY <1>1 DEF Types
  <2> QED BY <1>3, <1>5, <1>7, <2>1 DEF Priorities
<1>9. Types'
  BY <1>1, <1>3, <1>8 DEF Types
<1>10. Run' = Run /\ Quantum(rate') = q
  BY <1>1 DEF Run
<1> DEFINE g == IF e < q THEN e + e * Run ELSE Run + q * Run
<1>11. g \in Nat
  <2> DEFINE m == e * Run
             n == q * Run
  <2> HIDE DEF e, q
  <2>1. m \in Nat /\ n \in Nat /\ g = IF e < q THEN e + m ELSE Run + n
    BY <1>5, <1>7
  <2> HIDE DEF m, n
  <2> QED BY <1>5, <1>7, <2>1
<1>12. AudioPassed'
  <2>1. AudioPassed' <=> passed'["Audio"] <= (IF 0 < q THEN 0 ELSE Run) + IF e < q THEN Run ELSE 0
    BY <1>8, <1>10 DEF AudioPassed, ServedBy
  <2> HIDE DEF e, q
  <2> QED BY <1>2, <1>5, <2>1
<1>13. VideoPassed'
  <2>1. VideoPassed' <=> passed'["Video"] <= (IF 0 < q THEN 0 ELSE Run) + g
    BY <1>8, <1>10 DEF VideoPassed, ServedBy
  <2>2. CASE Due("Video")'
    <3>1. d < q
      BY <1>6, <2>2
    <3>2. d + d * Run + Run + length <= g
      <4>1. 0 < length
        BY <1>1
      <4> HIDE DEF d
      <4> QED BY <1>1, <1>5, <3>1, <4>1, AudioRunGrows DEF Types
    <3>3. ServedBy(debt["Critical"]) \in Nat /\ ServedBy(debt["Critical"]) <= Run
      BY <1>1, <1>5 DEF ServedBy, Types, Priorities
    <3>4. passed["Video"] <= ServedBy(debt["Critical"]) + (d + d * Run)
      BY <3>1 DEF SchedulerInv, VideoPassed
    <3>5. d * Run \in Nat
      BY <1>5
    <3> DEFINE m == d * Run
               s == ServedBy(debt["Critical"])
    <3>6. passed["Video"] <= s + (d + m) /\ d + m + Run + length <= g /\ s <= Run /\ m \in Nat /\ s \in Nat
      BY <3>2, <3>3, <3>4, <3>5
    <3> HIDE DEF m, s, d, g, q
    <3>7. passed["Video"] + length <= g
      BY <1>1, <1>5, <1>11, <3>6
    <3> QED BY <1>2, <1>5, <1>11, <2>1, <2>2, <3>7
  <2>3. CASE ~ Due("Video")'
    <3> HIDE DEF g, q
    <3> QED BY <1>2, <1>5, <1>11, <2>1, <2>3
  <2> QED BY <2>2, <2>3
<1> QED BY <1>9, <1>12, <1>13 DEF SchedulerInv

\* Video is served: every debt is forgiven, and audio that waits has been
\* passed by one run of critical traffic only, having used up its quantum.
LEMMA PopVideoKeeps ==
  ASSUME SchedulerInv, PopDue("Video")
  PROVE  SchedulerInv'
<1> DEFINE length == Head(queue["Video"])
           q == Quantum(rate)
<1>1. /\ Types /\ "Video" \in SelectClass /\ rate' = rate
      /\ length \in Nat /\ length > 0 /\ length <= Datagram
      /\ queue' \in [Classes -> Seq(Lengths)]
      /\ \A c \in Classes : Len(queue'[c]) <= QueueCapacity[c]
      /\ queue'["Audio"] = queue["Audio"]
      /\ passed' \in [Waiters -> Nat]
  BY PopFacts DEF Classes
<1>2. /\ passed'["Video"] = 0
      /\ passed'["Audio"] = (IF Due("Audio")' THEN passed["Audio"] + 0 ELSE 0)
  BY PopFacts DEF Classes
<1>3. /\ tokens' = (IF rate = 0 THEN tokens ELSE tokens - length)
      /\ debt' = [debt EXCEPT !["Critical"] = 0, !["Audio"] = 0]
  BY DEF PopDue, RecordService, Consume
<1>4. VideoDue /\ (queue["Audio"] # <<>> => MustYield("Audio"))
  BY <1>1, SelectClassFacts
<1>5. /\ q \in Nat /\ q > 0 /\ Run \in Nat /\ q <= Run /\ q * Run \in Nat
      /\ debt["Critical"] \in Nat /\ debt["Audio"] \in Nat
      /\ passed["Audio"] \in Nat /\ tokens \in Nat /\ Capacity(rate) \in Nat
      /\ tokens <= Capacity(rate)
  BY <1>1, BoundFacts, RateFacts DEF Types
<1>6. Due("Audio")' => debt["Audio"] >= q
  BY <1>1, <1>4 DEF Due, MustYield
<1>7. rate = 0 \/ tokens >= length
  BY <1>4 DEF VideoDue, CanConsume
<1> HIDE DEF length
<1>8. tokens' \in 0 .. Capacity(rate)
  BY <1>1, <1>3, <1>5, <1>7
<1>9. debt'["Critical"] = 0 /\ debt'["Audio"] = 0 /\ debt' \in [Priorities -> Nat]
      /\ \A c \in Priorities : debt'[c] <= q
  <2> HIDE DEF q
  <2>1. debt \in [Priorities -> Nat]
    BY <1>1 DEF Types
  <2> QED BY <1>3, <1>5, <2>1 DEF Priorities
<1>10. Types'
  BY <1>1, <1>8, <1>9 DEF Types
<1>11. Run' = Run /\ Quantum(rate') = q
  BY <1>1 DEF Run
<1>12. AudioPassed'
  <2>1. AudioPassed' <=> passed'["Audio"] <= (IF 0 < q THEN 0 ELSE Run) + IF 0 < q THEN Run ELSE 0
    BY <1>9, <1>11 DEF AudioPassed, ServedBy
  <2>2. Due("Audio")' => passed["Audio"] <= Run
    <3>1. ServedBy(debt["Critical"]) \in Nat /\ ServedBy(debt["Critical"]) <= Run
      BY <1>1, <1>5 DEF ServedBy, Types, Priorities
    <3>2. passed["Audio"] <= ServedBy(debt["Critical"]) + IF debt["Audio"] < q THEN Run ELSE 0
      BY DEF SchedulerInv, AudioPassed
    <3> HIDE DEF q
    <3> QED BY <1>5, <1>6, <3>1, <3>2
  <2> HIDE DEF q
  <2> QED BY <1>2, <1>5, <2>1, <2>2
<1>13. VideoPassed'
  <2>1. VideoPassed' <=> passed'["Video"] <= (IF 0 < q THEN 0 ELSE Run)
                                            + IF 0 < q THEN 0 + 0 * Run ELSE Run + q * Run
    BY <1>9, <1>11 DEF VideoPassed, ServedBy
  <2> HIDE DEF q
  <2> QED BY <1>2, <1>5, <2>1
<1> QED BY <1>10, <1>12, <1>13 DEF SchedulerInv

\* Every step keeps the invariant.
LEMMA NextSchedulerInv == SchedulerInv /\ [Next]_vars => SchedulerInv'
<1> SUFFICES ASSUME SchedulerInv, [Next]_vars PROVE SchedulerInv'
  OBVIOUS
<1>1. ASSUME NEW class \in Classes, NEW length \in Lengths, QueuePacket(class, length)
      PROVE  SchedulerInv'
  BY <1>1, QueuePacketKeeps
<1>2. ASSUME NEW class \in Classes, PopDue(class) PROVE SchedulerInv'
  BY <1>2, PopCriticalKeeps, PopAudioKeeps, PopVideoKeeps DEF Classes
<1>3. CASE Tick
  BY <1>3, TickKeeps
<1>4. ASSUME NEW r \in Rates, SetWireRate(r) PROVE SchedulerInv'
  BY <1>4, SetWireRateKeeps
<1>5. CASE ResetGeneration
  BY <1>5, ResetGenerationKeeps
<1>6. CASE UNCHANGED vars
  BY <1>6 DEF vars, SchedulerInv, Types, AudioPassed, VideoPassed, ServedBy, Run
<1> QED BY <1>1, <1>2, <1>3, <1>4, <1>5, <1>6 DEF Next

-----------------------------------------------------------------------------
(* Theorems. *)

\* The debts account for all that has been served ahead of a waiting class.
THEOREM SchedulerInvariance == Spec => []SchedulerInv
<1> QED BY InitSchedulerInv, NextSchedulerInv, PTL DEF Spec

\* Queues, debts and credit stay within their bounds through every mixture of
\* queued packets, rate changes and path migrations.
THEOREM TypeOKHolds == Spec => []TypeOK
<1>1. SchedulerInv => TypeOK
  <2> SUFFICES ASSUME SchedulerInv PROVE TypeOK
    OBVIOUS
  <2>1. Types /\ Quantum(rate) \in Nat
    BY RateFacts DEF SchedulerInv, Types
  <2>2. \A c \in Classes : queue[c] \in Seq(Lengths) /\ Len(queue[c]) <= QueueCapacity[c]
    BY <2>1 DEF Types
  <2>3. \A c \in DOMAIN debt : debt[c] \in 0 .. Quantum(rate)
    <3>1. debt \in [Priorities -> Nat] /\ \A c \in Priorities : debt[c] <= Quantum(rate)
      BY <2>1 DEF Types
    <3> QED BY <2>1, <3>1
  <2> QED BY <2>1, <2>2, <2>3 DEF TypeOK, Types
<1> QED BY <1>1, SchedulerInvariance, PTL

\* A queued packet can be sent at once, or it is video whose bucket a refill
\* can fill far enough: select_class never lets two yielding classes wait for
\* each other, and capacity is never below a datagram.
THEOREM NothingStrandedHolds == Spec => []NothingStranded
<1>1. SchedulerInv => NothingStranded
  <2> SUFFICES ASSUME SchedulerInv, \E c \in Classes : queue[c] # <<>>, SelectClass = {}
               PROVE  /\ queue["Critical"] = <<>> /\ queue["Audio"] = <<>>
                      /\ Head(queue["Video"]) <= Capacity(rate)
    BY DEF NothingStranded
  <2>1. Types /\ rate \in Rates
    BY DEF SchedulerInv, Types
  <2>2. ~ VideoDue
    BY DEF SelectClass
  <2>3. queue["Audio"] = <<>>
    BY <2>2 DEF SelectClass, MustYield, LowerDue
  <2>4. queue["Critical"] = <<>>
    BY <2>2, <2>3 DEF SelectClass, MustYield, LowerDue
  <2>5. queue["Video"] # <<>> /\ rate # 0
    BY <2>2, <2>3, <2>4 DEF Classes, VideoDue, CanConsume
  <2>6. Head(queue["Video"]) <= Datagram /\ Head(queue["Video"]) \in Nat
    BY <2>1, <2>5, HeadFacts DEF Classes
  <2> QED BY <2>1, <2>3, <2>4, <2>5, <2>6, RateFacts
<1> QED BY <1>1, SchedulerInvariance, PTL

\* Waiting audio and due video are passed by a bounded amount of higher
\* traffic, whatever the rate, the packet sizes and the order of arrival.
THEOREM PriorityIsBoundedHolds == Spec => []PriorityIsBounded
<1>1. SchedulerInv => PriorityIsBounded
  <2> SUFFICES ASSUME SchedulerInv PROVE PriorityIsBounded
    OBVIOUS
  <2> DEFINE s == ServedBy(debt["Critical"])
             q == Quantum(rate)
             d == debt["Audio"]
             m == d * Run
             n == q * Run
  <2>1. /\ s \in Nat /\ s <= Run /\ q \in Nat /\ d \in Nat /\ Run \in Nat /\ q <= Run
        /\ passed["Audio"] \in Nat /\ passed["Video"] \in Nat
    BY BoundFacts, RateFacts DEF SchedulerInv, Types
  <2>2. /\ passed["Audio"] <= s + IF d < q THEN Run ELSE 0
        /\ passed["Video"] <= s + IF d < q THEN d + m ELSE Run + n
    BY DEF SchedulerInv, AudioPassed, VideoPassed
  <2> HIDE DEF s, q, d
  <2>3. m \in Nat /\ n \in Nat /\ (d < q => m + Run <= n) /\ (q + 1) * Run = n + Run
    BY <2>1, MultiplesGrow
  <2> HIDE DEF m, n
  <2>4. passed["Audio"] <= 2 * Run
    BY <2>1, <2>2
  <2>5. passed["Video"] <= Run + (n + Run)
    BY <2>1, <2>2, <2>3
  <2>6. passed["Video"] <= Run + (q + 1) * Run
    BY <2>3, <2>5
  <2> QED BY <2>4, <2>6 DEF PriorityIsBounded, q
<1> QED BY <1>1, SchedulerInvariance, PTL

=============================================================================
