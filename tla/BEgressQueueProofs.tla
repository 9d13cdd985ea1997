------------------------- MODULE BEgressQueueProofs -------------------------
(* Proofs about BEgressQueue for every number of queues, every packet size    *)
(* and every limit: the port never idles beside a packet it may send, the     *)
(* round robin of DoDequeueRR is one, and the counters of bytes are exact.    *)
EXTENDS BEgressQueue, SumLemmas, SequenceTheorems

\* What the proofs need of the type of the port.  (That the counters of bytes stay
\* naturals follows from what they count, see Counted.)
Shape ==
    [queues : [Queues -> Seq(Sizes)], bytes : [Queues -> Int], total : Int,
     rrlast : Queues, paused : SUBSET DataQueues, ready : BOOLEAN]

\* How many queues DoDequeueRR looks at until it comes to q.
Distance(p, q) == IF q > p.rrlast THEN q - p.rrlast ELSE q - p.rrlast + QCnt

\* Nothing passes queue 0.  A data queue that has passed q once has its next turn
\* after q, so that it cannot pass q again.
TurnOf(p, h) ==
    \A q \in Queues, r \in DataQueues :
        /\ q = 0 => h[q][r] = 0
        /\ h[q][r] <= 1
        /\ h[q][r] = 1 => Distance(p, q) < Distance(p, r)

\* The inductive invariant.
IInv ==
    /\ port \in Shape
    /\ passed \in [Queues -> [DataQueues -> Nat]]
    /\ WorkConserving
    /\ TurnOf(port, passed)

-----------------------------------------------------------------------------
(* Arithmetic of the turns.                                                   *)

LEMMA Wrap ==
    ASSUME NEW a \in Nat, a < 2 * QCnt
    PROVE  a % QCnt = IF a < QCnt THEN a ELSE a - QCnt
BY QueueAssumption

LEMMA TurnOfDistance ==
    ASSUME NEW p \in Shape, NEW q \in Queues
    PROVE  Distance(p, q) \in 1..QCnt /\ Turn(p, Distance(p, q)) = q
<1>1. p.rrlast \in Queues
  BY DEF Shape
<1>2. Distance(p, q) \in 1..QCnt
  BY <1>1, QueueAssumption DEF Distance, Queues
<1>3. /\ Distance(p, q) + p.rrlast \in Nat
      /\ Distance(p, q) + p.rrlast < 2 * QCnt
      /\ \/ Distance(p, q) + p.rrlast = q
         \/ Distance(p, q) + p.rrlast = q + QCnt
  BY <1>1, QueueAssumption DEF Distance, Queues
<1>4. q \in Nat /\ q < QCnt
  BY QueueAssumption DEF Queues
<1>5. Turn(p, Distance(p, q)) = q
  BY <1>3, <1>4, Wrap, QueueAssumption DEF Turn
<1>6. QED
  BY <1>2, <1>5

LEMMA DistanceOfTurn ==
    ASSUME NEW p \in Shape, NEW k \in 1..QCnt
    PROVE  Turn(p, k) \in Queues /\ Distance(p, Turn(p, k)) = k
<1>1. p.rrlast \in Nat /\ p.rrlast < QCnt
  BY QueueAssumption DEF Shape, Queues
<1>2. k + p.rrlast \in Nat /\ k + p.rrlast < 2 * QCnt
  BY <1>1, QueueAssumption
<1> DEFINE a == k + p.rrlast
<1>3. Turn(p, k) = IF a < QCnt THEN a ELSE a - QCnt
  <2> HIDE DEF a
  <2>1. a % QCnt = IF a < QCnt THEN a ELSE a - QCnt
    BY <1>2, Wrap DEF a
  <2>2. QED
    BY <2>1 DEF Turn, a
<1>4. QED
  BY <1>1, <1>3, QueueAssumption DEF Distance, Queues

LEMMA MinOfSet ==
    ASSUME NEW S, S \subseteq Nat, S # {}
    PROVE  Min(S) \in S /\ \A x \in S : Min(S) <= x
<1> DEFINE R == {ss \in Nat \X Nat : ss[1] < ss[2]}
<1>1. IsWellFoundedOn(R, Nat)
  BY NatLessThanWellFounded, Zenon DEF OpToRel
<1>2. PICK x \in S : \A y \in S : ~ (<<y, x>> \in R)
  <2> HIDE DEF R
  <2>1. QED
    BY <1>1, WFMin
<1>3. ASSUME NEW y \in S PROVE x <= y
  <2>1. <<y, x>> \in Nat \X Nat /\ <<y, x>>[1] = y /\ <<y, x>>[2] = x
    OBVIOUS
  <2>2. ~(y < x)
    BY <1>2, <2>1, Zenon
  <2>3. QED
    BY <2>2
<1>4. QED
  BY <1>3 DEF Min

(* What DoDequeueRR chooses: a packet of queue 0, or else the first queue     *)
(* that may send, or nothing when there is none.                              *)
LEMMA Choice ==
    ASSUME NEW p \in Shape
    PROVE  /\ Chosen(p) = None => \A q \in Queues : ~MaySend(p, q)
           /\ Chosen(p) # None =>
                 /\ Chosen(p) \in Queues /\ MaySend(p, Chosen(p))
                 /\ HasPacket(p, 0) => Chosen(p) = 0
                 /\ Chosen(p) # 0 => \A q \in Queues :
                       MaySend(p, q) => Distance(p, Chosen(p)) <= Distance(p, q)
<1>1. 0 \in Queues /\ 0 \notin p.paused /\ \A q \in Queues : q # None
  BY QueueAssumption DEF Queues, DataQueues, Shape, None
<1>2. CASE HasPacket(p, 0)
  BY <1>1, <1>2 DEF Chosen, MaySend
<1>3. CASE ~HasPacket(p, 0) /\ Turns(p) # {}
  <2>1. Turns(p) \subseteq Nat /\ Turns(p) \subseteq 1..QCnt
    BY QueueAssumption DEF Turns
  <2>2. Min(Turns(p)) \in Turns(p) /\ \A k \in Turns(p) : Min(Turns(p)) <= k
    BY <2>1, <1>3, MinOfSet
  <2> DEFINE k == Min(Turns(p))
  <2>3. k \in 1..QCnt /\ Chosen(p) = Turn(p, k) /\ MaySend(p, Turn(p, k))
    BY <2>1, <2>2, <1>3 DEF Chosen, Turns
  <2>4. Chosen(p) \in Queues /\ Distance(p, Chosen(p)) = k
    BY <2>3, DistanceOfTurn
  <2>5. ASSUME NEW q \in Queues, MaySend(p, q) PROVE k <= Distance(p, q)
    <3>1. Distance(p, q) \in Turns(p)
      BY <2>5, TurnOfDistance DEF Turns
    <3>2. QED
      BY <3>1, <2>2
  <2>6. QED
    BY <2>3, <2>4, <2>5, <1>3, <1>1
<1>4. CASE ~HasPacket(p, 0) /\ Turns(p) = {}
  <2>1. Chosen(p) = None
    BY <1>4 DEF Chosen
  <2>2. ASSUME NEW q \in Queues, MaySend(p, q) PROVE FALSE
    BY <2>2, <1>4, TurnOfDistance DEF Turns
  <2>3. QED
    BY <2>1, <2>2
<1>5. QED
  BY <1>2, <1>3, <1>4

(* After c was served, the queues beyond c are nearer by the distance of c,   *)
(* and c itself is the farthest.                                              *)
LEMMA Shift ==
    ASSUME NEW p \in Shape, NEW p2 \in Shape, NEW c \in Queues, p2.rrlast = c
    PROVE  /\ Distance(p2, c) = QCnt
           /\ \A q \in Queues : Distance(p, c) < Distance(p, q) =>
                 Distance(p2, q) = Distance(p, q) - Distance(p, c)
<1>1. p.rrlast \in Queues
  BY DEF Shape
<1>2. QED
  BY <1>1, QueueAssumption DEF Distance, Queues

LEMMA Distinct ==
    ASSUME NEW p \in Shape, NEW q \in Queues, NEW c \in Queues,
           q # c, Distance(p, c) <= Distance(p, q)
    PROVE  Distance(p, c) < Distance(p, q)
<1>1. Distance(p, c) \in Nat /\ Distance(p, q) \in Nat
  BY TurnOfDistance, QueueAssumption
<1>2. Distance(p, c) # Distance(p, q)
  BY TurnOfDistance
<1>3. QED
  BY <1>1, <1>2

(* A packet is taken from a queue that has one.                               *)
LEMMA SendShape ==
    ASSUME NEW p \in Shape, NEW c \in Queues, HasPacket(p, c)
    PROVE  Send(p, c) \in Shape /\ Send(p, c).ready = FALSE /\ Send(p, c).rrlast = RRLast(p, c)
<1>1. /\ p.queues[c] \in Seq(Sizes) /\ p.queues[c] # <<>>
      /\ p.rrlast \in Queues
  BY DEF Shape, HasPacket
<1>2. Head(p.queues[c]) \in Int /\ Tail(p.queues[c]) \in Seq(Sizes)
  <2>1. Head(p.queues[c]) \in Sizes /\ Tail(p.queues[c]) \in Seq(Sizes)
    BY <1>1, HeadTailProperties, Zenon
  <2>2. \A x \in Sizes : x \in Int
    BY SizeAssumption
  <2>3. QED
    BY <2>1, <2>2, Zenon
<1>3. RRLast(p, c) \in Queues
  BY <1>1 DEF RRLast
<1> DEFINE z == Head(p.queues[c])
           queues == [p.queues EXCEPT ![c] = Tail(@)]
           bytes == [p.bytes EXCEPT ![c] = @ - z]
<1>4. queues \in [Queues -> Seq(Sizes)] /\ bytes \in [Queues -> Int] /\ p.total - z \in Int
  <2>1. p.queues \in [Queues -> Seq(Sizes)] /\ p.bytes \in [Queues -> Int] /\ p.total \in Int
    BY DEF Shape
  <2>2. QED
    BY <2>1, <1>2
<1>5. Send(p, c) = [p EXCEPT !.queues = queues, !.bytes = bytes, !.total = @ - z,
                             !.rrlast = RRLast(p, c), !.ready = FALSE]
  BY DEF Send
<1> HIDE DEF z, queues, bytes
<1>6. QED
  BY <1>3, <1>4, <1>5 DEF Shape

(* The turns are kept when c is served.                                       *)
LEMMA ServeKeepsTurns ==
    ASSUME NEW p \in Shape, passed \in [Queues -> [DataQueues -> Nat]], TurnOf(p, passed),
           Sends(p), NEW p2 \in Shape, p2.rrlast = RRLast(p, Chosen(p))
    PROVE  Overtake(p) \in [Queues -> [DataQueues -> Nat]] /\ TurnOf(p2, Overtake(p))
<1> DEFINE c == Chosen(p)
           h == Overtake(p)
<1>1. /\ c \in Queues /\ MaySend(p, c)
      /\ HasPacket(p, 0) => c = 0
      /\ c # 0 => \A q \in Queues : MaySend(p, q) => Distance(p, c) <= Distance(p, q)
  BY Choice DEF Sends
<1>2. h = [q \in Queues |-> [r \in DataQueues |->
             IF q = c \/ ~MaySend(p, q) THEN 0
             ELSE IF r = c THEN passed[q][r] + 1
             ELSE passed[q][r]]]
  BY DEF Overtake
<1>3. p2.rrlast = RRLast(p, c) /\ DataQueues \subseteq Queues
  BY DEF DataQueues
<1> HIDE DEF c, h
<1>4. h \in [Queues -> [DataQueues -> Nat]]
  BY <1>2
<1>5. ASSUME NEW q \in Queues, NEW r \in DataQueues
      PROVE  /\ q = 0 => h[q][r] = 0
             /\ h[q][r] <= 1
             /\ h[q][r] = 1 => Distance(p2, q) < Distance(p2, r)
  <2>1. /\ passed[q][r] \in Nat
        /\ passed[q][r] <= 1
        /\ passed[q][r] = 1 => Distance(p, q) < Distance(p, r)
    BY DEF TurnOf
  <2>2. r \in Queues /\ r # 0
    BY DEF DataQueues
  <2>3. CASE q = c \/ ~MaySend(p, q)
    BY <2>3, <1>2
  <2>4. CASE q # c /\ MaySend(p, q)
    <3>1. q # 0
      BY <2>4, <1>1 DEF MaySend
    <3>2. CASE c = 0
      <4>1. h[q][r] = passed[q][r]
        BY <3>2, <2>4, <2>2, <1>2
      <4>2. Distance(p2, q) = Distance(p, q) /\ Distance(p2, r) = Distance(p, r)
        BY <3>2, <1>3 DEF RRLast, Distance
      <4>3. QED
        BY <4>1, <4>2, <3>1, <2>1
    <3>3. CASE c # 0
      <4>1. Distance(p, c) < Distance(p, q)
        BY <3>3, <2>4, <1>1, Distinct
      <4>2. p2.rrlast = c
        BY <3>3, <1>3 DEF RRLast
      <4>3. /\ Distance(p, c) \in 1..QCnt /\ Distance(p, q) \in 1..QCnt
            /\ Distance(p, r) \in 1..QCnt
        BY <1>1, <2>2, TurnOfDistance
      <4>4. /\ Distance(p2, c) = QCnt
            /\ Distance(p2, q) = Distance(p, q) - Distance(p, c)
            /\ Distance(p, c) < Distance(p, r) =>
                  Distance(p2, r) = Distance(p, r) - Distance(p, c)
        BY <4>1, <4>2, <1>1, <2>2, Shift
      <4>5. CASE r = c
        <5>1. passed[q][r] = 0
          BY <4>5, <4>1, <4>3, <2>1
        <5>2. h[q][r] = 1
          BY <5>1, <4>5, <2>4, <1>2
        <5>3. Distance(p2, q) < Distance(p2, r)
          BY <4>5, <4>3, <4>4, QueueAssumption
        <5>4. QED
          BY <5>2, <5>3, <3>1
      <4>6. CASE r # c
        <5>1. h[q][r] = passed[q][r]
          BY <4>6, <2>4, <1>2
        <5>2. passed[q][r] = 1 => Distance(p2, q) < Distance(p2, r)
          BY <4>1, <4>3, <4>4, <2>1, QueueAssumption
        <5>3. QED
          BY <5>1, <5>2, <3>1, <2>1
      <4>7. QED
        BY <4>5, <4>6
    <3>4. QED
      BY <3>2, <3>3
  <2>5. QED
    BY <2>3, <2>4
<1>6. QED
  BY <1>4, <1>5 DEF TurnOf, h

(* Every event that looks at the queues leaves the port busy or with nothing  *)
(* that it may send.                                                          *)
LEMMA LookKeeps ==
    ASSUME NEW p \in Shape, passed \in [Queues -> [DataQueues -> Nat]], TurnOf(p, passed),
           Look(p)
    PROVE  IInv'
<1>1. CASE ~Sends(p)
  <2>1. port' = p /\ passed' = passed
    BY <1>1 DEF Look, DequeueAndTransmit, Overtake
  <2>2. p.ready => \A q \in Queues : ~MaySend(p, q)
    BY <1>1, Choice DEF Sends
  <2>3. WorkConserving'
    BY <2>1, <2>2 DEF WorkConserving, HasPacket, MaySend
  <2>4. TurnOf(port', passed')
    BY <2>1
  <2>5. QED
    BY <2>1, <2>3, <2>4 DEF IInv
<1>2. CASE Sends(p)
  <2>1. port' = Send(p, Chosen(p)) /\ passed' = Overtake(p)
    BY <1>2 DEF Look, DequeueAndTransmit
  <2>2. Chosen(p) \in Queues /\ HasPacket(p, Chosen(p))
    BY <1>2, Choice DEF Sends, MaySend
  <2>3. port' \in Shape /\ port'.ready = FALSE /\ port'.rrlast = RRLast(p, Chosen(p))
    BY <2>1, <2>2, SendShape
  <2>4. passed' \in [Queues -> [DataQueues -> Nat]] /\ TurnOf(port', passed')
    BY <2>1, <2>3, <1>2, ServeKeepsTurns
  <2>5. WorkConserving'
    BY <2>3 DEF WorkConserving
  <2>6. QED
    BY <2>3, <2>4, <2>5 DEF IInv
<1>3. QED
  BY <1>1, <1>2

-----------------------------------------------------------------------------
LEMMA InitIInv == Init => IInv
<1> SUFFICES ASSUME Init PROVE IInv
  OBVIOUS
<1>1. 0 \in Queues
  BY QueueAssumption DEF Queues
<1>2. port \in Shape
  BY <1>1 DEF Init, Shape
<1>3. passed \in [Queues -> [DataQueues -> Nat]] /\ TurnOf(port, passed)
  BY DEF Init, TurnOf
<1>4. WorkConserving
  BY DEF Init, WorkConserving, HasPacket
<1>5. QED
  BY <1>2, <1>3, <1>4 DEF IInv

LEMMA NextKeeps == IInv /\ [Next]_vars => IInv'
<1> SUFFICES ASSUME IInv, [Next]_vars PROVE IInv'
  OBVIOUS
<1>0. /\ port \in Shape /\ TurnOf(port, passed)
      /\ passed \in [Queues -> [DataQueues -> Nat]] /\ WorkConserving
  BY DEF IInv
<1>1. ASSUME NEW q \in Queues, NEW z \in Sizes, SwitchSend(q, z) PROVE IInv'
  <2>1. Append(port.queues[q], z) \in Seq(Sizes) /\ z \in Int
    BY <1>0, SizeAssumption DEF Shape
  <2>2. Enqueue(port, q, z) \in Shape /\ Enqueue(port, q, z).rrlast = port.rrlast
    <3> DEFINE queues == [port.queues EXCEPT ![q] = Append(@, z)]
               bytes == [port.bytes EXCEPT ![q] = @ + z]
    <3>1. queues \in [Queues -> Seq(Sizes)] /\ bytes \in [Queues -> Int] /\ port.total + z \in Int
      <4>1. /\ port.queues \in [Queues -> Seq(Sizes)] /\ port.bytes \in [Queues -> Int]
            /\ port.total \in Int
        BY <1>0 DEF Shape
      <4>2. QED
        BY <4>1, <2>1
    <3>2. \/ Enqueue(port, q, z) = port
          \/ Enqueue(port, q, z) = [port EXCEPT !.queues = queues, !.bytes = bytes, !.total = @ + z]
      BY DEF Enqueue
    <3> HIDE DEF queues, bytes
    <3>3. QED
      BY <1>0, <3>1, <3>2 DEF Shape
  <2>3. TurnOf(Enqueue(port, q, z), passed)
    BY <1>0, <2>2 DEF TurnOf, Distance
  <2>4. QED
    BY <1>0, <1>1, <2>2, <2>3, LookKeeps DEF SwitchSend
<1>2. CASE TransmitComplete
  <2> DEFINE p == [port EXCEPT !.ready = TRUE]
  <2>1. p \in Shape /\ p.rrlast = port.rrlast
    BY <1>0 DEF Shape
  <2>2. TurnOf(p, passed)
    BY <1>0, <2>1 DEF TurnOf, Distance
  <2>3. QED
    BY <1>0, <1>2, <2>1, <2>2, LookKeeps DEF TransmitComplete
<1>3. ASSUME NEW q \in DataQueues, Pause(q) PROVE IInv'
  <2>1. /\ port' \in Shape /\ port'.rrlast = port.rrlast /\ port'.queues = port.queues
        /\ port'.ready = port.ready /\ port.paused \subseteq port'.paused
    BY <1>0, <1>3 DEF Shape, Pause
  <2>2. /\ passed' \in [Queues -> [DataQueues -> Nat]]
        /\ \A s \in Queues, r \in DataQueues :
              passed'[s][r] = 0 \/ passed'[s][r] = passed[s][r]
    BY <1>0, <1>3 DEF Pause
  <2>3. TurnOf(port', passed')
    BY <1>0, <2>1, <2>2 DEF TurnOf, Distance
  <2>4. WorkConserving'
    BY <1>0, <2>1 DEF WorkConserving, HasPacket
  <2>5. QED
    BY <2>1, <2>2, <2>3, <2>4 DEF IInv
<1>4. ASSUME NEW q \in DataQueues, Resume(q) PROVE IInv'
  <2> DEFINE p == [port EXCEPT !.paused = @ \ {q}]
  <2>1. p \in Shape /\ p.rrlast = port.rrlast
    BY <1>0 DEF Shape
  <2>2. TurnOf(p, passed)
    BY <1>0, <2>1 DEF TurnOf, Distance
  <2>3. QED
    BY <1>0, <1>4, <2>1, <2>2, LookKeeps DEF Resume
<1>5. CASE UNCHANGED vars
  BY <1>0, <1>5 DEF vars, IInv, WorkConserving, HasPacket, TurnOf
<1>6. QED
  BY <1>1, <1>2, <1>3, <1>4, <1>5 DEF Next

LEMMA Invariant == Spec => []IInv
BY InitIInv, NextKeeps, PTL DEF Spec

(* A READY port has no packet that it may send.                               *)
THEOREM NeverIdle == Spec => []WorkConserving
<1>1. IInv => WorkConserving
  BY DEF IInv
<1>2. QED
  BY <1>1, Invariant, PTL

(* No data queue sends twice past another that may send, and nothing passes   *)
(* queue 0.                                                                   *)
THEOREM FairTurns == Spec => []RoundRobin
<1>1. IInv => RoundRobin
  BY DEF IInv, TurnOf, RoundRobin
<1>2. QED
  BY <1>1, Invariant, PTL

-----------------------------------------------------------------------------
(* The counters of bytes.                                                      *)

\* The bytes in a queue.
Bytes(s) == Sum(s, DOMAIN s)

(* Bytes is the fold of TypeOK.                                              *)
LEMMA BytesFacts ==
    ASSUME NEW s \in Seq(Sizes)
    PROVE  /\ DOMAIN s = 1..Len(s) /\ Len(s) \in Nat /\ IsFiniteSet(1..Len(s))
           /\ \A k \in 1..Len(s) : s[k] \in Nat
           /\ IsInteger(s, 1..Len(s))
           /\ Bytes(s) \in Nat /\ Bytes(s) = FoldSeq(+, 0, s)
<1>1. DOMAIN s = 1..Len(s) /\ Len(s) \in Nat
  BY LenProperties
<1>2. IsFiniteSet(1..Len(s))
  BY <1>1, FS_Interval
<1>3. \A k \in 1..Len(s) : s[k] \in Nat
  <2>1. \A z \in Sizes : z \in Nat
    BY SizeAssumption
  <2>2. \A k \in 1..Len(s) : s[k] \in Sizes
    BY ElementOfSeq
  <2>3. QED
    BY <2>1, <2>2
<1>4. IsInteger(s, 1..Len(s)) /\ Bytes(s) \in Nat
  <2>1. Sum(s, 1..Len(s)) \in Nat
    BY <1>2, <1>3, SumNatural
  <2>2. QED
    BY <1>1, <1>3, <2>1 DEF IsInteger, Bytes
<1>5. Bytes(s) = FoldSeq(+, 0, s)
  BY DEF Bytes, Sum, MapThenSumSet, FoldSeq, FoldFunction, FoldFunctionOnSet, MapThenFoldSet
<1>6. QED
  BY <1>1, <1>2, <1>3, <1>4, <1>5

(* A packet joins a queue.                                                   *)
LEMMA BytesAppend ==
    ASSUME NEW s \in Seq(Sizes), NEW z \in Sizes
    PROVE  Append(s, z) \in Seq(Sizes) /\ Bytes(Append(s, z)) = Bytes(s) + z
<1> DEFINE r == Append(s, z)
           n == Len(s) + 1
<1>1. /\ r \in Seq(Sizes) /\ Len(r) = n /\ r[n] = z
      /\ \A k \in 1..Len(s) : r[k] = s[k]
  BY AppendProperties
<1> HIDE DEF r
<1>2. /\ DOMAIN s = 1..Len(s) /\ Len(s) \in Nat /\ IsFiniteSet(1..Len(s))
      /\ DOMAIN r = 1..n /\ IsInteger(r, 1..n)
  BY <1>1, BytesFacts
<1>3. 1..n = 1..Len(s) \cup {n} /\ n \notin 1..Len(s)
  BY <1>2
<1>4. Sum(r, 1..Len(s) \cup {n}) = Sum(r, 1..Len(s)) + r[n]
  <2> DEFINE S == 1..Len(s)
  <2>1. IsFiniteSet(S) /\ n \notin S /\ IsInteger(r, S \cup {n})
    BY <1>2, <1>3
  <2> HIDE DEF S, n
  <2>2. Sum(r, S \cup {n}) = Sum(r, S) + r[n]
    BY ONLY <2>1, SumAdd
  <2>3. QED
    BY <2>2 DEF S
<1>5. Sum(r, 1..Len(s)) = Sum(s, 1..Len(s))
  BY <1>1, <1>2, SumSame
<1>6. Bytes(r) = Bytes(s) + z
  BY <1>1, <1>2, <1>3, <1>4, <1>5 DEF Bytes
<1>7. QED
  BY <1>1, <1>6 DEF r

(* A packet leaves a queue.                                                  *)
LEMMA BytesTail ==
    ASSUME NEW s \in Seq(Sizes), s # <<>>
    PROVE  /\ Tail(s) \in Seq(Sizes) /\ Head(s) \in Sizes /\ Head(s) \in Nat
           /\ Bytes(Tail(s)) = Bytes(s) - Head(s)
<1> DEFINE t == Tail(s)
           z == Head(s)
<1>1. /\ t \in Seq(Sizes) /\ z \in Sizes /\ z = s[1] /\ Len(t) = Len(s) - 1
      /\ \A k \in 1..Len(t) : t[k] = s[k + 1]
      /\ Len(s) \in Nat \ {0}
  BY HeadTailProperties, EmptySeq, LenProperties
<1>0. z \in Nat
  BY <1>1, SizeAssumption
<1> HIDE DEF t, z
<1>2. /\ DOMAIN s = 1..Len(s) /\ IsFiniteSet(1..Len(s)) /\ IsInteger(s, 1..Len(s))
      /\ DOMAIN t = 1..Len(t) /\ IsFiniteSet(1..Len(t)) /\ IsInteger(t, 1..Len(t))
      /\ Bytes(t) \in Nat
  BY <1>1, BytesFacts
<1> DEFINE up == {k + 1 : k \in 1..Len(t)}
<1>3. Sum(s, up) = Sum(t, 1..Len(t))
  <2> DEFINE K == 1..Len(t)
  <2>1. /\ K \subseteq Int /\ IsFiniteSet(K) /\ IsInteger(t, K)
        /\ \A k \in K : s[k + 1] = t[k]
    BY <1>1, <1>2
  <2> HIDE DEF K, up
  <2>2. Sum(s, {k + 1 : k \in K}) = Sum(t, K)
    BY ONLY <2>1, SumShift
  <2>3. QED
    BY <2>2 DEF K, up
<1>4. up = (1..Len(s)) \ {1} /\ 1 \in 1..Len(s)
  <2>1. ASSUME NEW k \in (1..Len(s)) \ {1} PROVE k - 1 \in 1..Len(t) /\ k = (k - 1) + 1
    BY <1>1
  <2>2. ASSUME NEW k \in 1..Len(t) PROVE k + 1 \in (1..Len(s)) \ {1}
    BY <1>1
  <2>3. 1 \in 1..Len(s)
    BY <1>1
  <2> DEFINE K == 1..Len(t)
             T == (1..Len(s)) \ {1}
  <2>4. /\ \A k \in T : k - 1 \in K /\ k = (k - 1) + 1
        /\ \A k \in K : k + 1 \in T
    BY <2>1, <2>2
  <2> HIDE DEF K, T
  <2>5. {k + 1 : k \in K} = T
    BY ONLY <2>4
  <2>6. QED
    BY <2>3, <2>5 DEF K, T
<1> HIDE DEF up
<1>5. Sum(s, 1..Len(s)) = s[1] + Sum(s, (1..Len(s)) \ {1})
  BY <1>2, <1>4, SumSplit
<1>6. Bytes(t) = Bytes(s) - z
  BY <1>0, <1>1, <1>2, <1>3, <1>4, <1>5 DEF Bytes
<1>7. QED
  BY <1>0, <1>1, <1>6 DEF t, z

\* The counters are those of the packets, and the queues never reach the limit.
Counted(p) ==
    /\ \A q \in Queues : p.bytes[q] = Bytes(p.queues[q])
    /\ p.total = Sum(p.bytes, Queues)
    /\ p.total = 0 \/ p.total < MaxBytes

\* Of the port: what TypeOK adds to IInv, and inductive beside it.
CountersExact == Counted(port)

(* The counters are natural numbers.                                         *)
LEMMA CountedFacts ==
    ASSUME NEW p \in Shape, Counted(p)
    PROVE  /\ IsFiniteSet(Queues) /\ IsInteger(p.bytes, Queues)
           /\ p.total \in Nat /\ \A q \in Queues : p.bytes[q] \in Nat
<1>1. IsFiniteSet(Queues)
  BY QueueAssumption, FS_Interval DEF Queues
<1>2. \A q \in Queues : p.bytes[q] \in Nat
  <2>1. \A q \in Queues : p.queues[q] \in Seq(Sizes)
    BY DEF Shape
  <2>2. QED
    BY <2>1, BytesFacts DEF Counted
<1>3. IsInteger(p.bytes, Queues) /\ p.total \in Nat
  BY <1>1, <1>2, SumNatural DEF Counted, IsInteger
<1>4. QED
  BY <1>1, <1>2, <1>3

\* One queue changes by d bytes, and its counters with it.
LEMMA CountedOne ==
    ASSUME NEW p \in Shape, Counted(p), NEW p2 \in Shape, NEW q \in Queues,
           NEW s \in Seq(Sizes), NEW d \in Int, Bytes(s) = Bytes(p.queues[q]) + d,
           p2.queues = [p.queues EXCEPT ![q] = s],
           p2.bytes = [p.bytes EXCEPT ![q] = p.bytes[q] + d],
           p2.total = p.total + d,
           d <= 0 \/ p.total + d < MaxBytes
    PROVE  Counted(p2)
<1>1. /\ p.queues \in [Queues -> Seq(Sizes)] /\ p.bytes \in [Queues -> Int]
      /\ IsFiniteSet(Queues) /\ IsInteger(p.bytes, Queues) /\ p.total \in Nat
  BY CountedFacts DEF Shape
<1>2. /\ p2.queues[q] = s /\ p2.bytes[q] = p.bytes[q] + d
      /\ \A r \in Queues : r # q => /\ p2.queues[r] = p.queues[r]
                                    /\ p2.bytes[r] = p.bytes[r]
  BY <1>1
<1>3. \A r \in Queues : p2.bytes[r] = Bytes(p2.queues[r])
  BY <1>2 DEF Counted
<1>4. \A r \in Queues : p2.bytes[r] \in Nat
  <2>1. \A r \in Queues : p2.queues[r] \in Seq(Sizes)
    BY DEF Shape
  <2>2. QED
    BY <1>3, <2>1, BytesFacts
<1>5. Sum(p2.bytes, Queues) = Sum(p.bytes, Queues) - p.bytes[q] + p2.bytes[q]
  <2>1. IsInteger(p2.bytes, Queues)
    BY <1>4 DEF IsInteger
  <2>2. QED
    BY <1>1, <1>2, <2>1, SumUpdate
<1>6. p2.total = Sum(p2.bytes, Queues) /\ p2.total \in Nat
  <2>1. p.bytes[q] \in Int
    BY <1>1
  <2>2. Sum(p2.bytes, Queues) = p.total + d
    BY <1>1, <1>2, <1>5, <2>1 DEF Counted
  <2>3. Sum(p2.bytes, Queues) \in Nat
    BY <1>1, <1>4, SumNatural
  <2>4. QED
    BY <2>2, <2>3
<1>7. p2.total = 0 \/ p2.total < MaxBytes
  BY <1>1, <1>6, SizeAssumption DEF Counted
<1>8. QED
  BY <1>3, <1>6, <1>7 DEF Counted

(* The events keep the counters.                                             *)
LEMMA EnqueueCounted ==
    ASSUME NEW p \in Shape, Counted(p), NEW q \in Queues, NEW z \in Sizes
    PROVE  Enqueue(p, q, z) \in Shape /\ Counted(Enqueue(p, q, z))
<1> DEFINE s == Append(p.queues[q], z)
           e == Enqueue(p, q, z)
           p2 == [p EXCEPT !.queues = [p.queues EXCEPT ![q] = s],
                           !.bytes = [p.bytes EXCEPT ![q] = p.bytes[q] + z],
                           !.total = p.total + z]
<1>1. /\ p.queues \in [Queues -> Seq(Sizes)] /\ p.bytes \in [Queues -> Int]
      /\ p.total \in Int /\ p.queues[q] \in Seq(Sizes) /\ p.bytes[q] \in Int
  BY DEF Shape
<1>2. s \in Seq(Sizes) /\ Bytes(s) = Bytes(p.queues[q]) + z /\ z \in Int
  BY <1>1, BytesAppend, SizeAssumption
<1>3. e = IF p.total + z < MaxBytes THEN p2 ELSE p
  BY DEF Enqueue
<1> HIDE DEF s, e
<1>4. p2 \in Shape /\ p2.queues = [p.queues EXCEPT ![q] = s]
      /\ p2.bytes = [p.bytes EXCEPT ![q] = p.bytes[q] + z]
      /\ p2.total = p.total + z
  <2> DEFINE qs == [p.queues EXCEPT ![q] = s]
             bs == [p.bytes EXCEPT ![q] = p.bytes[q] + z]
             n == p.total + z
  <2>1. qs \in [Queues -> Seq(Sizes)] /\ bs \in [Queues -> Int] /\ n \in Int
    BY <1>1, <1>2
  <2> HIDE DEF qs, bs, n
  <2>2. p2 = [p EXCEPT !.queues = qs, !.bytes = bs, !.total = n]
    BY DEF qs, bs, n
  <2> HIDE DEF p2
  <2>3. p2 \in Shape /\ p2.queues = qs /\ p2.bytes = bs /\ p2.total = n
    BY <2>1, <2>2 DEF Shape
  <2>4. QED
    BY <2>3 DEF qs, bs, n
<1> HIDE DEF p2
<1>5. CASE p.total + z < MaxBytes
  BY <1>2, <1>3, <1>4, <1>5, CountedOne DEF e
<1>6. CASE ~(p.total + z < MaxBytes)
  BY <1>3, <1>6 DEF e
<1>7. QED
  BY <1>5, <1>6

LEMMA SendCounted ==
    ASSUME NEW p \in Shape, Counted(p), NEW c \in Queues, HasPacket(p, c)
    PROVE  Counted(Send(p, c))
<1> DEFINE s == p.queues[c]
           z == Head(s)
           t == Tail(s)
           p2 == Send(p, c)
<1>1. /\ p.queues \in [Queues -> Seq(Sizes)] /\ p.bytes \in [Queues -> Int]
      /\ p.total \in Int /\ s \in Seq(Sizes) /\ s # <<>> /\ p.bytes[c] \in Int
  BY DEF Shape, HasPacket
<1>2. t \in Seq(Sizes) /\ z \in Nat /\ Bytes(t) = Bytes(s) - z /\ Bytes(s) \in Nat
  BY <1>1, BytesTail, BytesFacts
<1>3. /\ p2.queues = [p.queues EXCEPT ![c] = t]
      /\ p2.bytes = [p.bytes EXCEPT ![c] = p.bytes[c] - z]
      /\ p2.total = p.total - z
  BY DEF Send, Shape
<1>4. p2 \in Shape
  BY SendShape
<1> HIDE DEF p2, t, z
<1> DEFINE d == -z
<1>5. /\ d \in Int /\ d <= 0 /\ Bytes(t) = Bytes(p.queues[c]) + d
      /\ p2.bytes = [p.bytes EXCEPT ![c] = p.bytes[c] + d] /\ p2.total = p.total + d
  <2>1. /\ d \in Int /\ d <= 0 /\ Bytes(s) - z = Bytes(s) + d
        /\ p.bytes[c] - z = p.bytes[c] + d /\ p.total - z = p.total + d
    BY <1>1, <1>2
  <2> HIDE DEF d
  <2>2. QED
    BY <1>2, <1>3, <2>1
<1> HIDE DEF d, s
<1>6. Counted(p2)
  BY <1>2, <1>3, <1>4, <1>5, CountedOne
<1>7. QED
  BY <1>6 DEF p2

LEMMA LookCounted ==
    ASSUME NEW p \in Shape, Counted(p), Look(p)
    PROVE  Counted(port')
<1>1. CASE ~Sends(p)
  BY <1>1 DEF Look, DequeueAndTransmit
<1>2. CASE Sends(p)
  <2>1. Chosen(p) \in Queues /\ HasPacket(p, Chosen(p))
    BY <1>2, Choice DEF Sends, MaySend
  <2>2. port' = Send(p, Chosen(p))
    BY <1>2 DEF Look, DequeueAndTransmit
  <2>3. QED
    BY <2>1, <2>2, SendCounted
<1>3. QED
  BY <1>1, <1>2

(* The counters of bytes are those of the packets in the queues, by queue and   *)
(* in all, and the queues together never reach m_maxBytes.                      *)
THEOREM TypeCorrect == Spec => []TypeOK
<1>1. Init => CountersExact
  <2> SUFFICES ASSUME Init PROVE Counted(port)
    BY DEF CountersExact
  <2>1. Bytes(<<>>) = 0
    <3>1. DOMAIN <<>> = {}
      OBVIOUS
    <3>2. QED
      BY <3>1, SumEmpty DEF Bytes
  <2>2. \A q \in Queues : port.bytes[q] = 0 /\ port.queues[q] = <<>>
    BY DEF Init
  <2>3. Sum(port.bytes, Queues) = 0
    <3>1. IsFiniteSet(Queues) /\ \A q \in Queues : port.bytes[q] = 0
      BY <2>2, QueueAssumption, FS_Interval DEF Queues
    <3>2. QED
      BY <3>1, SumZero
  <2>4. QED
    BY <2>1, <2>2, <2>3 DEF Init, Counted
<1>2. IInv /\ CountersExact /\ [Next]_vars => CountersExact'
  <2> SUFFICES ASSUME IInv, Counted(port), [Next]_vars PROVE Counted(port')
    BY DEF CountersExact
  <2>1. port \in Shape
    BY DEF IInv
  <2>2. ASSUME NEW q \in Queues, NEW z \in Sizes, SwitchSend(q, z) PROVE Counted(port')
    BY <2>1, <2>2, EnqueueCounted, LookCounted DEF SwitchSend
  <2>3. CASE TransmitComplete
    <3> DEFINE p == [port EXCEPT !.ready = TRUE]
    <3>1. p \in Shape /\ Counted(p)
      BY <2>1 DEF Shape, Counted
    <3>2. QED
      BY <2>3, <3>1, LookCounted DEF TransmitComplete
  <2>4. ASSUME NEW q \in DataQueues, Resume(q) PROVE Counted(port')
    <3> DEFINE p == [port EXCEPT !.paused = @ \ {q}]
    <3>1. p \in Shape /\ Counted(p)
      BY <2>1 DEF Shape, Counted
    <3>2. QED
      BY <2>4, <3>1, LookCounted DEF Resume
  <2>5. ASSUME NEW q \in DataQueues, Pause(q) PROVE Counted(port')
    BY <2>1, <2>5 DEF Pause, Shape, Counted
  <2>6. CASE UNCHANGED vars
    BY <2>6 DEF vars
  <2>7. QED
    BY <2>2, <2>3, <2>4, <2>5, <2>6 DEF Next
<1>3. IInv /\ CountersExact => TypeOK
  <2> SUFFICES ASSUME IInv, Counted(port) PROVE TypeOK
    BY DEF CountersExact
  <2>1. port \in Shape /\ passed \in [Queues -> [DataQueues -> Nat]]
    BY DEF IInv
  <2>2. port.total \in Nat /\ \A q \in Queues : port.bytes[q] \in Nat
    BY <2>1, CountedFacts
  <2>3. port \in PortType
    BY <2>1, <2>2 DEF Shape, PortType
  <2>4. \A q \in Queues : port.bytes[q] = FoldSeq(+, 0, port.queues[q])
    <3>1. \A q \in Queues : port.queues[q] \in Seq(Sizes)
      BY <2>1 DEF Shape
    <3>2. QED
      BY <3>1, BytesFacts DEF Counted
  <2>5. port.total = MapThenSumSet(LAMBDA q : port.bytes[q], Queues)
    BY DEF Counted, Sum
  <2>6. QED
    BY <2>1, <2>3, <2>4, <2>5 DEF TypeOK, Counted
<1>4. QED
  BY <1>1, <1>2, <1>3, Invariant, PTL DEF Spec

=============================================================================
