--------------------------- MODULE HostEgressProofs ---------------------------
(* HostEgress for any QPs, groups, sizes, rates, pauses and timeouts: the      *)
(* variables keep their types, and with a constant window no QP that may send  *)
(* is forgotten.                                                              *)
EXTENDS HostEgress, SequenceTheorems, FiniteSetTheorems, WellFoundedInduction, TLAPS

-----------------------------------------------------------------------------
(* Least and greatest elements.                                                *)

LEMMA LeastNat ==
    ASSUME NEW S, S \subseteq Nat, S # {}
    PROVE  \E m \in S : \A n \in S : m <= n
<1>1. PICK m \in S : \A n \in S : ~(<<n, m>> \in OpToRel(<, Nat))
  BY NatLessThanWellFounded, WFMin
<1>2. ASSUME NEW n \in S PROVE m <= n
  <2>1. ~(n < m)
    BY <1>1 DEF OpToRel
  <2>2. QED
    BY <2>1
<1>3. QED
  BY <1>2

(* Min of a set that is bounded from below.                                    *)
LEMMA MinBounded ==
    ASSUME NEW S, S \subseteq Int, S # {}, NEW b \in Int, \A x \in S : b <= x
    PROVE  Min(S) \in S /\ \A x \in S : Min(S) <= x
<1> DEFINE T == {x - b : x \in S}
<1>1. T \subseteq Nat /\ T # {}
  <2>1. \A x \in S : x - b \in Nat
    OBVIOUS
  <2>2. QED
    BY <2>1
<1>2. PICK t \in T : \A u \in T : t <= u
  <2> HIDE DEF T
  <2>1. QED
    BY <1>1, LeastNat
<1>3. PICK m \in S : t = m - b
  BY <1>2
<1>4. ASSUME NEW x \in S PROVE m <= x
  <2>1. x - b \in T
    OBVIOUS
  <2> HIDE DEF T
  <2>2. m - b <= x - b
    BY <2>1, <1>2, <1>3
  <2>3. QED
    BY <2>2
<1>5. QED
  BY <1>4 DEF Min

(* A finite set of numbers has a greatest one: a smallest set without one       *)
(* would, without any of its elements, have one.                                *)
LEMMA MaxFinite ==
    ASSUME NEW S, S \subseteq Nat, S # {}, IsFiniteSet(S)
    PROVE  Max(S) \in S /\ \A x \in S : x <= Max(S)
<1> DEFINE HasMax(T) == \E m \in T : \A x \in T : m >= x
           Bad == {T \in SUBSET S : T # {} /\ ~HasMax(T)}
           Cards == {Cardinality(T) : T \in Bad}
<1>1. \A T \in SUBSET S : IsFiniteSet(T) /\ Cardinality(T) \in Nat
  BY FS_Subset, FS_CardinalityType
<1>2. Bad = {}
  <2>1. SUFFICES ASSUME Bad # {} PROVE FALSE
    OBVIOUS
  <2>2. Cards \subseteq Nat /\ Cards # {}
    BY <1>1, <2>1
  <2>3. PICK c \in Cards : \A d \in Cards : c <= d
    <3> HIDE DEF Cards
    <3>1. QED
      BY <2>2, LeastNat
  <2>4. PICK T \in Bad : c = Cardinality(T)
    BY <2>3
  <2>5. T \subseteq S /\ T # {} /\ ~HasMax(T) /\ IsFiniteSet(T)
    BY <2>4, <1>1
  <2>6. PICK x \in T : TRUE
    BY <2>5
  <2> DEFINE U == T \ {x}
  <2>7. Cardinality(U) = Cardinality(T) - 1 /\ Cardinality(T) \in Nat
    BY <2>5, <2>6, FS_RemoveElement, FS_CardinalityType
  <2>8. U \notin Bad
    <3>1. SUFFICES ASSUME U \in Bad PROVE FALSE
      OBVIOUS
    <3>2. Cardinality(U) \in Cards
      BY <3>1
    <3> HIDE DEF Cards, U, Bad
    <3>3. c <= Cardinality(U)
      BY <3>2, <2>3
    <3>4. QED
      BY <3>3, <2>4, <2>7
  <2>9. CASE U = {}
    <3>1. T = {x}
      BY <2>6, <2>9
    <3>2. QED
      BY <3>1, <2>5
  <2>10. CASE U # {}
    <3>1. HasMax(U)
      BY <2>5, <2>8, <2>10
    <3>2. PICK m \in U : \A y \in U : m >= y
      BY <3>1
    <3>3. m \in T /\ m \in Nat /\ x \in Nat
      BY <3>2, <2>5, <2>6
    <3>4. CASE m >= x
      BY <3>2, <3>3, <3>4, <2>5
    <3>5. CASE ~(m >= x)
      <4>1. \A y \in T : x >= y
        BY <3>2, <3>3, <3>5, <2>5
      <4>2. QED
        BY <4>1, <2>5, <2>6
    <3>6. QED
      BY <3>4, <3>5
  <2>11. QED
    BY <2>9, <2>10
<1>3. HasMax(S)
  BY <1>2
<1>4. Max(S) \in S /\ \A x \in S : Max(S) >= x
  BY <1>3 DEF Max
<1>5. QED
  BY <1>4

(* The waiting times that a rate can bring about.                              *)
LEMMA GapFacts ==
    /\ Min(Gaps) \in Gaps /\ MaxGap \in Gaps
    /\ \A g \in Gaps : g \in Nat \ {0} /\ g <= MaxGap /\ Min(Gaps) <= g
<1>1. Gaps \subseteq Nat /\ Gaps # {} /\ IsFiniteSet(Gaps)
  BY TimeAssumption
<1>2. Min(Gaps) \in Gaps /\ \A g \in Gaps : Min(Gaps) <= g
  <2>1. Gaps \subseteq Int /\ 0 \in Int /\ \A g \in Gaps : 0 <= g
    BY <1>1
  <2>2. QED
    BY <1>1, <2>1, MinBounded
<1>3. MaxGap \in Gaps /\ \A g \in Gaps : g <= MaxGap
  BY <1>1, MaxFinite DEF MaxGap
<1>4. QED
  BY <1>2, <1>3, TimeAssumption

-----------------------------------------------------------------------------
(* The state of a host.                                                        *)

(* No QP has sent more than its window, as long as windows are constant.       *)
FlowOK(q, f) ==
    /\ f \in FlowType
    /\ f.una <= f.nxt /\ f.nxt <= f.high
    /\ Window[q] # 0 /\ ~VarWin => f.high - f.una <= Window[q]

HostShape ==
    [qp     : [Flows -> FlowType],
     qpGrp  : Seq(Flows),
     rrlast : Nat,
     acks   : 0..MaxAcks,
     paused : SUBSET Groups,
     tx     : {Never} \cup 0..TxTime,
     wake   : {Never} \cup 0..MaxGap]

(* A QP is in the group once, and m_rrlast is one of its indices.  What is on   *)
(* its way fits a constant window.                                             *)
HostOK(h) ==
    /\ h \in HostShape
    /\ \A q \in Flows : FlowOK(q, h.qp[q])
    /\ \A i, j \in DOMAIN h.qpGrp : h.qpGrp[i] = h.qpGrp[j] => i = j
    /\ h.rrlast = 0 \/ h.rrlast < Len(h.qpGrp)

SpentOK ==
    /\ spent \in [acks : 0..MaxAcks, pauses : 0..MaxPauses, backs : 0..MaxBacks]
    /\ host.acks <= spent.acks

(* Every flow's window is a number of packets (m_win, rdma-queue-pair.h).      *)
LEMMA WindowNat == \A q \in Flows : Window[q] \in Nat
BY WindowAssumption

LEMMA FlowFields ==
    ASSUME NEW q \in Flows, NEW f, FlowOK(q, f)
    PROVE  /\ f.una \in Nat /\ f.nxt \in Nat /\ f.high \in Nat
           /\ f.una <= f.nxt /\ f.nxt <= f.high /\ f.high <= Size
           /\ f.gap \in Gaps /\ f.age \in 0..MaxGap
           /\ f.gap \in Nat \ {0} /\ f.gap <= MaxGap /\ MaxGap \in Nat /\ f.age \in Nat
           /\ Wait(f) \in Int /\ Wait(f) <= MaxGap /\ -MaxGap <= Wait(f)
<1>1. /\ f.una \in 0..Size /\ f.nxt \in 0..Size /\ f.high \in 0..Size
      /\ f.gap \in Gaps /\ f.age \in 0..MaxGap
      /\ f.una <= f.nxt /\ f.nxt <= f.high
  BY DEF FlowOK, FlowType
<1>2. f.gap \in Nat \ {0} /\ f.gap <= MaxGap /\ MaxGap \in Nat
  BY <1>1, GapFacts
<1>3. QED
  BY <1>1, <1>2, FlowAssumption DEF Wait

(* The state after a change of one QP and of m_nextSend.                        *)
LEMMA QpChanged ==
    ASSUME NEW h, HostOK(h), NEW q \in Flows, NEW f, FlowOK(q, f),
           NEW w \in {Never} \cup 0..MaxGap
    PROVE  HostOK([h EXCEPT !.qp = [h.qp EXCEPT ![q] = f], !.wake = w])
<1> DEFINE g == [h EXCEPT !.qp = [h.qp EXCEPT ![q] = f], !.wake = w]
<1>1. h \in HostShape /\ h.qp \in [Flows -> FlowType] /\ f \in FlowType
  BY DEF HostOK, HostShape, FlowOK
<1>2. [h.qp EXCEPT ![q] = f] \in [Flows -> FlowType]
  BY <1>1
<1>3. g \in HostShape
  BY <1>1, <1>2 DEF HostShape
<1>4. /\ g.qp = [h.qp EXCEPT ![q] = f]
      /\ g.qpGrp = h.qpGrp /\ g.rrlast = h.rrlast
  BY <1>1 DEF HostShape
<1> HIDE DEF g
<1>5. \A p \in Flows : FlowOK(p, g.qp[p])
  BY <1>1, <1>4 DEF HostOK
<1>6. HostOK(g)
  BY <1>3, <1>4, <1>5 DEF HostOK
<1>7. QED
  BY <1>6 DEF g

LEMMA AcknowledgedOK ==
    ASSUME NEW h, HostOK(h), NEW q \in Flows, NEW seq \in 0..Size,
           h.qp[q].una <= seq, seq <= h.qp[q].high
    PROVE  /\ HostOK(Acknowledged(h, q, seq))
           /\ Acknowledged(h, q, seq).acks = h.acks
<1> DEFINE f == [h.qp[q] EXCEPT !.una = seq, !.nxt = Larger(h.qp[q].nxt, seq)]
           g == [h EXCEPT !.qp = [h.qp EXCEPT ![q] = f], !.wake = h.wake]
<1>1. h \in HostShape /\ FlowOK(q, h.qp[q]) /\ h.qp \in [Flows -> FlowType]
  BY DEF HostOK, HostShape
<1>2. h.qp[q] \in FlowType /\ seq \in Nat /\ Size \in Nat
  BY <1>1, FlowAssumption DEF FlowOK
<1>3. f.una = seq /\ f.nxt = Larger(h.qp[q].nxt, seq) /\ f.high = h.qp[q].high
  BY <1>2 DEF FlowType
<1>4. Larger(h.qp[q].nxt, seq) \in 0..Size
  BY <1>1, <1>2, FlowFields DEF Larger
<1>5. f \in FlowType
  BY <1>2, <1>4 DEF FlowType
<1>6. FlowOK(q, f)
  <2> HIDE DEF f
  <2>1. f.una <= f.nxt /\ f.nxt <= f.high
    BY <1>1, <1>2, <1>3, FlowFields DEF Larger
  <2>2. Window[q] # 0 /\ ~VarWin => f.high - f.una <= Window[q]
    BY <1>1, <1>2, <1>3, FlowFields, WindowNat DEF FlowOK
  <2>3. QED
    BY <1>5, <2>1, <2>2 DEF FlowOK
<1>7. h.wake \in {Never} \cup 0..MaxGap
  BY <1>1 DEF HostShape
<1>8. Acknowledged(h, q, seq) = g
  BY <1>1, <1>2 DEF Acknowledged, HostShape, FlowType
<1>9. g.acks = h.acks
  BY <1>1 DEF HostShape
<1> HIDE DEF f
<1>10. HostOK(g)
  BY <1>6, <1>7, QpChanged
<1>11. QED
  BY <1>8, <1>9, <1>10

LEMMA GoBackOK ==
    ASSUME NEW h, HostOK(h), NEW q \in Flows
    PROVE  HostOK(GoBack(h, q)) /\ GoBack(h, q).acks = h.acks
<1> DEFINE f == [h.qp[q] EXCEPT !.nxt = h.qp[q].una]
           g == [h EXCEPT !.qp = [h.qp EXCEPT ![q] = f], !.wake = h.wake]
<1>1. h \in HostShape /\ FlowOK(q, h.qp[q]) /\ h.qp \in [Flows -> FlowType]
  BY DEF HostOK, HostShape
<1>2. h.qp[q] \in FlowType
  BY <1>1 DEF FlowOK
<1>3. f \in FlowType /\ f.una = h.qp[q].una /\ f.nxt = h.qp[q].una /\ f.high = h.qp[q].high
  BY <1>2 DEF FlowType
<1> HIDE DEF f
<1>4. FlowOK(q, f)
  BY <1>1, <1>3, FlowFields DEF FlowOK
<1>5. h.wake \in {Never} \cup 0..MaxGap
  BY <1>1 DEF HostShape
<1>6. GoBack(h, q) = g /\ g.acks = h.acks
  BY <1>1, <1>2 DEF GoBack, HostShape, FlowType, f
<1>7. HostOK(g)
  BY <1>4, <1>5, QpChanged
<1>8. QED
  BY <1>6, <1>7

LEMMA ChangeRateOK ==
    ASSUME NEW h, HostOK(h), NEW q \in Flows, NEW gap \in Gaps, NEW late \in BOOLEAN
    PROVE  HostOK(ChangeRate(h, q, gap, late)) /\ ChangeRate(h, q, gap, late).acks = h.acks
<1> DEFINE f == [h.qp[q] EXCEPT !.gap = gap]
           w == IF h.wake # Never /\ (late \/ Wait(f) < h.wake)
                THEN Larger(0, Wait(f)) ELSE h.wake
           g == [h EXCEPT !.qp = [h.qp EXCEPT ![q] = f], !.wake = w]
           changed == [h EXCEPT !.qp[q].gap = gap]
<1>1. h \in HostShape /\ FlowOK(q, h.qp[q]) /\ h.qp \in [Flows -> FlowType]
  BY DEF HostOK, HostShape
<1>2. h.qp[q] \in FlowType
  BY <1>1 DEF FlowOK
<1>3. f \in FlowType /\ f.una = h.qp[q].una /\ f.nxt = h.qp[q].nxt /\ f.high = h.qp[q].high
  BY <1>2 DEF FlowType
<1>4. /\ changed = [h EXCEPT !.qp = [h.qp EXCEPT ![q] = f]]
      /\ changed.qp[q] = f
  BY <1>1, <1>2 DEF HostShape, FlowType
<1>0. ChangeRate(h, q, gap, late) =
          IF h.wake # Never /\ (late \/ Wait(changed.qp[q]) < h.wake)
          THEN [changed EXCEPT !.wake = Larger(0, Wait(changed.qp[q]))]
          ELSE changed
  BY DEF ChangeRate
<1> HIDE DEF f, changed
<1>5. FlowOK(q, f)
  BY <1>1, <1>3 DEF FlowOK
<1>6. w \in {Never} \cup 0..MaxGap
  <2>1. h.wake \in {Never} \cup 0..MaxGap
    BY <1>1 DEF HostShape
  <2>2. Wait(f) \in Int /\ Wait(f) <= MaxGap /\ MaxGap \in Nat
    BY <1>5, FlowFields
  <2>3. Larger(0, Wait(f)) \in 0..MaxGap
    BY <2>2 DEF Larger
  <2>4. QED
    BY <2>1, <2>3
<1>7. ChangeRate(h, q, gap, late) =
          IF h.wake # Never /\ (late \/ Wait(f) < h.wake)
          THEN [changed EXCEPT !.wake = Larger(0, Wait(f))]
          ELSE changed
  BY <1>0, <1>4
<1>8. changed \in HostShape /\ changed.wake = h.wake /\ changed.acks = h.acks
  BY <1>1, <1>3, <1>4 DEF HostShape
<1>9. ChangeRate(h, q, gap, late) = [changed EXCEPT !.wake = w]
  BY <1>7, <1>8 DEF HostShape
<1> HIDE DEF w
<1>10. ChangeRate(h, q, gap, late) = g /\ g.acks = h.acks
  BY <1>1, <1>4, <1>9 DEF HostShape
<1>11. HostOK(g)
  BY <1>5, <1>6, QpChanged
<1>12. QED
  BY <1>10, <1>11

(* The state after a change of the NIC only.                                   *)
LEMMA NicChanged ==
    ASSUME NEW h, HostOK(h), NEW g \in HostShape, g.qp = h.qp, g.qpGrp = h.qpGrp,
           g.rrlast = h.rrlast \/ g.rrlast < Len(h.qpGrp)
    PROVE  HostOK(g)
BY DEF HostOK

-----------------------------------------------------------------------------
(* The turns of the QPs.                                                       *)

LEMMA Wrap ==
    ASSUME NEW n \in Nat \ {0}, NEW a \in Nat, a < 2 * n
    PROVE  a % n = IF a < n THEN a ELSE a - n
OBVIOUS

(* The QPs that are looked at are all those of the group.                       *)
LEMMA TurnFacts ==
    ASSUME NEW h, HostOK(h)
    PROVE  /\ InGroup(h) \subseteq Flows
           /\ \A k \in 1..Len(h.qpGrp) :
                 /\ Turn(h, k) \in 0..(Len(h.qpGrp) - 1)
                 /\ h.qpGrp[Turn(h, k) + 1] \in InGroup(h)
           /\ \A q \in InGroup(h) : \E k \in 1..Len(h.qpGrp) : h.qpGrp[Turn(h, k) + 1] = q
<1> DEFINE n == Len(h.qpGrp)
<1>1. /\ h.qpGrp \in Seq(Flows) /\ n \in Nat /\ h.rrlast \in Nat
      /\ h.rrlast = 0 \/ h.rrlast < n
      /\ \A i \in 1..n : h.qpGrp[i] \in Flows
  BY LenProperties, ElementOfSeq DEF HostOK, HostShape
<1>2. InGroup(h) = {h.qpGrp[i] : i \in 1..n}
  BY DEF InGroup
<1> HIDE DEF n
<1>3. ASSUME NEW k \in 1..n PROVE Turn(h, k) \in 0..(n - 1)
  <2>1. n \in Nat \ {0} /\ k + h.rrlast \in Nat /\ k + h.rrlast < 2 * n
    BY <1>1, <1>3
  <2> DEFINE a == k + h.rrlast
  <2>2. Turn(h, k) = a % n
    BY DEF Turn, n
  <2>3. a \in Nat /\ a < 2 * n
    BY <2>1
  <2> HIDE DEF a
  <2>4. Turn(h, k) = IF a < n THEN a ELSE a - n
    BY <2>1, <2>2, <2>3, Wrap
  <2>5. QED
    BY <2>1, <2>3, <2>4
<1>4. ASSUME NEW i \in 1..n PROVE \E k \in 1..n : Turn(h, k) + 1 = i
  <2> DEFINE k == IF i - 1 > h.rrlast THEN i - 1 - h.rrlast ELSE i - 1 - h.rrlast + n
  <2>1. n \in Nat \ {0} /\ h.rrlast < n
    BY <1>1, <1>4
  <2>2. /\ k \in 1..n /\ k + h.rrlast \in Nat /\ k + h.rrlast < 2 * n
        /\ k + h.rrlast = i - 1 \/ k + h.rrlast = i - 1 + n
    BY <1>1, <1>4, <2>1
  <2> HIDE DEF k
  <2> DEFINE a == k + h.rrlast
  <2>3. Turn(h, k) = a % n
    BY DEF Turn, n
  <2>4. a \in Nat /\ a < 2 * n /\ (a = i - 1 \/ a = i - 1 + n)
    BY <2>2
  <2> HIDE DEF a
  <2>5. Turn(h, k) = IF a < n THEN a ELSE a - n
    BY <2>1, <2>3, <2>4, Wrap
  <2>6. Turn(h, k) + 1 = i
    BY <1>4, <2>1, <2>4, <2>5
  <2>7. QED
    BY <2>2, <2>6
<1>5. \A k \in 1..n : Turn(h, k) \in 0..(n - 1) /\ Turn(h, k) + 1 \in 1..n
  BY <1>1, <1>3
<1>6. \A q \in InGroup(h) : \E k \in 1..n : h.qpGrp[Turn(h, k) + 1] = q
  <2>1. ASSUME NEW q \in InGroup(h) PROVE \E k \in 1..n : h.qpGrp[Turn(h, k) + 1] = q
    <3>1. PICK i \in 1..n : q = h.qpGrp[i]
      BY <1>2, <2>1
    <3>2. QED
      BY <3>1, <1>4
  <2>2. QED
    BY <2>1
<1>7. QED
  BY <1>1, <1>2, <1>5, <1>6 DEF n

-----------------------------------------------------------------------------
(* What DequeueAndTransmit does.                                               *)

LEMMA SendDataOK ==
    ASSUME NEW h, HostOK(h), NEW k \in 1..Len(h.qpGrp),
           Sendable(h, h.qpGrp[Turn(h, k) + 1])
    PROVE  /\ HostOK(SendData(h, Turn(h, k)))
           /\ SendData(h, Turn(h, k)).acks = h.acks
           /\ SendData(h, Turn(h, k)).tx = TxTime
<1> DEFINE idx == Turn(h, k)
           q == h.qpGrp[idx + 1]
           old == h.qp[q]
           f == [old EXCEPT !.nxt = old.nxt + 1, !.high = Larger(old.high, old.nxt + 1),
                            !.age = 0]
           g == [h EXCEPT !.qp = [h.qp EXCEPT ![q] = f], !.wake = h.wake]
<1>1. /\ idx \in 0..(Len(h.qpGrp) - 1) /\ q \in Flows
      /\ h.qpGrp \in Seq(Flows)
  BY TurnFacts DEF HostOK, HostShape
<1>2. h \in HostShape /\ h.qp \in [Flows -> FlowType] /\ FlowOK(q, old) /\ old \in FlowType
  BY <1>1 DEF HostOK, HostShape, FlowOK
<1>3. old.nxt < Size /\ ~IsWinBound(q, old)
  BY DEF Sendable, DataLeft, Blocked
<1> HIDE DEF idx
<1>4. /\ SendData(h, idx) = [h EXCEPT !.qp[q].nxt = h.qp[q].nxt + 1,
                                      !.qp[q].high = Larger(@, h.qp[q].nxt + 1),
                                      !.qp[q].age = 0,
                                      !.rrlast = idx,
                                      !.tx = TxTime]
  BY DEF SendData
<1> HIDE DEF q
<1>5. /\ SendData(h, idx).qp = [h.qp EXCEPT ![q] = f]
      /\ SendData(h, idx).qpGrp = h.qpGrp /\ SendData(h, idx).rrlast = idx
      /\ SendData(h, idx).acks = h.acks /\ SendData(h, idx).tx = TxTime
      /\ f \in FlowType => SendData(h, idx) \in HostShape
  <2>1. h.qp[q] \in FlowType
    BY <1>1, <1>2
  <2>2. SendData(h, idx) = [h EXCEPT !.qp = SendData(h, idx).qp, !.rrlast = idx, !.tx = TxTime]
    BY <1>2, <1>4 DEF HostShape
  <2>3. /\ SendData(h, idx).qpGrp = h.qpGrp /\ SendData(h, idx).rrlast = idx
        /\ SendData(h, idx).acks = h.acks /\ SendData(h, idx).tx = TxTime
    BY <1>2, <2>2 DEF HostShape
  <2>4. SendData(h, idx).qp = [h.qp EXCEPT ![q].nxt = h.qp[q].nxt + 1,
                                           ![q].high = Larger(@, h.qp[q].nxt + 1),
                                           ![q].age = 0]
    BY <1>2, <1>4 DEF HostShape
  <2>5. SendData(h, idx).qp = [h.qp EXCEPT ![q] = f]
    BY <1>1, <1>2, <2>1, <2>4 DEF FlowType
  <2>6. f \in FlowType => SendData(h, idx) \in HostShape
    <3>1. idx \in Nat /\ TxTime \in {Never} \cup 0..TxTime
      BY <1>1, TimeAssumption
    <3>2. f \in FlowType => SendData(h, idx).qp \in [Flows -> FlowType]
      <4> HIDE DEF f
      <4>1. QED
        BY <1>1, <1>2, <2>5
    <3>3. QED
      BY <1>2, <2>2, <3>1, <3>2 DEF HostShape
  <2>7. QED
    BY <2>3, <2>5, <2>6
<1>6. /\ f.una = old.una /\ f.nxt = old.nxt + 1 /\ f.high = Larger(old.high, old.nxt + 1)
  BY <1>2 DEF FlowType
<1>7. /\ old.una \in Nat /\ old.nxt \in Nat /\ old.high \in Nat /\ Size \in Nat
      /\ old.una <= old.nxt /\ old.nxt <= old.high /\ old.high <= Size
      /\ MaxGap \in Nat
  BY <1>1, <1>2, FlowFields, FlowAssumption
<1>8. Larger(old.high, old.nxt + 1) \in 0..Size /\ old.nxt + 1 \in 0..Size /\ 0 \in 0..MaxGap
  BY <1>3, <1>7 DEF Larger
<1>9. f \in FlowType
  BY <1>2, <1>8 DEF FlowType
<1>10. Window[q] # 0 /\ ~VarWin => old.nxt - old.una < Window[q] /\ old.high - old.una <= Window[q]
  <2>1. old.nxt - old.una \in Int /\ Window[q] \in Nat
    <3> HIDE DEF old
    <3>1. old.nxt - old.una \in Int
      BY <1>7
    <3>2. q \in Flows
      BY <1>1
    <3>3. QED
      BY <3>1, <3>2, WindowNat
  <2>2. Window[q] # 0 /\ ~VarWin => old.nxt - old.una < Window[q]
    BY <1>3, <2>1 DEF IsWinBound, Win
  <2>3. QED
    BY <1>2, <2>2 DEF FlowOK
<1> HIDE DEF f, old
<1>11. FlowOK(q, f)
  <2>1. f.una <= f.nxt /\ f.nxt <= f.high
    BY <1>6, <1>7 DEF Larger
  <2>2. Window[q] # 0 /\ ~VarWin => f.high - f.una <= Window[q]
    BY <1>1, <1>6, <1>7, <1>10, WindowNat DEF Larger
  <2>3. QED
    BY <1>9, <2>1, <2>2 DEF FlowOK
<1>12. g.qp = [h.qp EXCEPT ![q] = f] /\ g.qpGrp = h.qpGrp /\ h.wake \in {Never} \cup 0..MaxGap
  BY <1>2 DEF HostShape
<1>13. HostOK(g)
  BY <1>1, <1>11, <1>12, QpChanged
<1> HIDE DEF g
<1>14. idx < Len(h.qpGrp)
  BY <1>1, LenProperties
<1>15. HostOK(SendData(h, idx))
  BY <1>5, <1>9, <1>12, <1>13, <1>14, NicChanged
<1>16. QED
  BY <1>5, <1>15 DEF idx

LEMMA SendAckOK ==
    ASSUME NEW h, HostOK(h), AckSendable(h)
    PROVE  HostOK(SendAck(h)) /\ SendAck(h).acks <= h.acks /\ SendAck(h).tx = TxTime
<1>1. h \in HostShape /\ h.acks \in 0..MaxAcks /\ h.acks > 0
  BY DEF HostOK, HostShape, AckSendable
<1>2. h.acks - 1 \in 0..MaxAcks /\ TxTime \in {Never} \cup 0..TxTime
  BY <1>1, BoundAssumption, TimeAssumption
<1>3. /\ SendAck(h) \in HostShape /\ SendAck(h).acks = h.acks - 1 /\ SendAck(h).tx = TxTime
      /\ SendAck(h).qp = h.qp /\ SendAck(h).qpGrp = h.qpGrp /\ SendAck(h).rrlast = h.rrlast
  BY <1>1, <1>2 DEF SendAck, HostShape
<1>4. HostOK(SendAck(h))
  BY <1>3, NicChanged
<1>5. QED
  BY <1>1, <1>3, <1>4

(* Remembered(h) is NotForgotten of the state h.                                *)
Remembered(h) ==
    \A q \in Flows :
        h.tx = Never /\ DataLeft(h, q) /\ ~Blocked(h, q) =>
            \/ h.wake # Never
            \/ h.paused # {}
            \/ \E p \in Flows : DataLeft(h, p) /\ IsWinBound(p, h.qp[p])

(* When no QP may send, the next event is set for the earliest m_nextAvail: if  *)
(* it has passed, it is that of a QP which its window or PFC holds back.        *)
LEMMA ScheduleOK ==
    ASSUME NEW h, HostOK(h)
    PROVE  /\ HostOK(ScheduleNextSend(h)) /\ ScheduleNextSend(h).acks = h.acks
           /\ Turns(h) = {} => Remembered(ScheduleNextSend(h))
<1> DEFINE waits == {Wait(h.qp[q]) : q \in {p \in Flows : DataLeft(h, p)}}
           g == ScheduleNextSend(h)
<1>1. h \in HostShape
  BY DEF HostOK
<1>2. /\ \A w \in waits : w \in Int /\ w <= MaxGap /\ -MaxGap <= w
      /\ MaxGap \in Nat
  <2>1. ASSUME NEW q \in Flows
        PROVE  Wait(h.qp[q]) \in Int /\ Wait(h.qp[q]) <= MaxGap /\ -MaxGap <= Wait(h.qp[q])
    BY FlowFields DEF HostOK
  <2>2. MaxGap \in Nat
    BY GapFacts
  <2>3. QED
    BY <2>1, <2>2
<1>3. g = IF waits # {} /\ h.wake = Never /\ Min(waits) > 0
          THEN [h EXCEPT !.wake = Min(waits)]
          ELSE h
  BY DEF ScheduleNextSend
<1>4. waits # {} => Min(waits) \in waits
  <2> HIDE DEF waits
  <2>1. waits \subseteq Int /\ -MaxGap \in Int /\ \A w \in waits : -MaxGap <= w
    BY <1>2
  <2>2. QED
    BY <2>1, MinBounded
<1>5. HostOK(g) /\ g.acks = h.acks
  <2>1. CASE waits # {} /\ h.wake = Never /\ Min(waits) > 0
    <3> HIDE DEF waits, g
    <3>1. Min(waits) \in 0..MaxGap
      BY <1>2, <1>4, <2>1
    <3>2. g = [h EXCEPT !.wake = Min(waits)]
      BY <1>3, <2>1
    <3>3. /\ g \in HostShape /\ g.acks = h.acks
          /\ g.qp = h.qp /\ g.qpGrp = h.qpGrp /\ g.rrlast = h.rrlast
      BY <1>1, <3>1, <3>2 DEF HostShape
    <3>4. QED
      BY <3>3, NicChanged
  <2>2. CASE ~(waits # {} /\ h.wake = Never /\ Min(waits) > 0)
    BY <1>3, <2>2
  <2>3. QED
    BY <2>1, <2>2
<1>6. ASSUME Turns(h) = {} PROVE Remembered(g)
  <2>1. SUFFICES ASSUME NEW q \in Flows, DataLeft(g, q), ~Blocked(g, q),
                        g.wake = Never, g.paused = {},
                        \A p \in Flows : DataLeft(g, p) => ~IsWinBound(p, g.qp[p])
                 PROVE  FALSE
    BY DEF Remembered
  <2> HIDE DEF g
  <2>2. g.qp = h.qp /\ g.qpGrp = h.qpGrp /\ g.paused = h.paused
    <3> HIDE DEF waits
    <3>1. QED
      BY <1>1, <1>3 DEF HostShape
  <2>3. \A p \in Flows : DataLeft(h, p) <=> DataLeft(g, p)
    BY <2>2 DEF DataLeft, InGroup
  <2>4. \A p \in Flows : DataLeft(h, p) => ~Blocked(h, p)
    BY <2>1, <2>2, <2>3 DEF Blocked
  <2>5. \A p \in Flows : DataLeft(h, p) => ~Sendable(h, p)
    <3>1. SUFFICES ASSUME NEW p \in Flows, DataLeft(h, p), Sendable(h, p) PROVE FALSE
      OBVIOUS
    <3>2. PICK k \in 1..Len(h.qpGrp) : h.qpGrp[Turn(h, k) + 1] = p
      BY <3>1, TurnFacts DEF DataLeft
    <3>3. k \in Turns(h)
      BY <3>1, <3>2 DEF Turns
    <3>4. QED
      BY <3>3, <1>6
  <2>6. \A p \in Flows : DataLeft(h, p) => ~(Wait(h.qp[p]) <= 0)
    BY <2>4, <2>5 DEF Sendable
  <2>7. waits # {} /\ \A w \in waits : ~(w <= 0)
    BY <2>1, <2>3, <2>6
  <2> HIDE DEF waits
  <2>8. Min(waits) > 0 /\ Min(waits) \in Int
    BY <2>7, <1>2, <1>4
  <2>9. g.wake = Min(waits) \/ (h.wake # Never /\ g = h)
    <3>1. CASE h.wake = Never
      <4>1. g = [h EXCEPT !.wake = Min(waits)]
        BY <1>3, <2>7, <2>8, <3>1
      <4>2. QED
        BY <1>1, <4>1 DEF HostShape
    <3>2. CASE h.wake # Never
      BY <1>3, <3>2
    <3>3. QED
      BY <3>1, <3>2
  <2>10. QED
    BY <2>1, <2>8, <2>9 DEF Never
<1>7. QED
  BY <1>5, <1>6

(* Whenever the NIC looks at its QPs, none of them is forgotten afterwards.     *)
LEMMA LookOK ==
    ASSUME NEW h, HostOK(h)
    PROVE  /\ HostOK(DequeueAndTransmit(h)) /\ DequeueAndTransmit(h).acks <= h.acks
           /\ Remembered(DequeueAndTransmit(h))
<1> DEFINE g == DequeueAndTransmit(h)
<1>1. /\ g = IF h.tx # Never THEN h
             ELSE IF AckSendable(h) THEN SendAck(h)
             ELSE IF Turns(h) # {} THEN SendData(h, Turn(h, Min(Turns(h))))
             ELSE ScheduleNextSend(h)
      /\ h.acks \in Nat
  BY BoundAssumption DEF DequeueAndTransmit, HostOK, HostShape
<1> SUFFICES HostOK(g) /\ g.acks <= h.acks /\ Remembered(g)
  OBVIOUS
<1> HIDE DEF g
<1>2. TxTime # Never
  BY TimeAssumption DEF Never
<1>3. g.tx # Never => Remembered(g)
  BY DEF Remembered
<1>4. CASE h.tx # Never
  BY <1>1, <1>3, <1>4
<1>5. CASE h.tx = Never /\ AckSendable(h)
  BY <1>1, <1>2, <1>3, <1>5, SendAckOK
<1>6. CASE h.tx = Never /\ ~AckSendable(h) /\ Turns(h) # {}
  <2>1. Turns(h) \subseteq 1..Len(h.qpGrp) /\ Turns(h) \subseteq Int /\ \A k \in Turns(h) : 1 <= k
    BY LenProperties DEF Turns, HostOK, HostShape
  <2>2. Min(Turns(h)) \in Turns(h)
    BY <1>6, <2>1, MinBounded
  <2> DEFINE k == Min(Turns(h))
  <2>3. k \in 1..Len(h.qpGrp) /\ Sendable(h, h.qpGrp[Turn(h, k) + 1])
    BY <2>2 DEF Turns
  <2> HIDE DEF k
  <2>4. /\ HostOK(SendData(h, Turn(h, k))) /\ SendData(h, Turn(h, k)).acks = h.acks
        /\ SendData(h, Turn(h, k)).tx = TxTime
    BY <2>3, SendDataOK
  <2>5. g = SendData(h, Turn(h, k))
    BY <1>1, <1>6 DEF k
  <2>6. QED
    BY <1>1, <1>2, <1>3, <2>4, <2>5
<1>7. CASE h.tx = Never /\ ~AckSendable(h) /\ Turns(h) = {}
  BY <1>1, <1>7, ScheduleOK
<1>8. QED
  BY <1>4, <1>5, <1>6, <1>7

-----------------------------------------------------------------------------
(* The steps.                                                                  *)

IInv == HostOK(host) /\ SpentOK

(* An event has changed the host to h, and the NIC looks at its QPs.            *)
LEMMA Look ==
    ASSUME IInv, NEW h, HostOK(h), h.acks <= host.acks, host' = DequeueAndTransmit(h),
           \/ UNCHANGED spent
           \/ spent.backs < MaxBacks /\ spent' = [spent EXCEPT !.backs = @ + 1]
    PROVE  IInv' /\ Remembered(host')
<1>1. HostOK(host') /\ host'.acks <= h.acks /\ Remembered(host')
  BY LookOK
<1>2. /\ host.acks \in Nat /\ h.acks \in Nat /\ host'.acks \in Nat
  BY <1>1, BoundAssumption DEF IInv, HostOK, HostShape
<1>3. spent \in [acks : 0..MaxAcks, pauses : 0..MaxPauses, backs : 0..MaxBacks]
      /\ host.acks <= spent.acks
  BY DEF IInv, SpentOK
<1>4. spent' \in [acks : 0..MaxAcks, pauses : 0..MaxPauses, backs : 0..MaxBacks]
      /\ spent'.acks = spent.acks
  BY <1>3, BoundAssumption
<1>5. spent.acks \in Nat
  BY <1>3, BoundAssumption
<1>6. SpentOK'
  BY <1>1, <1>2, <1>3, <1>4, <1>5 DEF SpentOK
<1>7. QED
  BY <1>1, <1>6 DEF IInv

LEMMA NewQpStep ==
    ASSUME IInv, NEW q \in Flows, NewQp(q)
    PROVE  IInv' /\ Remembered(host')
<1> DEFINE h == [host EXCEPT !.qpGrp = Append(host.qpGrp, q)]
           s == host.qpGrp
<1>1. /\ HostOK(host) /\ host \in HostShape /\ s \in Seq(Flows)
      /\ q \notin InGroup(host) /\ host' = DequeueAndTransmit(h) /\ UNCHANGED spent
  BY DEF IInv, HostOK, HostShape, NewQp
<1>2. /\ Append(s, q) \in Seq(Flows) /\ Len(s) \in Nat
      /\ Len(Append(s, q)) = Len(s) + 1
      /\ \A i \in 1..Len(s) : Append(s, q)[i] = s[i]
      /\ Append(s, q)[Len(s) + 1] = q
      /\ DOMAIN Append(s, q) = 1..(Len(s) + 1) /\ DOMAIN s = 1..Len(s)
  BY <1>1, AppendProperties, LenProperties
<1>3. /\ h \in HostShape /\ h.qpGrp = Append(s, q) /\ h.qp = host.qp
      /\ h.rrlast = host.rrlast /\ h.acks = host.acks
  BY <1>1, <1>2 DEF HostShape
<1> HIDE DEF h
<1>4. \A i \in 1..Len(s) : s[i] # q
  BY <1>1 DEF InGroup
<1>5. ASSUME NEW i \in DOMAIN h.qpGrp, NEW j \in DOMAIN h.qpGrp, h.qpGrp[i] = h.qpGrp[j]
      PROVE  i = j
  <2>1. i \in 1..(Len(s) + 1) /\ j \in 1..(Len(s) + 1)
    BY <1>2, <1>3, <1>5
  <2>2. CASE i \in 1..Len(s) /\ j \in 1..Len(s)
    <3>1. s[i] = s[j]
      BY <2>2, <1>2, <1>3, <1>5
    <3>2. QED
      BY <2>2, <3>1, <1>1, <1>2 DEF HostOK
  <2>3. CASE i = Len(s) + 1 /\ j \in 1..Len(s)
    BY <2>3, <1>2, <1>3, <1>4, <1>5
  <2>4. CASE i \in 1..Len(s) /\ j = Len(s) + 1
    BY <2>4, <1>2, <1>3, <1>4, <1>5
  <2>5. QED
    BY <2>1, <2>2, <2>3, <2>4, <1>2
<1>6. h.rrlast = 0 \/ h.rrlast < Len(h.qpGrp)
  BY <1>1, <1>2, <1>3 DEF HostOK, HostShape
<1>7. HostOK(h)
  BY <1>1, <1>3, <1>5, <1>6 DEF HostOK
<1>8. h.acks <= host.acks
  BY <1>1, <1>3, BoundAssumption DEF HostShape
<1>9. QED
  BY <1>1, <1>7, <1>8, Look

LEMMA AnswerStep ==
    ASSUME IInv, NEW q \in Flows, NEW seq \in 0..Size, NEW gap \in Gaps, NEW late \in BOOLEAN,
           ReceiveAck(q, seq, gap, late) \/ ReceiveNack(q, seq, gap, late)
    PROVE  IInv' /\ Remembered(host')
<1> DEFINE a == Acknowledged(host, q, seq)
<1>1. /\ HostOK(host) /\ FlowOK(q, host.qp[q]) /\ host.acks \in Nat
      /\ seq \in Nat /\ host.qp[q].una \in Nat /\ host.qp[q].high \in Nat
  BY BoundAssumption, FlowFields, FlowAssumption DEF IInv, HostOK, HostShape
<1>2. host.qp[q].una <= seq /\ seq <= host.qp[q].high
  BY <1>1 DEF ReceiveAck, ReceiveNack
<1>3. HostOK(a) /\ a.acks = host.acks
  BY <1>1, <1>2, AcknowledgedOK
<1> HIDE DEF a
<1>4. CASE ReceiveAck(q, seq, gap, late)
  <2>1. host' = DequeueAndTransmit(ChangeRate(a, q, gap, late)) /\ UNCHANGED spent
    BY <1>4 DEF ReceiveAck, a
  <2>2. HostOK(ChangeRate(a, q, gap, late)) /\ ChangeRate(a, q, gap, late).acks <= host.acks
    BY <1>1, <1>3, ChangeRateOK
  <2>3. QED
    BY <2>1, <2>2, Look
<1>5. CASE ReceiveNack(q, seq, gap, late)
  <2>1. /\ host' = DequeueAndTransmit(ChangeRate(GoBack(a, q), q, gap, late))
        /\ spent.backs < MaxBacks /\ spent' = [spent EXCEPT !.backs = @ + 1]
    BY <1>5 DEF ReceiveNack, a
  <2>2. HostOK(GoBack(a, q)) /\ GoBack(a, q).acks = host.acks
    BY <1>3, GoBackOK
  <2>3. /\ HostOK(ChangeRate(GoBack(a, q), q, gap, late))
        /\ ChangeRate(GoBack(a, q), q, gap, late).acks <= host.acks
    BY <1>1, <2>2, ChangeRateOK
  <2>4. QED
    BY <2>1, <2>3, Look
<1>6. QED
  BY <1>4, <1>5

LEMMA TimeoutStep ==
    ASSUME IInv, NEW q \in Flows, HandleTimeout(q)
    PROVE  IInv' /\ Remembered(host')
<1>1. /\ host' = DequeueAndTransmit(GoBack(host, q))
      /\ spent.backs < MaxBacks /\ spent' = [spent EXCEPT !.backs = @ + 1]
  BY DEF HandleTimeout
<1>2. HostOK(GoBack(host, q)) /\ GoBack(host, q).acks <= host.acks
  BY GoBackOK, BoundAssumption DEF IInv, HostOK, HostShape
<1>3. QED
  BY <1>1, <1>2, Look

(* A pause ends, the transmitter becomes READY, or m_nextSend fires.            *)
LEMMA EventStep ==
    ASSUME IInv, (\E g \in Groups : Resume(g)) \/ TransmitComplete \/ NextSend
    PROVE  IInv' /\ Remembered(host')
<1>1. HostOK(host) /\ host \in HostShape /\ host.acks \in Nat
  BY BoundAssumption DEF IInv, HostOK, HostShape
<1>2. PICK h : /\ host' = DequeueAndTransmit(h) /\ UNCHANGED spent
               /\ \/ \E g \in Groups : h = [host EXCEPT !.paused = @ \ {g}]
                  \/ h = [host EXCEPT !.tx = Never]
                  \/ h = [host EXCEPT !.wake = Never]
  BY DEF Resume, TransmitComplete, NextSend
<1>3. /\ h \in HostShape /\ h.qp = host.qp /\ h.qpGrp = host.qpGrp
      /\ h.rrlast = host.rrlast /\ h.acks = host.acks
  BY <1>1, <1>2 DEF HostShape
<1>4. HostOK(h) /\ h.acks <= host.acks
  BY <1>1, <1>3, NicChanged
<1>5. QED
  BY <1>2, <1>4, Look

LEMMA ReceiveUdpStep ==
    ASSUME IInv, ReceiveUdp
    PROVE  IInv' /\ Remembered(host')
<1> DEFINE h == [host EXCEPT !.acks = host.acks + 1]
<1>1. /\ HostOK(host) /\ host \in HostShape /\ host.acks \in Nat /\ host.acks <= spent.acks
      /\ spent \in [acks : 0..MaxAcks, pauses : 0..MaxPauses, backs : 0..MaxBacks]
      /\ spent.acks < MaxAcks
      /\ host' = DequeueAndTransmit(h) /\ spent' = [spent EXCEPT !.acks = @ + 1]
  BY BoundAssumption DEF IInv, HostOK, HostShape, SpentOK, ReceiveUdp
<1>2. spent.acks \in Nat /\ host.acks + 1 \in 0..MaxAcks /\ spent.acks + 1 \in 0..MaxAcks
  BY <1>1, BoundAssumption
<1>3. /\ h \in HostShape /\ h.qp = host.qp /\ h.qpGrp = host.qpGrp
      /\ h.rrlast = host.rrlast /\ h.acks = host.acks + 1
  BY <1>1, <1>2 DEF HostShape
<1> HIDE DEF h
<1>4. HostOK(h)
  BY <1>1, <1>3, NicChanged
<1>5. HostOK(host') /\ host'.acks <= h.acks /\ Remembered(host')
  BY <1>1, <1>4, LookOK
<1>6. /\ spent' \in [acks : 0..MaxAcks, pauses : 0..MaxPauses, backs : 0..MaxBacks]
      /\ spent'.acks = spent.acks + 1
  BY <1>1, <1>2
<1>7. host'.acks \in Nat
  BY <1>5, BoundAssumption DEF HostOK, HostShape
<1>8. SpentOK'
  BY <1>1, <1>2, <1>3, <1>5, <1>6, <1>7 DEF SpentOK
<1>9. QED
  BY <1>5, <1>8 DEF IInv

(* The events after which the NIC does not look at its QPs.                     *)
LEMMA PauseStep ==
    ASSUME IInv, NEW g \in Groups, Pause(g)
    PROVE  IInv' /\ Remembered(host')
<1>1. /\ HostOK(host) /\ host \in HostShape
      /\ spent \in [acks : 0..MaxAcks, pauses : 0..MaxPauses, backs : 0..MaxBacks]
      /\ host.acks <= spent.acks /\ spent.pauses < MaxPauses
      /\ host' = [host EXCEPT !.paused = @ \cup {g}]
      /\ spent' = [spent EXCEPT !.pauses = @ + 1]
  BY DEF IInv, HostOK, SpentOK, Pause
<1>2. /\ host' \in HostShape /\ host'.qp = host.qp /\ host'.qpGrp = host.qpGrp
      /\ host'.rrlast = host.rrlast /\ host'.acks = host.acks
      /\ host'.paused = host.paused \cup {g}
  BY <1>1 DEF HostShape
<1>3. HostOK(host')
  BY <1>1, <1>2, NicChanged
<1>4. SpentOK'
  BY <1>1, <1>2, BoundAssumption DEF SpentOK
<1>5. Remembered(host')
  BY <1>2 DEF Remembered
<1>6. QED
  BY <1>3, <1>4, <1>5 DEF IInv

LEMMA TickStep ==
    ASSUME IInv, Tick
    PROVE  IInv' /\ (Remembered(host) => Remembered(host'))
<1>1. /\ HostOK(host) /\ host \in HostShape /\ SpentOK /\ UNCHANGED spent
      /\ host.qp \in [Flows -> FlowType] /\ host.tx # 0 /\ host.wake # 0
      /\ host.tx \in {Never} \cup 0..TxTime /\ host.wake \in {Never} \cup 0..MaxGap
  BY DEF IInv, HostOK, HostShape, Tick
<1>2. host' = [host EXCEPT !.qp = [q \in Flows |-> Aged(host.qp[q])],
                          !.tx = Sooner(host.tx),
                          !.wake = Sooner(host.wake)]
  BY DEF Tick
<1>3. MaxGap \in Nat /\ TxTime \in Nat
  BY GapFacts, TimeAssumption
<1>4. \A q \in Flows :
         /\ Aged(host.qp[q]) \in FlowType
         /\ Aged(host.qp[q]).una = host.qp[q].una /\ Aged(host.qp[q]).nxt = host.qp[q].nxt
         /\ Aged(host.qp[q]).high = host.qp[q].high /\ Aged(host.qp[q]).gap = host.qp[q].gap
  <2>1. SUFFICES ASSUME NEW q \in Flows, NEW f \in FlowType, f = host.qp[q]
                 PROVE  /\ Aged(f) \in FlowType
                        /\ Aged(f).una = f.una /\ Aged(f).nxt = f.nxt
                        /\ Aged(f).high = f.high /\ Aged(f).gap = f.gap
    BY <1>1
  <2>2. (IF f.age < MaxGap THEN f.age + 1 ELSE f.age) \in 0..MaxGap
    BY <1>3, <2>1 DEF FlowType
  <2>3. QED
    BY <2>1, <2>2 DEF FlowType, Aged
<1>5. /\ Sooner(host.tx) \in {Never} \cup 0..TxTime /\ (Sooner(host.tx) = Never <=> host.tx = Never)
      /\ Sooner(host.wake) \in {Never} \cup 0..MaxGap
      /\ Sooner(host.wake) = Never <=> host.wake = Never
  BY <1>1, <1>3 DEF Sooner, Never
<1>6. host'.qp = [q \in Flows |-> Aged(host.qp[q])]
  BY <1>1, <1>2 DEF HostShape
<1>7. host'.qp \in [Flows -> FlowType] /\ \A q \in Flows : host'.qp[q] = Aged(host.qp[q])
  BY <1>4, <1>6
<1>8. /\ host'.qpGrp = host.qpGrp /\ host'.rrlast = host.rrlast /\ host'.acks = host.acks
      /\ host'.paused = host.paused
      /\ host'.tx = Sooner(host.tx) /\ host'.wake = Sooner(host.wake)
  BY <1>1, <1>2 DEF HostShape
<1>9. host' \in HostShape
  <2>1. host' = [host EXCEPT !.qp = host'.qp, !.tx = Sooner(host.tx),
                             !.wake = Sooner(host.wake)]
    BY <1>1, <1>2, <1>8 DEF HostShape
  <2>2. QED
    BY <1>1, <1>5, <1>7, <2>1 DEF HostShape
<1>10. \A q \in Flows : FlowOK(q, host'.qp[q])
  BY <1>1, <1>4, <1>7 DEF HostOK, FlowOK
<1>11. HostOK(host')
  BY <1>1, <1>8, <1>9, <1>10 DEF HostOK
<1>12. SpentOK'
  BY <1>1, <1>8 DEF SpentOK
<1>13. \A q \in Flows :
          /\ DataLeft(host', q) <=> DataLeft(host, q)
          /\ IsWinBound(q, host'.qp[q]) <=> IsWinBound(q, host.qp[q])
          /\ Blocked(host', q) <=> Blocked(host, q)
  BY <1>4, <1>7, <1>8 DEF DataLeft, InGroup, IsWinBound, Win, Blocked
<1>14. Remembered(host) => Remembered(host')
  BY <1>5, <1>8, <1>13 DEF Remembered
<1>15. QED
  BY <1>11, <1>12, <1>14 DEF IInv

(* Windows do not follow the rates, or there are none.                         *)
FixedWindows == ~VarWin \/ \A q \in Flows : Window[q] = 0

(* A QP whose last packet was sent is not held back by a constant window, so    *)
(* that nobody waits for its last ACK.                                         *)
LEMMA LastAckStep ==
    ASSUME IInv, NEW q \in Flows, ReceiveLastAck(q)
    PROVE  /\ IInv'
           /\ FixedWindows /\ Remembered(host) => Remembered(host')
<1> DEFINE old == host.qp[q]
<1>1. /\ HostOK(host) /\ host \in HostShape /\ host.qp \in [Flows -> FlowType]
      /\ SpentOK /\ UNCHANGED spent /\ FlowOK(q, old) /\ old \in FlowType
      /\ old.una < Size /\ old.high = Size
      /\ host' = Acknowledged(host, q, Size)
  BY DEF IInv, HostOK, HostShape, FlowOK, ReceiveLastAck
<1>2. /\ old.una \in Nat /\ old.nxt \in Nat /\ Size \in Nat /\ old.nxt <= Size
      /\ Window[q] \in Nat
  BY <1>1, FlowFields, FlowAssumption, WindowNat
<1>3. HostOK(host') /\ host'.acks = host.acks
  BY <1>1, <1>2, AcknowledgedOK
<1>4. SpentOK'
  BY <1>1, <1>3 DEF SpentOK
<1>5. /\ host'.qp[q].nxt = Larger(old.nxt, Size)
      /\ \A p \in Flows : p # q => host'.qp[p] = host.qp[p]
      /\ host'.qpGrp = host.qpGrp /\ host'.paused = host.paused
      /\ host'.tx = host.tx /\ host'.wake = host.wake
  BY <1>1 DEF Acknowledged, HostShape, FlowType
<1>6. ~DataLeft(host', q)
  BY <1>2, <1>5 DEF DataLeft, Larger
<1>7. \A p \in Flows : p # q =>
         /\ DataLeft(host', p) <=> DataLeft(host, p)
         /\ IsWinBound(p, host'.qp[p]) <=> IsWinBound(p, host.qp[p])
         /\ Blocked(host', p) <=> Blocked(host, p)
  BY <1>5 DEF DataLeft, InGroup, Blocked
<1>8. FixedWindows => ~(DataLeft(host, q) /\ IsWinBound(q, old))
  <2>1. SUFFICES ASSUME Window[q] # 0, ~VarWin, old.nxt < Size PROVE ~(old.nxt - old.una >= Window[q])
    BY DEF DataLeft, IsWinBound, Win, FixedWindows
  <2>2. Size - old.una <= Window[q]
    BY <2>1, <1>1 DEF FlowOK
  <2>3. QED
    BY <2>1, <2>2, <1>2
<1>9. ASSUME FixedWindows, Remembered(host) PROVE Remembered(host')
  <2>1. SUFFICES ASSUME NEW p \in Flows, host'.tx = Never, DataLeft(host', p), ~Blocked(host', p)
                 PROVE  \/ host'.wake # Never
                        \/ host'.paused # {}
                        \/ \E r \in Flows : DataLeft(host', r) /\ IsWinBound(r, host'.qp[r])
    BY DEF Remembered
  <2>2. DataLeft(host, p) /\ ~Blocked(host, p) /\ host.tx = Never
    BY <2>1, <1>5, <1>6, <1>7
  <2>3. CASE host.wake # Never \/ host.paused # {}
    BY <2>3, <1>5
  <2>4. CASE \E r \in Flows : DataLeft(host, r) /\ IsWinBound(r, host.qp[r])
    BY <2>4, <1>7, <1>8, <1>9
  <2>5. QED
    BY <2>2, <2>3, <2>4, <1>9 DEF Remembered
<1>10. QED
  BY <1>3, <1>4, <1>9 DEF IInv

LEMMA InitState == Init => IInv /\ Remembered(host)
<1> SUFFICES ASSUME Init PROVE IInv /\ Remembered(host)
  OBVIOUS
<1> DEFINE f == [una |-> 0, nxt |-> 0, high |-> 0, gap |-> Min(Gaps), age |-> MaxGap]
<1>1. /\ host.qp = [q \in Flows |-> f] /\ host.qpGrp = <<>> /\ host.rrlast = 0 /\ host.acks = 0
      /\ host = [qp |-> [q \in Flows |-> f], qpGrp |-> <<>>, rrlast |-> 0, acks |-> 0,
                 paused |-> {}, tx |-> Never, wake |-> Never]
  BY DEF Init
<1>2. \A q \in Flows : FlowOK(q, f)
  <2>1. Min(Gaps) \in Gaps /\ MaxGap \in Nat
    BY GapFacts
  <2>2. f \in FlowType
    BY <2>1, FlowAssumption DEF FlowType
  <2>3. QED
    BY <2>2, WindowNat DEF FlowOK
<1>3. f \in FlowType
  BY <1>2, FlowAssumption DEF FlowOK
<1> HIDE DEF f
<1>4. host \in HostShape
  BY <1>1, <1>3, EmptySeq, BoundAssumption DEF HostShape
<1>5. HostOK(host)
  <2>1. DOMAIN host.qpGrp = {}
    BY <1>1
  <2>2. QED
    BY <1>1, <1>2, <1>4, <2>1 DEF HostOK
<1>6. SpentOK
  BY <1>1, BoundAssumption DEF Init, SpentOK
<1>7. Remembered(host)
  <2>1. \A q : q \notin InGroup(host)
    BY <1>1, EmptySeq DEF InGroup
  <2>2. QED
    BY <2>1 DEF Remembered, DataLeft
<1>8. QED
  BY <1>5, <1>6, <1>7 DEF IInv

LEMMA Step ==
    ASSUME IInv, [Next]_vars
    PROVE  /\ IInv'
           /\ FixedWindows /\ Remembered(host) => Remembered(host')
<1>1. CASE \E q \in Flows : NewQp(q)
  BY <1>1, NewQpStep
<1>2. CASE \E q \in Flows, seq \in 0..Size, gap \in Gaps, late \in BOOLEAN :
              ReceiveAck(q, seq, gap, late) \/ ReceiveNack(q, seq, gap, late)
  BY <1>2, AnswerStep
<1>3. CASE \E q \in Flows : ReceiveLastAck(q)
  BY <1>3, LastAckStep
<1>4. CASE \E q \in Flows : HandleTimeout(q)
  BY <1>4, TimeoutStep
<1>5. CASE ReceiveUdp
  BY <1>5, ReceiveUdpStep
<1>6. CASE \E g \in Groups : Pause(g)
  BY <1>6, PauseStep
<1>7. CASE (\E g \in Groups : Resume(g)) \/ TransmitComplete \/ NextSend
  BY <1>7, EventStep
<1>8. CASE Tick
  BY <1>8, TickStep
<1>9. CASE UNCHANGED vars
  BY <1>9 DEF vars, IInv, SpentOK
<1>10. 1..Size \subseteq 0..Size
  BY FlowAssumption
<1>11. QED
  BY <1>1, <1>2, <1>3, <1>4, <1>5, <1>6, <1>7, <1>8, <1>9, <1>10 DEF Next, Run

(* The group never holds more QPs than there are.                               *)
LEMMA IInvType == IInv => TypeOK
<1> SUFFICES ASSUME IInv PROVE TypeOK
  OBVIOUS
<1> DEFINE s == host.qpGrp
           n == Cardinality(Flows)
<1>1. /\ host \in HostShape /\ s \in Seq(Flows)
      /\ \A i, j \in DOMAIN s : s[i] = s[j] => i = j
      /\ host.rrlast \in Nat /\ (host.rrlast = 0 \/ host.rrlast < Len(s))
      /\ \A q \in Flows : host.qp[q].una <= host.qp[q].nxt /\ host.qp[q].nxt <= host.qp[q].high
      /\ spent \in [acks : 0..MaxAcks, pauses : 0..MaxPauses, backs : 0..MaxBacks]
  BY DEF IInv, HostOK, HostShape, FlowOK, SpentOK
<1>2. IsFiniteSet(Flows) /\ n \in Nat /\ n # 0
  BY FlowAssumption, FS_CardinalityType, FS_EmptySet
<1>3. /\ Len(s) \in Nat /\ DOMAIN s = 1..Len(s) /\ s \in [1..Len(s) -> Flows]
  BY <1>1, LenProperties
<1> HIDE DEF s
<1>4. IsFiniteSet(1..Len(s)) /\ Cardinality(1..Len(s)) = Len(s)
  BY <1>3, FS_Interval
<1>5. Len(s) <= n
  <2>1. SUFFICES ASSUME n < Len(s) PROVE FALSE
    BY <1>2, <1>3
  <2>2. \E i, j \in 1..Len(s) : i # j /\ s[i] = s[j]
    BY <1>2, <1>3, <1>4, <2>1, FS_PigeonHole
  <2>3. QED
    BY <1>1, <1>3, <2>2
<1> HIDE DEF n
<1>6. s \in SeqOf(Flows, n) /\ host.rrlast \in 0..(n - 1)
  <2>1. Len(s) \in 0..n
    BY <1>2, <1>3, <1>5
  <2>2. s \in SeqOf(Flows, n)
    BY <1>3, <2>1 DEF SeqOf
  <2>3. QED
    BY <1>1, <1>2, <1>3, <1>5, <2>2
<1>7. host \in HostType
  BY <1>1, <1>6 DEF HostShape, HostType, s, n
<1>8. QED
  BY <1>1, <1>7 DEF TypeOK

-----------------------------------------------------------------------------
(* Type correctness, for any window, constant or not.                           *)
THEOREM TypeCorrect == FairSpec => []TypeOK
<1>1. IInv /\ [Next]_vars => IInv'
  BY Step
<1>2. QED
  BY <1>1, InitState, IInvType, PTL DEF FairSpec

(* With a constant window, or none, no QP that may send is ever forgotten: an   *)
(* idle NIC has set itself an event, or waits for one that looks at every QP.   *)
THEOREM NoneForgotten ==
    ASSUME FixedWindows
    PROVE  FairSpec => []NotForgotten
<1>1. IInv /\ Remembered(host) /\ [Next]_vars => IInv' /\ Remembered(host')
  BY Step
<1>2. Remembered(host) <=> NotForgotten
  BY DEF Remembered, NotForgotten
<1>3. (Remembered(host))' <=> Remembered(host')
  BY DEF Remembered
<1>4. QED
  BY <1>1, <1>2, <1>3, InitState, PTL DEF FairSpec

=============================================================================
