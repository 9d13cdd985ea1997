--------------------------- MODULE SwitchMmuProofs ---------------------------
(* Proofs about SwitchMmu for every number of ports and queues, every packet  *)
(* size and every buffer configuration the assumptions of SwitchMmu admit.    *)
EXTENDS SwitchMmu, SumLemmas

\* What a class with b bytes holds beyond its reserve and its share.
Excess(b) == IF b > Reserve + SharedBytes THEN b - Reserve - SharedBytes ELSE 0

\* What the invariant says of one class whose counters are b and h, whose port
\* grants headroom hr, and whose pause flag is ps.
ClassOK(b, h, ps, hr) ==
    /\ b \in Nat /\ h \in Nat /\ ps \in BOOLEAN
    /\ h = Excess(b) /\ h <= hr
    /\ b >= Reserve + SharedBytes => ps
    /\ ps => ~ShouldResume(b, h) /\ b > Reserve

\* The inductive invariant: it speaks of each class by itself.
IInv ==
    /\ TypeOK
    /\ \A c \in Classes : ClassOK(ingress[c], hdrm[c], paused[c], Headroom[c[1]])

(* The configuration, as the provers use it.                                  *)
LEMMA Config ==
    /\ Reserve \in Nat /\ ResumeOffset \in Nat /\ ResumeOffset > 0
    /\ SharedBytes \in Nat /\ SharedBytes > 0 /\ Word \in Nat
    /\ \A z \in Sizes : z \in Nat /\ 0 < z /\ z <= SharedBytes
    /\ \A c \in Classes : /\ Headroom[c[1]] \in Nat
                          /\ Reserve + SharedBytes + Headroom[c[1]] + SharedBytes < Word
<1>1. ASSUME NEW c \in Classes PROVE c[1] \in Ports
  BY DEF Classes
<1> HIDE DEF SharedBytes
<1>2. QED
  BY <1>1, ConfigAssumption, SharedAssumption

(* The invariant gives the properties of SwitchMmu.                           *)
LEMMA Consequences ==
    IInv => HdrmExact /\ HdrmBound /\ CongestedIsPaused /\ PausedWillResume
<1> HIDE DEF SharedBytes, ShouldResume
<1>1. QED
  BY DEF IInv, HdrmExact, HdrmBound, CongestedIsPaused, PausedWillResume, ClassOK, Excess

(* Admission of z bytes to a class: the headroom counter grows by what the    *)
(* packet takes beyond the share, and the packet is either within the share   *)
(* or within the headroom.                                                    *)
LEMMA AdmitClass ==
    ASSUME NEW c \in Classes, NEW z \in Sizes,
           ClassOK(ingress[c], hdrm[c], paused[c], Headroom[c[1]]),
           CheckIngressAdmission(c, z)
    PROVE  /\ ClassOK(ingress[c] + z, hdrm[c] + HdrmInc(c, z),
                      paused[c] \/ ShouldPause(ingress[c] + z, hdrm[c] + HdrmInc(c, z)),
                      Headroom[c[1]])
           /\ SharedInc(c, z) \in Nat
<1> DEFINE b == ingress[c]
           h == hdrm[c]
           hr == Headroom[c[1]]
           S == SharedBytes
<1>1. /\ Reserve \in Nat /\ ResumeOffset \in Nat /\ ResumeOffset > 0
      /\ S \in Nat /\ Word \in Nat /\ z \in Nat /\ 0 < z /\ z <= S
      /\ hr \in Nat /\ Reserve + S + hr + S < Word
  BY Config
<1>2. b \in Nat /\ h \in Nat /\ h = Excess(b) /\ h <= hr
  BY DEF ClassOK
<1>3. z + h <= hr \/ z + GetSharedUsed(b) <= S
  BY DEF CheckIngressAdmission, GetPfcThreshold
<1>4. SharedInc(c, z) \in Nat /\ h + HdrmInc(c, z) = Excess(b + z)
  BY <1>1, <1>2 DEF SharedInc, HdrmInc, Exceeds, Minus, Least, GetPfcThreshold, Excess
<1>5. Excess(b + z) <= hr /\ Excess(b + z) \in Nat
  BY <1>1, <1>2, <1>3 DEF GetSharedUsed, Minus, Least, Excess
<1>6. b + z >= Reserve + S => ShouldPause(b + z, Excess(b + z))
  BY <1>1, <1>2 DEF ShouldPause, GetSharedUsed, GetPfcThreshold, Minus, Least, Excess
<1>7. ShouldPause(b + z, Excess(b + z)) => b + z >= Reserve + S
  BY <1>1, <1>2 DEF ShouldPause, GetSharedUsed, GetPfcThreshold, Minus, Least, Excess
<1>8. b + z >= Reserve + S => ~ShouldResume(b + z, Excess(b + z)) /\ b + z > Reserve
  BY <1>1, <1>2 DEF ShouldResume, GetSharedUsed, GetPfcThreshold, Minus, Least, Excess
<1>9. paused[c] => ~ShouldResume(b + z, Excess(b + z)) /\ b + z > Reserve
  BY <1>1, <1>2
  DEF ClassOK, ShouldResume, GetSharedUsed, GetPfcThreshold, Minus, Least, Excess
<1>10. (paused[c] \/ ShouldPause(b + z, Excess(b + z))) \in BOOLEAN
  BY DEF ShouldPause
<1>11. QED
  <2> HIDE DEF S
  <2>1. ClassOK(b + z, Excess(b + z), paused[c] \/ ShouldPause(b + z, Excess(b + z)), hr)
    BY <1>1, <1>2, <1>5, <1>6, <1>7, <1>8, <1>9, <1>10 DEF ClassOK, S
  <2>2. QED
    BY <2>1, <1>4

(* Release of z bytes: what is taken off the headroom counter keeps it the    *)
(* excess of what is left, and no subtraction wraps.                          *)
LEMMA ReleaseClass ==
    ASSUME NEW c \in Classes, NEW z \in Sizes, z <= ingress[c],
           ClassOK(ingress[c], hdrm[c], paused[c], Headroom[c[1]])
    PROVE  /\ ClassOK(Minus(ingress[c], z), Minus(hdrm[c], FromHdrm(c, z)),
                      paused[c] /\ ~ShouldResume(Minus(ingress[c], z),
                                                 Minus(hdrm[c], FromHdrm(c, z))),
                      Headroom[c[1]])
           /\ FromShared(c, z) \in Nat
<1> DEFINE b == ingress[c]
           h == hdrm[c]
           hr == Headroom[c[1]]
           S == SharedBytes
<1>1. /\ Reserve \in Nat /\ ResumeOffset \in Nat /\ ResumeOffset > 0
      /\ S \in Nat /\ Word \in Nat /\ z \in Nat /\ 0 < z /\ z <= S
      /\ hr \in Nat /\ Reserve + S + hr + S < Word
  BY Config
<1>2. b \in Nat /\ h \in Nat /\ h = Excess(b) /\ h <= hr /\ z <= b
  BY DEF ClassOK
<1>3. Minus(b, z) = b - z /\ b - z \in Nat
  BY <1>1, <1>2 DEF Minus
<1>4. /\ Minus(h, FromHdrm(c, z)) = Excess(b - z)
      /\ Excess(b - z) \in Nat /\ Excess(b - z) <= hr
      /\ FromShared(c, z) \in Nat
  BY <1>1, <1>2 DEF FromHdrm, FromShared, Minus, Least, Excess
<1>5. b - z >= Reserve + S => paused[c]
  BY <1>1, <1>2 DEF ClassOK
<1>6. b - z >= Reserve + S => ~ShouldResume(b - z, Excess(b - z))
  BY <1>1, <1>2 DEF ShouldResume, GetSharedUsed, GetPfcThreshold, Minus, Least, Excess
<1>7. ~ShouldResume(b - z, Excess(b - z)) => b - z > Reserve
  BY <1>1, <1>2 DEF ShouldResume, GetSharedUsed, GetPfcThreshold, Minus, Least, Excess
<1>8. (paused[c] /\ ~ShouldResume(b - z, Excess(b - z))) \in BOOLEAN
  OBVIOUS
<1>9. ClassOK(b - z, Excess(b - z), paused[c] /\ ~ShouldResume(b - z, Excess(b - z)), hr)
  <2> HIDE DEF S
  <2>1. QED
    BY <1>1, <1>2, <1>3, <1>4, <1>5, <1>6, <1>7, <1>8 DEF ClassOK, S
<1>10. QED
  BY <1>3, <1>4, <1>9

-----------------------------------------------------------------------------
LEMMA InitIInv == Init => IInv
<1> SUFFICES ASSUME Init PROVE IInv
  OBVIOUS
<1>1. TypeOK
  BY DEF Init, TypeOK
<1>2. ASSUME NEW c \in Classes
      PROVE  ClassOK(0, 0, FALSE, Headroom[c[1]])
  BY Config DEF ClassOK, Excess
<1>3. QED
  BY <1>1, <1>2 DEF Init, IInv

LEMMA NextKeeps == IInv /\ [Next]_vars => IInv'
<1> SUFFICES ASSUME IInv, [Next]_vars PROVE IInv'
  OBVIOUS
<1>0. TypeOK /\ \A c \in Classes :
                   ClassOK(ingress[c], hdrm[c], paused[c], Headroom[c[1]])
  BY DEF IInv
<1>1. ASSUME NEW c \in Classes, NEW o \in Ports, NEW z \in Sizes, Admit(c, o, z)
      PROVE  IInv'
  <2> DEFINE b == ingress[c] + z
             h == hdrm[c] + HdrmInc(c, z)
             ps == paused[c] \/ ShouldPause(b, h)
  <2>1. ClassOK(b, h, ps, Headroom[c[1]]) /\ SharedInc(c, z) \in Nat
    BY <1>0, <1>1, AdmitClass DEF Admit
  <2>2. /\ ingress' = [ingress EXCEPT ![c] = b]
        /\ hdrm' = [hdrm EXCEPT ![c] = h]
        /\ paused' = [paused EXCEPT ![c] = ps]
        /\ egress' = [egress EXCEPT ![<<o, c[2]>>] = egress[<<o, c[2]>>] + z]
        /\ sharedUsed' = sharedUsed + SharedInc(c, z)
    BY <1>1 DEF Admit
  <2> HIDE DEF b, h, ps
  <2>3. b \in Nat /\ h \in Nat /\ ps \in BOOLEAN
    BY <2>1 DEF ClassOK
  <2>4. <<o, c[2]>> \in Classes /\ z \in Nat
    BY Config DEF Classes
  <2>5. TypeOK'
    BY <2>1, <2>2, <2>3, <2>4, <1>0 DEF TypeOK
  <2>6. ASSUME NEW d \in Classes
        PROVE  ClassOK(ingress'[d], hdrm'[d], paused'[d], Headroom[d[1]])
    <3>1. CASE d = c
      BY <3>1, <2>1, <2>2, <1>0 DEF TypeOK
    <3>2. CASE d # c
      BY <3>2, <2>2, <1>0 DEF TypeOK
    <3>3. QED
      BY <3>1, <3>2
  <2>7. QED
    BY <2>5, <2>6 DEF IInv
<1>2. ASSUME NEW c \in Classes, NEW o \in Ports, NEW z \in Sizes, Release(c, o, z)
      PROVE  IInv'
  <2> DEFINE b == Minus(ingress[c], z)
             h == Minus(hdrm[c], FromHdrm(c, z))
             ps == paused[c] /\ ~ShouldResume(b, h)
  <2>1. ClassOK(b, h, ps, Headroom[c[1]]) /\ FromShared(c, z) \in Nat
    BY <1>0, <1>2, ReleaseClass DEF Release
  <2>2. /\ ingress' = [ingress EXCEPT ![c] = b]
        /\ hdrm' = [hdrm EXCEPT ![c] = h]
        /\ paused' = [paused EXCEPT ![c] = ps]
        /\ egress' = [egress EXCEPT ![<<o, c[2]>>] = Minus(egress[<<o, c[2]>>], z)]
        /\ sharedUsed' = Minus(sharedUsed, FromShared(c, z))
        /\ z <= egress[<<o, c[2]>>]
    BY <1>2 DEF Release
  <2> HIDE DEF b, h, ps
  <2>3. b \in Nat /\ h \in Nat /\ ps \in BOOLEAN
    BY <2>1 DEF ClassOK
  <2>4. <<o, c[2]>> \in Classes /\ z \in Nat /\ Word \in Nat
    BY Config DEF Classes
  <2>5. egress[<<o, c[2]>>] \in Nat /\ sharedUsed \in Int
    BY <2>4, <1>0 DEF TypeOK
  <2>6. Minus(egress[<<o, c[2]>>], z) \in Nat /\ sharedUsed' \in Int
    BY <2>1, <2>2, <2>4, <2>5 DEF Minus
  <2>7. TypeOK'
    BY <2>2, <2>3, <2>4, <2>6, <1>0 DEF TypeOK
  <2>8. ASSUME NEW d \in Classes
        PROVE  ClassOK(ingress'[d], hdrm'[d], paused'[d], Headroom[d[1]])
    <3>1. CASE d = c
      BY <3>1, <2>1, <2>2, <1>0 DEF TypeOK
    <3>2. CASE d # c
      BY <3>2, <2>2, <1>0 DEF TypeOK
    <3>3. QED
      BY <3>1, <3>2
  <2>9. QED
    BY <2>7, <2>8 DEF IInv
<1>3. CASE UNCHANGED vars
  <2>1. TypeOK'
    BY <1>0, <1>3 DEF vars, TypeOK
  <2>2. \A c \in Classes : ClassOK(ingress'[c], hdrm'[c], paused'[c], Headroom[c[1]])
    BY <1>0, <1>3 DEF vars
  <2>3. QED
    BY <2>1, <2>2 DEF IInv
<1>4. QED
  BY <1>1, <1>2, <1>3 DEF Next

-----------------------------------------------------------------------------
(* Every counter has its type in every reachable state.                       *)
THEOREM TypeCorrect == Spec => []TypeOK
<1>1. IInv => TypeOK
  BY Consequences DEF IInv
<1>2. QED
  BY <1>1, InitIInv, NextKeeps, PTL DEF Spec

(* The headroom counter of a class is always what the class holds beyond its  *)
(* reserve and its share.                                                     *)
THEOREM HeadroomCorrect == Spec => []HdrmExact
<1>1. IInv => HdrmExact
  BY Consequences
<1>2. QED
  BY <1>1, InitIInv, NextKeeps, PTL DEF Spec

(* No class holds more in its headroom than its port grants.                  *)
THEOREM HeadroomBounded == Spec => []HdrmBound
<1>1. IInv => HdrmBound
  BY Consequences
<1>2. QED
  BY <1>1, InitIInv, NextKeeps, PTL DEF Spec

(* A class that has used up its share is paused.                              *)
THEOREM PauseCorrect == Spec => []CongestedIsPaused
<1>1. IInv => CongestedIsPaused
  BY Consequences
<1>2. QED
  BY <1>1, InitIInv, NextKeeps, PTL DEF Spec

(* A paused class still holds the bytes whose dequeue ends its pause.         *)
THEOREM PauseCanEnd == Spec => []PausedWillResume
<1>1. IInv => PausedWillResume
  BY Consequences
<1>2. QED
  BY <1>1, InitIInv, NextKeeps, PTL DEF Spec

-----------------------------------------------------------------------------
(* The packets of all classes fit the buffer.                                  *)

(* What the ports are granted in all is no more than the buffer.               *)
LEMMA Granted ==
    ASSUME Ports # {}
    PROVE  /\ (Reserve + SharedBytes) * Cardinality(Ports) + Sum(Headroom, Ports) <= BufferSize
           /\ Cardinality(Ports) \in Nat
<1> DEFINE n == Cardinality(Ports)
           H == Sum(Headroom, Ports)
<1>1. IsInteger(Headroom, Ports) /\ IsFiniteSet(Ports)
  BY ConfigAssumption DEF IsInteger
<1>2. n \in Nat /\ n > 0 /\ H \in Int
  BY <1>1, FS_CardinalityType, FS_EmptySet, SumSplit
<1>3. SharedBytes = (BufferSize - H - Reserve * n) \div n
  BY DEF SharedBytes, Sum
<1>4. SharedBytes \in Int /\ Reserve \in Int /\ BufferSize \in Int
  BY ConfigAssumption, SharedAssumption
<1> HIDE DEF n, H
<1>5. Reserve * n \in Int
  BY <1>2, <1>4
<1>6. n * SharedBytes <= BufferSize - H - Reserve * n
  <2> DEFINE d == BufferSize - H - Reserve * n
  <2>1. d \in Int
    BY <1>2, <1>4, <1>5
  <2> HIDE DEF d
  <2>2. n * (d \div n) <= d
    BY <2>1, <1>2
  <2>3. QED
    BY <2>2, <1>3 DEF d
<1>7. (Reserve + SharedBytes) * n = Reserve * n + n * SharedBytes
      /\ n * SharedBytes \in Int
  BY <1>2, <1>4
<1>8. (Reserve + SharedBytes) * n + H <= BufferSize
  BY <1>2, <1>4, <1>5, <1>6, <1>7
<1>9. QED
  BY <1>2, <1>8 DEF n, H

(* With one queue a class is a port.                                           *)
LEMMA OneQueue ==
    ASSUME Cardinality(Queues) = 1
    PROVE  /\ IsFiniteSet(Classes) /\ Cardinality(Classes) = Cardinality(Ports)
           /\ Sum([c \in Classes |-> Headroom[c[1]]], Classes) = Sum(Headroom, Ports)
<1>1. PICK q : Queues = {q}
  BY ConfigAssumption, FS_Singleton
<1> DEFINE m == [p \in Ports |-> <<p, q>>]
           G == [c \in Classes |-> Headroom[c[1]]]
<1>2. /\ \A x, y \in Ports : m[x] = m[y] => x = y
      /\ {m[x] : x \in Ports} = Classes
      /\ \A x \in Ports : m[x] \in Classes /\ G[m[x]] = Headroom[x]
  BY <1>1 DEF Classes
<1>3. ExistsBijection(Ports, Classes)
  <2>1. m \in [Ports -> Classes]
    BY <1>2
  <2>2. \A c \in Classes : \E x \in Ports : m[x] = c
    BY <1>2
  <2> HIDE DEF m
  <2>3. QED
    BY <1>2, <2>1, <2>2 DEF ExistsBijection, Bijection, Injection, Surjection, IsInjective
<1>4. IsFiniteSet(Ports) /\ IsInteger(Headroom, Ports)
  BY ConfigAssumption DEF IsInteger
<1> HIDE DEF m, G
<1>5. IsFiniteSet(Classes) /\ Cardinality(Classes) = Cardinality(Ports)
  BY <1>3, <1>4, FS_Bijection
<1>6. Sum(G, Classes) = Sum(Headroom, Ports)
  BY <1>2, <1>4, SumImage
<1>7. QED
  BY <1>5, <1>6 DEF G

(* With one data queue per port the packets in the switch never exceed its      *)
(* buffer, whatever the ports hold.                                            *)
THEOREM BufferHolds == Spec => []OccupancyBounded
<1>1. IInv => OccupancyBounded
  <2> SUFFICES ASSUME IInv, Cardinality(Queues) = 1
               PROVE  Sum(ingress, Classes) <= BufferSize
    BY DEF OccupancyBounded, Sum
  <2> DEFINE G == [c \in Classes |-> Headroom[c[1]]]
             k == Reserve + SharedBytes
  <2>1. k \in Int /\ \A c \in Classes : /\ ingress[c] \in Int /\ G[c] \in Int
                                        /\ ingress[c] <= k + G[c]
    BY Config DEF IInv, ClassOK, Excess
  <2>2. Sum(ingress, Classes) <= k * Cardinality(Classes) + Sum(G, Classes)
    <3>1. IsInteger(ingress, Classes) /\ IsInteger(G, Classes)
      BY <2>1 DEF IsInteger
    <3> HIDE DEF G, k
    <3>2. QED
      BY <2>1, <3>1, OneQueue, SumBound
  <2>3. CASE Ports = {}
    <3>1. Classes = {}
      BY <2>3 DEF Classes
    <3>2. Sum(ingress, Classes) = 0
      BY <3>1, SumEmpty
    <3>3. QED
      BY <3>2, ConfigAssumption
  <2>4. CASE Ports # {}
    <3>1. Cardinality(Classes) = Cardinality(Ports) /\ Sum(G, Classes) = Sum(Headroom, Ports)
      BY OneQueue
    <3>2. k * Cardinality(Ports) + Sum(Headroom, Ports) <= BufferSize
          /\ Cardinality(Ports) \in Nat
      BY <2>4, Granted
    <3>3. Sum(ingress, Classes) \in Int /\ Sum(Headroom, Ports) \in Int
      <4>1. IsInteger(ingress, Classes) /\ IsInteger(Headroom, Ports)
        BY <2>1, ConfigAssumption DEF IsInteger
      <4>2. QED
        BY <4>1, OneQueue, ConfigAssumption, SumSplit
    <3> HIDE DEF k, G
    <3>4. k * Cardinality(Ports) \in Int
      BY <2>1, <3>2
    <3>5. QED
      BY <2>2, <3>1, <3>2, <3>3, <3>4, ConfigAssumption
  <2>5. QED
    BY <2>3, <2>4
<1>2. QED
  BY <1>1, InitIInv, NextKeeps, PTL DEF Spec

=============================================================================
