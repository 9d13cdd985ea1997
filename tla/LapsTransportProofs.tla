------------------------- MODULE LapsTransportProofs -------------------------
(* Proofs about LapsTransport for every set of flows and paths, every flow    *)
(* size, window and number of losses and early timeouts, and about the block  *)
(* list of IrnSackManager that LapsTransport keeps as the set sacked.         *)
EXTENDS LapsTransport, IrnSackManager, SequenceTheorems, FiniteSetTheorems,
        WellFoundedInduction, TLAPS

(* snd_una <= m_max_next_seq <= m_size, and the SACK blocks lie strictly      *)
(* between the first two: the packet at snd_una is never in a block.          *)
Ranges ==
    \A f \in Flows :
        /\ una[f] <= maxNext[f] /\ maxNext[f] <= Size[f]
        /\ sacked[f] \subseteq (una[f] + 1)..(maxNext[f] - 1)

IInv == TypeOK /\ Ranges /\ AccountedOnce

(* Every nonempty set of natural numbers has a least element.                 *)
LEMMA LeastNat ==
    ASSUME NEW T \in SUBSET Nat, T # {}
    PROVE  \E m \in T : \A n \in T : m <= n
<1>1. \E m \in T : \A n \in T : ~(<<n, m>> \in OpToRel(<, Nat))
  BY NatLessThanWellFounded, WFMin
<1>2. OpToRel(<, Nat) = {ss \in Nat \X Nat : ss[1] < ss[2]}
  BY DEF OpToRel
<1>3. \A m, n \in Nat : n < m => <<n, m>> \in OpToRel(<, Nat)
  BY <1>2
<1>4. PICK m \in T : \A n \in T : ~(<<n, m>> \in OpToRel(<, Nat))
  BY <1>1
<1>5. \A n \in T : m <= n
  <2>1. ASSUME NEW n \in T PROVE ~(n < m)
    BY <1>3, <1>4
  <2>2. QED
    BY <2>1
<1>6. QED
  BY <1>5

(* snd_una advances over the packets of S that follow it without a gap, and   *)
(* stops at the first packet that is not in S.                                *)
LEMMA AdvanceStops ==
    ASSUME NEW f \in Flows, una[f] \in Nat, Size[f] \in Nat, una[f] <= Size[f],
           NEW S \in SUBSET Nat, Size[f] \notin S
    PROVE  /\ Advance(f, S) \in una[f]..Size[f]
           /\ Advance(f, S) \notin S
           /\ una[f]..(Advance(f, S) - 1) \subseteq S
<1> DEFINE T == {v \in una[f]..Size[f] : v \notin S}
<1>1. Size[f] \in T /\ T \in SUBSET Nat
  OBVIOUS
<1>2. PICK m \in T : \A n \in T : m <= n
  BY <1>1, LeastNat
<1>3. una[f]..(m - 1) \subseteq S
  BY <1>2
<1>4. m \in una[f]..Size[f] /\ m \notin S
  BY <1>2
<1>5. QED
  BY <1>3, <1>4 DEF Advance

(* Removing the i-th element closes the gap and keeps the order.              *)
LEMMA WithoutProperties ==
    ASSUME NEW S, NEW q \in Seq(S), NEW i \in 1..Len(q)
    PROVE  /\ Without(q, i) \in Seq(S)
           /\ Len(Without(q, i)) = Len(q) - 1
           /\ \A j \in 1..(Len(q) - 1) :
                 Without(q, i)[j] = IF j < i THEN q[j] ELSE q[j + 1]
<1> DEFINE a == SubSeq(q, 1, i - 1)
           b == SubSeq(q, i + 1, Len(q))
<1>1. Len(q) \in Nat /\ \A j \in 1..Len(q) : q[j] \in S
  BY LenProperties, ElementOfSeq
<1>2. /\ a \in Seq(S) /\ Len(a) = i - 1
      /\ \A j \in 1..(i - 1) : a[j] = q[j]
  BY <1>1, SubSeqProperties
<1>3. /\ b \in Seq(S) /\ Len(b) = Len(q) - i
      /\ \A j \in 1..(Len(q) - i) : b[j] = q[j + i]
  <2>1. \A j \in (i + 1)..Len(q) : q[j] \in S
    BY <1>1
  <2>2. /\ b \in Seq(S)
        /\ Len(b) = IF i + 1 <= Len(q) THEN Len(q) - (i + 1) + 1 ELSE 0
        /\ \A j \in 1..(Len(q) - (i + 1) + 1) : b[j] = q[(i + 1) + j - 1]
    BY <2>1, <1>1, SubSeqProperties
  <2>3. QED
    BY <2>2, <1>1
<1>4. Without(q, i) = a \o b
  BY DEF Without
<1> HIDE DEF a, b
<1>5. /\ a \o b \in Seq(S)
      /\ Len(a \o b) = Len(a) + Len(b)
      /\ \A j \in 1..(Len(a) + Len(b)) :
            (a \o b)[j] = IF j <= Len(a) THEN a[j] ELSE b[j - Len(a)]
  BY <1>2, <1>3, ConcatProperties
<1>6. ASSUME NEW j \in 1..(Len(q) - 1)
      PROVE  (a \o b)[j] = IF j < i THEN q[j] ELSE q[j + 1]
  <2>1. CASE j < i
    BY <2>1, <1>1, <1>2, <1>3, <1>5
  <2>2. CASE ~(j < i)
    <3>1. (a \o b)[j] = b[j - Len(a)] /\ j - Len(a) = j - i + 1
      BY <2>2, <1>1, <1>2, <1>3, <1>5
    <3>2. b[j - i + 1] = q[(j - i + 1) + i]
      BY <2>2, <1>1, <1>3
    <3>3. QED
      BY <3>1, <3>2, <2>2, <1>1
  <2>3. QED
    BY <2>1, <2>2
<1>7. QED
  BY <1>1, <1>2, <1>3, <1>4, <1>5, <1>6

(* The lossy packet GetNxtPacket resends exists and belongs to the QP.        *)
LEMMA NextLossyExists ==
    ASSUME lossy \in Seq(Entry), NEW f \in Flows, LossyAt(f) # {}
    PROVE  NextLossy(f) \in 1..Len(lossy) /\ lossy[NextLossy(f)].flow = f
<1>1. DOMAIN lossy = 1..Len(lossy) /\ Len(lossy) \in Nat
  BY LenProperties
<1>2. LossyAt(f) \in SUBSET Nat
  BY <1>1 DEF LossyAt
<1>3. PICK m \in LossyAt(f) : \A j \in LossyAt(f) : m <= j
  BY <1>2, LeastNat
<1>4. NextLossy(f) \in LossyAt(f)
  BY <1>3 DEF NextLossy
<1>5. QED
  BY <1>4, <1>1 DEF LossyAt

-----------------------------------------------------------------------------
(* IInv is inductive.  The actions that change the sender's lists are proved  *)
(* one by one; the others leave everything AccountedOnce speaks of alone.     *)

LEMMA InitIInv == Init => IInv
<1> SUFFICES ASSUME Init PROVE IInv
  OBVIOUS
<1> USE SizeAssumption, PathsAssumption, WinAssumption, BoundAssumption
<1>1. TypeOK
  BY EmptySeq DEF Init, TypeOK
<1>2. Ranges
  BY DEF Init, Ranges
<1>3. AccountedOnce
  BY DEF Init, AccountedOnce, OnlyUnackedListed, ListedAtMostOnce, UnackedListed, Unacked
<1>4. QED
  BY <1>1, <1>2, <1>3 DEF IInv

(* A packet is appended to the outstanding list of a path: every place of the *)
(* new lists is the new last place of path p or a place of the old lists.     *)
LEMMA TransmitLists ==
    ASSUME TypeOK, NEW f \in Flows, NEW p \in Paths, NEW s \in Nat, Transmit(f, p, s)
    PROVE  /\ outstanding' \in [Paths -> Seq(Entry)]
           /\ data' \in [Paths -> Seq(Entry)]
           /\ rto' \in [Paths -> BOOLEAN]
           /\ Len(outstanding[p]) + 1 \in 1..Len(outstanding'[p])
           /\ outstanding'[p][Len(outstanding[p]) + 1] = [flow |-> f, seq |-> s]
           /\ \A q \in Paths : \A i \in 1..Len(outstanding[q]) :
                 /\ i \in 1..Len(outstanding'[q])
                 /\ outstanding'[q][i] = outstanding[q][i]
           /\ \A q \in Paths : \A i \in 1..Len(outstanding'[q]) :
                 \/ /\ q = p /\ i = Len(outstanding[p]) + 1
                    /\ outstanding'[q][i] = [flow |-> f, seq |-> s]
                 \/ i \in 1..Len(outstanding[q]) /\ outstanding'[q][i] = outstanding[q][i]
<1> DEFINE e == [flow |-> f, seq |-> s]
           n == Len(outstanding[p])
<1>1. e \in Entry
  BY DEF Entry
<1>2. outstanding[p] \in Seq(Entry) /\ data[p] \in Seq(Entry)
  BY DEF TypeOK
<1>3. /\ outstanding' = [outstanding EXCEPT ![p] = Append(outstanding[p], e)]
      /\ data' = [data EXCEPT ![p] = Append(data[p], e)]
      /\ rto' = [rto EXCEPT ![p] = TRUE]
  BY DEF Transmit
<1> HIDE DEF e
<1>4. Append(data[p], e) \in Seq(Entry) /\ Append(outstanding[p], e) \in Seq(Entry)
  BY <1>1, <1>2, AppendProperties
<1>5. /\ outstanding' \in [Paths -> Seq(Entry)]
      /\ data' \in [Paths -> Seq(Entry)]
      /\ rto' \in [Paths -> BOOLEAN]
  BY <1>3, <1>4 DEF TypeOK
<1>6. outstanding'[p] = Append(outstanding[p], e)
  BY <1>3 DEF TypeOK
<1>7. /\ n \in Nat
      /\ Len(outstanding'[p]) = n + 1
      /\ \A i \in 1..n : outstanding'[p][i] = outstanding[p][i]
      /\ outstanding'[p][n + 1] = e
  BY <1>1, <1>2, <1>6, AppendProperties, LenProperties
<1>8. \A q \in Paths : q # p => outstanding'[q] = outstanding[q]
  BY <1>3 DEF TypeOK
<1>9. ASSUME NEW q \in Paths, NEW i \in 1..Len(outstanding[q])
      PROVE  i \in 1..Len(outstanding'[q]) /\ outstanding'[q][i] = outstanding[q][i]
  <2>1. CASE q = p
    BY <2>1, <1>7
  <2>2. CASE q # p
    BY <2>2, <1>8
  <2>3. QED
    BY <2>1, <2>2
<1>10. ASSUME NEW q \in Paths, NEW i \in 1..Len(outstanding'[q])
       PROVE  \/ q = p /\ i = n + 1 /\ outstanding'[q][i] = e
              \/ i \in 1..Len(outstanding[q]) /\ outstanding'[q][i] = outstanding[q][i]
  <2>1. CASE q = p
    BY <2>1, <1>7
  <2>2. CASE q # p
    BY <2>2, <1>8
  <2>3. QED
    BY <2>1, <2>2
<1>11. n + 1 \in 1..Len(outstanding'[p]) /\ outstanding'[p][n + 1] = e
  BY <1>7
<1>12. QED
  BY <1>5, <1>9, <1>10, <1>11 DEF e

LEMMA SendNewKeeps ==
    ASSUME IInv, NEW f \in Flows, NEW p \in Paths, SendNew(f, p)
    PROVE  IInv'
<1> DEFINE n == Len(outstanding[p])
           e == [flow |-> f, seq |-> maxNext[f]]
<1> USE SizeAssumption
<1>1. /\ TypeOK /\ Ranges /\ AccountedOnce /\ Size[f] \in Nat
      /\ maxNext[f] \in Nat /\ Transmit(f, p, maxNext[f])
      /\ maxNext' = [maxNext EXCEPT ![f] = maxNext[f] + 1]
      /\ maxNext[f] < Size[f]
      /\ UNCHANGED <<qp, una, sacked, lossy, acks, rx, rcvd, losses, early>>
  BY DEF IInv, TypeOK, SendNew, Transmit, receiverVars
<1>2. /\ outstanding' \in [Paths -> Seq(Entry)]
      /\ data' \in [Paths -> Seq(Entry)]
      /\ rto' \in [Paths -> BOOLEAN]
  BY <1>1, TransmitLists
<1>3. /\ n + 1 \in 1..Len(outstanding'[p]) /\ outstanding'[p][n + 1] = e
      /\ \A q \in Paths : \A i \in 1..Len(outstanding[q]) :
            i \in 1..Len(outstanding'[q]) /\ outstanding'[q][i] = outstanding[q][i]
      /\ \A q \in Paths : \A i \in 1..Len(outstanding'[q]) :
            \/ q = p /\ i = n + 1 /\ outstanding'[q][i] = e
            \/ i \in 1..Len(outstanding[q]) /\ outstanding'[q][i] = outstanding[q][i]
  <2>1. TypeOK /\ maxNext[f] \in Nat /\ Transmit(f, p, maxNext[f])
    BY <1>1
  <2>2. QED
    BY <2>1, TransmitLists
<1>4. TypeOK' /\ Ranges'
  <2>1. maxNext' \in [Flows -> Nat]
    BY <1>1 DEF TypeOK
  <2>2. TypeOK'
    BY <2>1, <1>1, <1>2 DEF TypeOK
  <2>3. Ranges'
    BY <1>1 DEF Ranges, TypeOK
  <2>4. QED
    BY <2>2, <2>3
<1>5. /\ e \in Entry /\ ~IsUnacked(e)
      /\ \A x \in Entry : IsUnacked(x)' <=> IsUnacked(x) \/ x = e
  <2>1. /\ Unacked(f)' = Unacked(f) \cup {maxNext[f]}
        /\ \A g \in Flows : g # f => Unacked(g)' = Unacked(g)
        /\ maxNext[f] \notin Unacked(f)
    BY <1>1 DEF Unacked, Ranges, TypeOK
  <2>2. QED
    BY <2>1, <1>1 DEF IsUnacked, Entry
<1>6. /\ \A q \in Paths : \A i \in 1..Len(outstanding[q]) : outstanding[q][i] \in Entry
      /\ \A i \in 1..Len(lossy) : lossy[i] \in Entry
  BY <1>1, ElementOfSeq DEF TypeOK
<1> HIDE DEF e, n
<1>7. /\ \A q \in Paths : \A i \in 1..Len(outstanding[q]) : outstanding[q][i] # e
      /\ \A i \in 1..Len(lossy) : lossy[i] # e
  BY <1>1, <1>5 DEF AccountedOnce, OnlyUnackedListed
<1>8. OnlyUnackedListed'
  <2>1. ASSUME NEW q \in Paths, NEW i \in 1..Len(outstanding'[q])
        PROVE  IsUnacked(outstanding[q][i])'
    BY <1>1, <1>3, <1>5, <1>6 DEF AccountedOnce, OnlyUnackedListed
  <2>2. ASSUME NEW i \in 1..Len(lossy')
        PROVE  IsUnacked(lossy[i])'
    BY <1>1, <1>5, <1>6 DEF AccountedOnce, OnlyUnackedListed
  <2>3. QED
    BY <2>1, <2>2 DEF OnlyUnackedListed
<1>9. ListedAtMostOnce'
  <2>0. ListedAtMostOnce!1 /\ ListedAtMostOnce!2 /\ ListedAtMostOnce!3
    BY <1>1 DEF AccountedOnce, ListedAtMostOnce
  <2>1. ASSUME NEW q \in Paths, NEW r \in Paths,
               NEW i \in 1..Len(outstanding'[q]), NEW j \in 1..Len(outstanding'[r]),
               outstanding'[q][i] = outstanding'[r][j]
        PROVE  q = r /\ i = j
    <3>1. CASE outstanding'[q][i] = e
      BY <3>1, <2>1, <1>3, <1>7
    <3>2. CASE outstanding'[q][i] # e
      <4>1. /\ i \in 1..Len(outstanding[q]) /\ outstanding'[q][i] = outstanding[q][i]
            /\ j \in 1..Len(outstanding[r]) /\ outstanding'[r][j] = outstanding[r][j]
        BY <3>2, <2>1, <1>3
      <4>2. outstanding[q][i] = outstanding[r][j]
        BY <4>1, <2>1
      <4>3. QED
        BY <4>1, <4>2, <2>0
    <3>3. QED
      BY <3>1, <3>2
  <2>2. ASSUME NEW q \in Paths, NEW i \in 1..Len(outstanding'[q]), NEW j \in 1..Len(lossy')
        PROVE  outstanding'[q][i] # lossy'[j]
    <3>1. CASE outstanding'[q][i] = e
      BY <3>1, <1>1, <1>7
    <3>2. CASE outstanding'[q][i] # e
      <4>1. i \in 1..Len(outstanding[q]) /\ outstanding'[q][i] = outstanding[q][i]
        BY <3>2, <1>3
      <4>2. j \in 1..Len(lossy) /\ lossy'[j] = lossy[j]
        BY <1>1
      <4>3. QED
        BY <4>1, <4>2, <2>0
    <3>3. QED
      BY <3>1, <3>2
  <2>3. QED
    BY <2>1, <2>2, <1>1 DEF AccountedOnce, ListedAtMostOnce
<1>10. UnackedListed'
  <2>1. ASSUME NEW g \in Flows, NEW s \in Unacked(g)'
        PROVE  \/ \E q \in Paths : \E i \in 1..Len(outstanding'[q]) :
                     outstanding'[q][i] = [flow |-> g, seq |-> s]
               \/ \E i \in 1..Len(lossy') : lossy'[i] = [flow |-> g, seq |-> s]
    <3> DEFINE x == [flow |-> g, seq |-> s]
    <3>1. x \in Entry /\ (IsUnacked(x) => s \in Unacked(g)) /\ (IsUnacked(x) \/ x = e)
      <4>1. maxNext'[g] \in Nat /\ una'[g] \in Nat
        BY <1>4 DEF TypeOK
      <4>2. x \in Entry
        BY <4>1 DEF Entry, Unacked
      <4>3. IsUnacked(x)'
        BY DEF IsUnacked
      <4>4. QED
        BY <4>2, <4>3, <1>5 DEF IsUnacked
    <3>2. \/ x = e
          \/ \E q \in Paths : \E i \in 1..Len(outstanding[q]) : outstanding[q][i] = x
          \/ \E i \in 1..Len(lossy) : lossy[i] = x
      BY <3>1, <1>1 DEF AccountedOnce, UnackedListed
    <3> HIDE DEF x
    <3>3. \/ \E q \in Paths : \E i \in 1..Len(outstanding'[q]) : outstanding'[q][i] = x
          \/ \E i \in 1..Len(lossy') : lossy'[i] = x
      BY <3>2, <1>1, <1>3
    <3>4. QED
      BY <3>3 DEF x
  <2>2. QED
    BY <2>1 DEF UnackedListed
<1>11. QED
  BY <1>4, <1>8, <1>9, <1>10 DEF IInv, AccountedOnce

(* The first m packets of path p are declared lost, the next n - m leave the   *)
(* list because they are acknowledged, the rest stays outstanding.             *)
LEMMA DrainKeeps ==
    ASSUME TypeOK, AccountedOnce, NEW p \in Paths,
           NEW n \in 0..Len(outstanding[p]), NEW m \in 0..n,
           lossy' = lossy \o SubSeq(outstanding[p], 1, m),
           outstanding' = [outstanding EXCEPT ![p] =
                             SubSeq(outstanding[p], n + 1, Len(outstanding[p]))],
           \A g \in Flows : Unacked(g)' \subseteq Nat,
           \A x \in Entry : IsUnacked(x)' <=>
              IsUnacked(x) /\ \A i \in (m + 1)..n : outstanding[p][i] # x
    PROVE  /\ lossy' \in Seq(Entry)
           /\ outstanding' \in [Paths -> Seq(Entry)]
           /\ AccountedOnce'
<1> DEFINE out == outstanding[p]
           N == Len(out)
           L == Len(lossy)
           a == SubSeq(out, 1, m)
           b == SubSeq(out, n + 1, N)
<1>1. /\ out \in Seq(Entry) /\ N \in Nat /\ \A i \in 1..N : out[i] \in Entry
      /\ lossy \in Seq(Entry) /\ L \in Nat /\ \A i \in 1..L : lossy[i] \in Entry
      /\ m \in Nat /\ n \in Nat /\ m <= n /\ n <= N
  BY LenProperties, ElementOfSeq DEF TypeOK
<1>2. \A q \in Paths : \A i \in 1..Len(outstanding[q]) : outstanding[q][i] \in Entry
  BY ElementOfSeq DEF TypeOK
<1>3. a \in Seq(Entry) /\ Len(a) = m /\ \A i \in 1..m : a[i] = out[i]
  BY <1>1, SubSeqProperties
<1>4. b \in Seq(Entry) /\ Len(b) = N - n /\ \A i \in 1..(N - n) : b[i] = out[n + i]
  <2>1. \A i \in (n + 1)..N : out[i] \in Entry
    BY <1>1
  <2>2. /\ b \in Seq(Entry)
        /\ Len(b) = IF n + 1 <= N THEN N - (n + 1) + 1 ELSE 0
        /\ \A i \in 1..(N - (n + 1) + 1) : b[i] = out[(n + 1) + i - 1]
    BY <2>1, <1>1, SubSeqProperties
  <2>3. QED
    BY <2>2, <1>1
<1>5. lossy' = lossy \o a /\ outstanding' = [outstanding EXCEPT ![p] = b]
  OBVIOUS
<1> HIDE DEF a, b
<1>6. /\ lossy' \in Seq(Entry)
      /\ Len(lossy') = L + m
      /\ \A i \in 1..(L + m) : lossy'[i] = IF i <= L THEN lossy[i] ELSE out[i - L]
  <2>1. /\ lossy' \in Seq(Entry)
        /\ Len(lossy') = L + Len(a)
        /\ \A i \in 1..(L + Len(a)) : lossy'[i] = IF i <= L THEN lossy[i] ELSE a[i - L]
    BY <1>1, <1>3, <1>5, ConcatProperties
  <2>2. QED
    BY <2>1, <1>1, <1>3
<1>7. /\ outstanding' \in [Paths -> Seq(Entry)]
      /\ outstanding'[p] = b
      /\ \A q \in Paths : q # p => outstanding'[q] = outstanding[q]
  BY <1>4, <1>5 DEF TypeOK
<1>8. /\ \A i \in 1..Len(lossy') :
            \/ i \in 1..L /\ lossy'[i] = lossy[i]
            \/ i - L \in 1..m /\ lossy'[i] = out[i - L]
      /\ \A i \in 1..L : i \in 1..Len(lossy') /\ lossy'[i] = lossy[i]
      /\ \A i \in 1..m : L + i \in 1..Len(lossy') /\ lossy'[L + i] = out[i]
  BY <1>1, <1>6
<1>9. /\ \A q \in Paths : \A i \in 1..Len(outstanding'[q]) :
            \/ q = p /\ n + i \in (n + 1)..N /\ outstanding'[q][i] = out[n + i]
            \/ q # p /\ i \in 1..Len(outstanding[q]) /\ outstanding'[q][i] = outstanding[q][i]
      /\ \A i \in (n + 1)..N : i - n \in 1..Len(outstanding'[p]) /\ outstanding'[p][i - n] = out[i]
      /\ \A q \in Paths : q # p => outstanding'[q] = outstanding[q]
  BY <1>1, <1>4, <1>7
<1>10. ListedAtMostOnce!1 /\ ListedAtMostOnce!2 /\ ListedAtMostOnce!3
  BY DEF AccountedOnce, ListedAtMostOnce
<1>11. \A x \in Entry : IsUnacked(x)' <=>
          IsUnacked(x) /\ \A i \in (m + 1)..n : out[i] # x
  OBVIOUS
<1>12. OnlyUnackedListed
  BY DEF AccountedOnce
<1>13. OnlyUnackedListed'
  <2>1. ASSUME NEW q \in Paths, NEW i \in 1..Len(outstanding'[q])
        PROVE  IsUnacked(outstanding[q][i])'
    <3>1. CASE q = p
      <4>1. n + i \in (n + 1)..N /\ outstanding'[q][i] = out[n + i]
        BY <3>1, <1>9
      <4>2. IsUnacked(out[n + i]) /\ out[n + i] \in Entry
        BY <4>1, <1>1, <1>12 DEF OnlyUnackedListed
      <4>3. \A j \in (m + 1)..n : out[j] # out[n + i]
        BY <4>1, <1>1, <1>10
      <4>4. QED
        BY <4>1, <4>2, <4>3, <1>11
    <3>2. CASE q # p
      <4>1. i \in 1..Len(outstanding[q]) /\ outstanding'[q][i] = outstanding[q][i]
        BY <3>2, <1>9
      <4>2. IsUnacked(outstanding[q][i]) /\ outstanding[q][i] \in Entry
        BY <4>1, <1>2, <1>12 DEF OnlyUnackedListed
      <4>3. \A j \in (m + 1)..n : out[j] # outstanding[q][i]
        BY <3>2, <4>1, <1>1, <1>10
      <4>4. QED
        BY <4>1, <4>2, <4>3, <1>11
    <3>3. QED
      BY <3>1, <3>2
  <2>2. ASSUME NEW i \in 1..Len(lossy')
        PROVE  IsUnacked(lossy[i])'
    <3>1. CASE i \in 1..L /\ lossy'[i] = lossy[i]
      <4>1. IsUnacked(lossy[i]) /\ lossy[i] \in Entry
        BY <3>1, <1>1, <1>12 DEF OnlyUnackedListed
      <4>2. ASSUME NEW j \in (m + 1)..n PROVE out[j] # lossy[i]
        <5>1. j \in 1..Len(outstanding[p])
          BY <1>1
        <5>2. QED
          BY <5>1, <3>1, <1>10
      <4>3. QED
        BY <3>1, <4>1, <4>2, <1>11
    <3>2. CASE i - L \in 1..m /\ lossy'[i] = out[i - L]
      <4>1. IsUnacked(out[i - L]) /\ out[i - L] \in Entry
        BY <3>2, <1>1, <1>12 DEF OnlyUnackedListed
      <4>2. ASSUME NEW j \in (m + 1)..n PROVE out[j] # out[i - L]
        <5>1. j \in 1..N /\ i - L \in 1..N /\ j # i - L
          BY <3>2, <1>1
        <5>2. QED
          BY <5>1, <1>10
      <4>3. QED
        BY <3>2, <4>1, <4>2, <1>11
    <3>3. QED
      BY <3>1, <3>2, <1>8
  <2>3. QED
    BY <2>1, <2>2 DEF OnlyUnackedListed
<1>14. ASSUME NEW q \in Paths, NEW i \in 1..Len(outstanding'[q])
       PROVE  /\ (IF q = p THEN n + i ELSE i) \in 1..Len(outstanding[q])
              /\ q = p => n + i \in (n + 1)..N
              /\ outstanding'[q][i] = outstanding[q][IF q = p THEN n + i ELSE i]
  <2>1. CASE q = p
    <3>1. n + i \in (n + 1)..N /\ outstanding'[q][i] = out[n + i]
      BY <2>1, <1>9
    <3>2. QED
      BY <2>1, <3>1, <1>1
  <2>2. CASE q # p
    BY <2>2, <1>9
  <2>3. QED
    BY <2>1, <2>2
<1>15. ListedAtMostOnce'
  <2>1. ASSUME NEW q \in Paths, NEW r \in Paths,
               NEW i \in 1..Len(outstanding'[q]), NEW j \in 1..Len(outstanding'[r]),
               outstanding'[q][i] = outstanding'[r][j]
        PROVE  q = r /\ i = j
    <3> DEFINE i0 == IF q = p THEN n + i ELSE i
               j0 == IF r = p THEN n + j ELSE j
    <3>1. i0 \in 1..Len(outstanding[q]) /\ outstanding'[q][i] = outstanding[q][i0]
      BY <1>1, <1>14
    <3>2. j0 \in 1..Len(outstanding[r]) /\ outstanding'[r][j] = outstanding[r][j0]
      BY <1>1, <1>14
    <3>3. q = r /\ i0 = j0
      <4> HIDE DEF i0, j0
      <4>1. outstanding[q][i0] = outstanding[r][j0]
        BY <3>1, <3>2, <2>1
      <4>2. QED
        BY <3>1, <3>2, <4>1, <1>10
    <3>4. QED
      BY <3>3, <1>1
  <2>2. ASSUME NEW i \in 1..Len(lossy'), NEW j \in 1..Len(lossy'), lossy'[i] = lossy'[j]
        PROVE  i = j
    <3>1. CASE i \in 1..L /\ lossy'[i] = lossy[i] /\ j \in 1..L /\ lossy'[j] = lossy[j]
      BY <3>1, <2>2, <1>10
    <3>2. CASE /\ i - L \in 1..m /\ lossy'[i] = out[i - L]
               /\ j - L \in 1..m /\ lossy'[j] = out[j - L]
      <4>1. i - L \in 1..N /\ j - L \in 1..N /\ out[i - L] = out[j - L]
        BY <3>2, <2>2, <1>1
      <4>2. i - L = j - L
        BY <4>1, <1>10
      <4>3. i \in Int /\ j \in Int
        OBVIOUS
      <4>4. QED
        BY <4>2, <4>3, <1>1
    <3>3. CASE i \in 1..L /\ lossy'[i] = lossy[i] /\ j - L \in 1..m /\ lossy'[j] = out[j - L]
      <4>1. j - L \in 1..N /\ out[j - L] = lossy[i]
        BY <3>3, <2>2, <1>1
      <4>2. QED
        BY <4>1, <3>3, <1>10
    <3>4. CASE j \in 1..L /\ lossy'[j] = lossy[j] /\ i - L \in 1..m /\ lossy'[i] = out[i - L]
      <4>1. i - L \in 1..N /\ out[i - L] = lossy[j]
        BY <3>4, <2>2, <1>1
      <4>2. QED
        BY <4>1, <3>4, <1>10
    <3>5. QED
      BY <3>1, <3>2, <3>3, <3>4, <1>8
  <2>3. ASSUME NEW q \in Paths, NEW i \in 1..Len(outstanding'[q]), NEW j \in 1..Len(lossy')
        PROVE  outstanding'[q][i] # lossy'[j]
    <3> DEFINE i0 == IF q = p THEN n + i ELSE i
    <3>1. /\ i0 \in 1..Len(outstanding[q])
          /\ q = p => i0 \in (n + 1)..N
          /\ outstanding'[q][i] = outstanding[q][i0]
      BY <1>14
    <3> HIDE DEF i0
    <3>2. CASE j \in 1..L /\ lossy'[j] = lossy[j]
      BY <3>1, <3>2, <1>10
    <3>3. CASE j - L \in 1..m /\ lossy'[j] = out[j - L]
      <4> DEFINE k == j - L
      <4>0. k \in 1..m /\ k \in 1..Len(outstanding[p])
        BY <3>3, <1>1
      <4> HIDE DEF k
      <4>1. q = p => i0 # k
        BY <4>0, <3>1, <1>1
      <4>2. outstanding[q][i0] # outstanding[p][k]
        BY <4>0, <4>1, <3>1, <1>10
      <4>3. QED
        BY <4>2, <3>1, <3>3 DEF k
    <3>4. QED
      BY <3>2, <3>3, <1>8
  <2>4. QED
    BY <2>1, <2>2, <2>3 DEF ListedAtMostOnce
<1>16. UnackedListed'
  <2>1. ASSUME NEW g \in Flows, NEW s \in Unacked(g)'
        PROVE  \/ \E q \in Paths : \E i \in 1..Len(outstanding'[q]) :
                     outstanding'[q][i] = [flow |-> g, seq |-> s]
               \/ \E i \in 1..Len(lossy') : lossy'[i] = [flow |-> g, seq |-> s]
    <3> DEFINE x == [flow |-> g, seq |-> s]
    <3>1. s \in Nat
      OBVIOUS
    <3>2. QED
      <4>1. x \in Entry /\ IsUnacked(x)'
        BY <3>1 DEF Entry, IsUnacked
      <4>2. s \in Unacked(g) /\ \A i \in (m + 1)..n : out[i] # x
        BY <4>1, <1>11 DEF IsUnacked
      <4>3. \/ \E q \in Paths : \E i \in 1..Len(outstanding[q]) : outstanding[q][i] = x
            \/ \E i \in 1..L : lossy[i] = x
        BY <4>2 DEF AccountedOnce, UnackedListed
      <4> HIDE DEF x
      <4>4. CASE \E i \in 1..L : lossy[i] = x
        <5>1. \E i \in 1..Len(lossy') : lossy'[i] = x
          BY <4>4, <1>8
        <5>2. QED
          BY <5>1 DEF x
      <4>5. CASE \E i \in 1..N : out[i] = x
        <5>1. PICK i \in 1..N : out[i] = x
          BY <4>5
        <5>2. i \in 1..m \/ i \in (n + 1)..N
          BY <5>1, <4>2, <1>1
        <5>3. \/ \E j \in 1..Len(lossy') : lossy'[j] = x
              \/ \E j \in 1..Len(outstanding'[p]) : outstanding'[p][j] = x
          BY <5>1, <5>2, <1>8, <1>9
        <5>4. QED
          BY <5>3 DEF x
      <4>6. CASE \E q \in Paths \ {p} : \E i \in 1..Len(outstanding[q]) : outstanding[q][i] = x
        <5>1. \E q \in Paths : \E i \in 1..Len(outstanding'[q]) : outstanding'[q][i] = x
          BY <4>6, <1>9
        <5>2. QED
          BY <5>1 DEF x
      <4>7. QED
        BY <4>3, <4>4, <4>5, <4>6
  <2>2. QED
    BY <2>1 DEF UnackedListed
<1>17. QED
  BY <1>6, <1>7, <1>13, <1>15, <1>16 DEF AccountedOnce

LEMMA ResendKeeps ==
    ASSUME IInv, NEW f \in Flows, NEW p \in Paths, Resend(f, p)
    PROVE  IInv'
<1> DEFINE k == NextLossy(f)
           e == lossy[k]
           n == Len(outstanding[p])
           L == Len(lossy)
<1>1. /\ TypeOK /\ Ranges /\ AccountedOnce /\ lossy \in Seq(Entry)
      /\ Transmit(f, p, e.seq) /\ lossy' = Without(lossy, k)
      /\ UNCHANGED <<qp, una, maxNext, sacked, acks, rx, rcvd, losses, early>>
      /\ LossyAt(f) # {}
  BY DEF IInv, TypeOK, Resend, Transmit, receiverVars
<1>2. k \in 1..L /\ e.flow = f
  BY <1>1, NextLossyExists
<1> HIDE DEF k
<1>3. /\ L \in Nat /\ \A i \in 1..L : lossy[i] \in Entry
      /\ \A q \in Paths : \A i \in 1..Len(outstanding[q]) : outstanding[q][i] \in Entry
  BY <1>1, LenProperties, ElementOfSeq DEF TypeOK
<1>4. e \in Entry /\ e = [flow |-> f, seq |-> e.seq] /\ e.seq \in Nat
  BY <1>2, <1>3 DEF Entry
<1>5. /\ lossy' \in Seq(Entry) /\ Len(lossy') = L - 1
      /\ \A i \in 1..(L - 1) : lossy'[i] = IF i < k THEN lossy[i] ELSE lossy[i + 1]
  BY <1>1, <1>2, WithoutProperties
<1> HIDE DEF e
<1>6. /\ outstanding' \in [Paths -> Seq(Entry)]
      /\ data' \in [Paths -> Seq(Entry)]
      /\ rto' \in [Paths -> BOOLEAN]
  BY <1>1, <1>4, TransmitLists
<1>7. /\ n + 1 \in 1..Len(outstanding'[p]) /\ outstanding'[p][n + 1] = e
      /\ \A q \in Paths : \A i \in 1..Len(outstanding[q]) :
            i \in 1..Len(outstanding'[q]) /\ outstanding'[q][i] = outstanding[q][i]
      /\ \A q \in Paths : \A i \in 1..Len(outstanding'[q]) :
            \/ q = p /\ i = n + 1 /\ outstanding'[q][i] = e
            \/ i \in 1..Len(outstanding[q]) /\ outstanding'[q][i] = outstanding[q][i]
  <2>1. TypeOK /\ e.seq \in Nat /\ Transmit(f, p, e.seq)
    BY <1>1, <1>4
  <2>2. QED
    BY <2>1, <1>4, TransmitLists
<1>8. TypeOK' /\ Ranges'
  <2>1. TypeOK'
    BY <1>1, <1>5, <1>6 DEF TypeOK
  <2>2. Ranges'
    BY <1>1 DEF Ranges
  <2>3. QED
    BY <2>1, <2>2
<1>9. \A x \in Entry : IsUnacked(x)' <=> IsUnacked(x)
  BY <1>1 DEF IsUnacked, Unacked
<1>10. ListedAtMostOnce!1 /\ ListedAtMostOnce!2 /\ ListedAtMostOnce!3
  BY <1>1 DEF AccountedOnce, ListedAtMostOnce
<1>11. /\ \A q \in Paths : \A i \in 1..Len(outstanding[q]) : IsUnacked(outstanding[q][i])
       /\ \A i \in 1..L : IsUnacked(lossy[i])
  BY <1>1 DEF AccountedOnce, OnlyUnackedListed
<1>12. ASSUME NEW i \in 1..Len(lossy')
       PROVE  /\ (IF i < k THEN i ELSE i + 1) \in 1..L
              /\ (IF i < k THEN i ELSE i + 1) # k
              /\ lossy'[i] = lossy[IF i < k THEN i ELSE i + 1]
  BY <1>2, <1>3, <1>5
<1>13. ASSUME NEW j \in 1..L, j # k
       PROVE  \E i \in 1..Len(lossy') : lossy'[i] = lossy[j]
  <2>1. CASE j < k
    <3>1. j \in 1..(L - 1) /\ lossy'[j] = lossy[j]
      BY <2>1, <1>2, <1>3, <1>5
    <3>2. QED
      BY <3>1, <1>5
  <2>2. CASE j > k
    <3>1. j - 1 \in 1..(L - 1) /\ ~(j - 1 < k) /\ (j - 1) + 1 = j
      BY <2>2, <1>2, <1>3
    <3>2. lossy'[j - 1] = lossy[j]
      BY <3>1, <1>5
    <3>3. QED
      BY <3>1, <3>2, <1>5
  <2>3. QED
    BY <2>1, <2>2, <1>13, <1>2, <1>3
<1>14. OnlyUnackedListed'
  <2>1. ASSUME NEW q \in Paths, NEW i \in 1..Len(outstanding'[q])
        PROVE  IsUnacked(outstanding[q][i])'
    BY <1>2, <1>3, <1>4, <1>7, <1>9, <1>11 DEF e
  <2>2. ASSUME NEW i \in 1..Len(lossy')
        PROVE  IsUnacked(lossy[i])'
    BY <1>3, <1>9, <1>11, <1>12
  <2>3. QED
    BY <2>1, <2>2 DEF OnlyUnackedListed
<1>15. ListedAtMostOnce'
  <2>0. \A q \in Paths : \A i \in 1..Len(outstanding[q]) : outstanding[q][i] # e
    BY <1>2, <1>10 DEF e
  <2>1. ASSUME NEW q \in Paths, NEW r \in Paths,
               NEW i \in 1..Len(outstanding'[q]), NEW j \in 1..Len(outstanding'[r]),
               outstanding'[q][i] = outstanding'[r][j]
        PROVE  q = r /\ i = j
    <3>1. CASE outstanding'[q][i] = e
      BY <3>1, <2>0, <2>1, <1>7
    <3>2. CASE outstanding'[q][i] # e
      <4>1. /\ i \in 1..Len(outstanding[q]) /\ outstanding'[q][i] = outstanding[q][i]
            /\ j \in 1..Len(outstanding[r]) /\ outstanding'[r][j] = outstanding[r][j]
        BY <3>2, <2>1, <1>7
      <4>2. outstanding[q][i] = outstanding[r][j]
        BY <4>1, <2>1
      <4>3. QED
        BY <4>1, <4>2, <1>10
    <3>3. QED
      BY <3>1, <3>2
  <2>2. ASSUME NEW i \in 1..Len(lossy'), NEW j \in 1..Len(lossy'), lossy'[i] = lossy'[j]
        PROVE  i = j
    <3> DEFINE i0 == IF i < k THEN i ELSE i + 1
               j0 == IF j < k THEN j ELSE j + 1
    <3>1. /\ i0 \in 1..L /\ lossy'[i] = lossy[i0]
          /\ j0 \in 1..L /\ lossy'[j] = lossy[j0]
      BY <1>12
    <3>2. i0 = j0
      <4> HIDE DEF i0, j0
      <4>1. QED
        BY <3>1, <2>2, <1>10
    <3>3. QED
      BY <3>2, <1>2
  <2>3. ASSUME NEW q \in Paths, NEW i \in 1..Len(outstanding'[q]), NEW j \in 1..Len(lossy')
        PROVE  outstanding'[q][i] # lossy'[j]
    <3> DEFINE j0 == IF j < k THEN j ELSE j + 1
    <3>1. j0 \in 1..L /\ j0 # k /\ lossy'[j] = lossy[j0]
      BY <1>12
    <3> HIDE DEF j0
    <3>2. CASE outstanding'[q][i] = e
      <4>1. lossy[j0] # lossy[k]
        BY <3>1, <1>2, <1>10
      <4>2. QED
        BY <4>1, <3>1, <3>2 DEF e
    <3>3. CASE outstanding'[q][i] # e
      <4>1. i \in 1..Len(outstanding[q]) /\ outstanding'[q][i] = outstanding[q][i]
        BY <3>3, <1>7
      <4>2. outstanding[q][i] # lossy[j0]
        BY <4>1, <3>1, <1>10
      <4>3. QED
        BY <4>1, <4>2, <3>1
    <3>4. QED
      BY <3>2, <3>3
  <2>4. QED
    BY <2>1, <2>2, <2>3 DEF ListedAtMostOnce
<1>16. UnackedListed'
  <2>1. ASSUME NEW g \in Flows, NEW s \in Unacked(g)'
        PROVE  \/ \E q \in Paths : \E i \in 1..Len(outstanding'[q]) :
                     outstanding'[q][i] = [flow |-> g, seq |-> s]
               \/ \E i \in 1..Len(lossy') : lossy'[i] = [flow |-> g, seq |-> s]
    <3> DEFINE x == [flow |-> g, seq |-> s]
    <3>1. s \in Unacked(g)
      BY <1>1 DEF Unacked
    <3>2. \/ \E q \in Paths : \E i \in 1..Len(outstanding[q]) : outstanding[q][i] = x
          \/ \E i \in 1..L : lossy[i] = x
      BY <3>1, <1>1 DEF AccountedOnce, UnackedListed
    <3> HIDE DEF x
    <3>3. \/ \E q \in Paths : \E i \in 1..Len(outstanding'[q]) : outstanding'[q][i] = x
          \/ \E i \in 1..Len(lossy') : lossy'[i] = x
      <4>1. CASE \E q \in Paths : \E i \in 1..Len(outstanding[q]) : outstanding[q][i] = x
        BY <4>1, <1>7
      <4>2. CASE \E i \in 1..L : lossy[i] = x
        <5>1. PICK j \in 1..L : lossy[j] = x
          BY <4>2
        <5>2. CASE j = k
          BY <5>1, <5>2, <1>7 DEF e
        <5>3. CASE j # k
          BY <5>1, <5>3, <1>13
        <5>4. QED
          BY <5>2, <5>3
      <4>3. QED
        BY <4>1, <4>2, <3>2
    <3>4. QED
      BY <3>3 DEF x
  <2>2. QED
    BY <2>1 DEF UnackedListed
<1>17. QED
  BY <1>8, <1>14, <1>15, <1>16 DEF IInv, AccountedOnce

(* An ACK: the packets listed before the acknowledged one are declared lost,   *)
(* the acknowledged one leaves the list.                                       *)
LEMMA ReceiveAckKeeps ==
    ASSUME IInv, NEW p \in Paths, ReceiveAck(p)
    PROVE  IInv'
<1> USE SizeAssumption
<1>1. TypeOK /\ Ranges /\ AccountedOnce
  BY DEF IInv
<1>0. PICK e \in Entry : e = Head(acks[p]) /\ acks[p] # <<>>
  <2>1. acks[p] # <<>> /\ acks[p] \in Seq(Entry)
    BY <1>1 DEF ReceiveAck, TypeOK
  <2>2. QED
    BY <2>1, HeadTailProperties
<1>5. PICK f \in Flows : f = e.flow /\ e.seq \in Nat /\ e = [flow |-> f, seq |-> e.seq]
  BY <1>0 DEF Entry
<1> DEFINE q == outstanding[p]
           S == sacked[f] \cup {e.seq}
           u == Advance(f, S)
<1>2. PICK k \in DOMAIN q :
         /\ acks[p] # <<>> /\ qp[f] = "live" /\ q[k] = e
         /\ acks' = [acks EXCEPT ![p] = Tail(acks[p])]
         /\ lossy' = lossy \o SubSeq(q, 1, k - 1)
         /\ outstanding' = [outstanding EXCEPT ![p] = SubSeq(q, k + 1, Len(q))]
         /\ rto' = [rto EXCEPT ![p] = k < Len(q)]
         /\ una' = [una EXCEPT ![f] = u]
         /\ sacked' = [sacked EXCEPT ![f] = {s \in sacked[f] \cup {e.seq} : s >= u}]
         /\ qp' = IF u >= Size[f] THEN [qp EXCEPT ![f] = "done"] ELSE qp
         /\ rx' = IF u >= Size[f] THEN [rx EXCEPT ![f] = "finished"] ELSE rx
         /\ UNCHANGED <<maxNext, data, losses, early, rcvd>>
  <2>1. f = Head(acks[p]).flow /\ e = Head(acks[p])
    BY <1>0, <1>5
  <2>2. u = Advance(Head(acks[p]).flow, sacked[Head(acks[p]).flow] \cup {Head(acks[p]).seq})
    BY <2>1
  <2> HIDE DEF u
  <2>3. QED
    BY <2>1, <2>2 DEF ReceiveAck
<1>3. q \in Seq(Entry) /\ k \in 1..Len(q) /\ Len(q) \in Nat /\ acks[p] \in Seq(Entry)
  BY <1>1, LenProperties DEF TypeOK
<1>6. e.seq \in una[f]..(maxNext[f] - 1) /\ e.seq \notin sacked[f]
  BY <1>1, <1>2, <1>3, <1>5 DEF AccountedOnce, OnlyUnackedListed, IsUnacked, Unacked
<1>7. /\ una[f] \in Nat /\ maxNext[f] \in Nat /\ Size[f] \in Nat
      /\ una[f] <= maxNext[f] /\ maxNext[f] <= Size[f]
      /\ sacked[f] \subseteq (una[f] + 1)..(maxNext[f] - 1) /\ sacked[f] \in SUBSET Nat
  BY <1>1, <1>5 DEF TypeOK, Ranges
<1>8. S \in SUBSET Nat /\ S \subseteq una[f]..(maxNext[f] - 1) /\ Size[f] \notin S
  BY <1>5, <1>6, <1>7
<1> HIDE DEF S, u
<1>9. u \in una[f]..Size[f] /\ u \notin S /\ una[f]..(u - 1) \subseteq S
  BY <1>5, <1>7, <1>8, AdvanceStops DEF u
<1>10. u <= maxNext[f] /\ u \in Nat
  BY <1>7, <1>8, <1>9
<1>11. /\ una' \in [Flows -> Nat] /\ una'[f] = u
       /\ \A g \in Flows : g # f => una'[g] = una[g]
       /\ sacked' \in [Flows -> SUBSET Nat] /\ sacked'[f] = {s \in S : s >= u}
       /\ \A g \in Flows : g # f => sacked'[g] = sacked[g]
       /\ maxNext' = maxNext
  BY <1>1, <1>2, <1>5, <1>8, <1>10 DEF TypeOK, S
<1>12. Unacked(f)' = Unacked(f) \ {e.seq}
  BY <1>7, <1>8, <1>9, <1>10, <1>11 DEF Unacked, S
<1>13. \A g \in Flows : g # f => Unacked(g)' = Unacked(g)
  BY <1>11 DEF Unacked
<1>14. \A g \in Flows : Unacked(g)' \subseteq Nat
  BY <1>1, <1>11 DEF Unacked, TypeOK
<1>15. \A x \in Entry : IsUnacked(x)' <=> IsUnacked(x) /\ x # e
  <2> SUFFICES ASSUME NEW x \in Entry PROVE IsUnacked(x)' <=> IsUnacked(x) /\ x # e
    OBVIOUS
  <2>1. x.flow \in Flows /\ x = [flow |-> x.flow, seq |-> x.seq]
    BY DEF Entry
  <2>2. x = e <=> x.flow = f /\ x.seq = e.seq
    BY <1>5, <2>1
  <2>3. QED
    BY <1>12, <1>13, <2>1, <2>2 DEF IsUnacked
<1>16. /\ lossy' \in Seq(Entry)
       /\ outstanding' \in [Paths -> Seq(Entry)]
       /\ AccountedOnce'
  <2>1. \A x \in Entry : IsUnacked(x)' <=>
           IsUnacked(x) /\ \A i \in ((k - 1) + 1)..k : outstanding[p][i] # x
    <3>1. ((k - 1) + 1)..k = {k}
      BY <1>3
    <3>2. outstanding[p][k] = e
      BY <1>2
    <3>3. QED
      BY <1>15, <3>1, <3>2
  <2>2. k \in 0..Len(outstanding[p]) /\ k - 1 \in 0..k
    BY <1>3
  <2>3. lossy' = lossy \o SubSeq(outstanding[p], 1, k - 1)
    BY <1>2
  <2>4. outstanding' = [outstanding EXCEPT ![p] =
                          SubSeq(outstanding[p], k + 1, Len(outstanding[p]))]
    BY <1>2
  <2>5. QED
    BY <2>1, <2>2, <2>3, <2>4, <1>1, <1>14, DrainKeeps
<1>17. TypeOK'
  <2>1. qp' \in [Flows -> {"new", "live", "done"}]
    BY <1>1, <1>2 DEF TypeOK
  <2>2. rx' \in [Flows -> {"none", "active", "finished"}]
    BY <1>1, <1>2 DEF TypeOK
  <2>3. acks' \in [Paths -> Seq(Entry)]
    <3>1. Tail(acks[p]) \in Seq(Entry)
      BY <1>2, <1>3, HeadTailProperties
    <3>2. QED
      BY <1>1, <1>2, <3>1 DEF TypeOK
  <2>4. rto' \in [Paths -> BOOLEAN]
    BY <1>1, <1>2 DEF TypeOK
  <2>5. QED
    BY <2>1, <2>2, <2>3, <2>4, <1>1, <1>2, <1>11, <1>16 DEF TypeOK
<1>18. Ranges'
  <2>1. ASSUME NEW g \in Flows
        PROVE  /\ una'[g] <= maxNext'[g] /\ maxNext'[g] <= Size[g]
               /\ sacked'[g] \subseteq (una'[g] + 1)..(maxNext'[g] - 1)
    <3>1. CASE g = f
      BY <3>1, <1>7, <1>8, <1>9, <1>10, <1>11
    <3>2. CASE g # f
      BY <3>2, <1>1, <1>11 DEF Ranges
    <3>3. QED
      BY <3>1, <3>2
  <2>2. QED
    BY <2>1 DEF Ranges
<1>19. QED
  BY <1>16, <1>17, <1>18 DEF IInv

(* A timer that expires moves the whole list of its path to the lossy list.   *)
LEMMA ExpireKeeps ==
    ASSUME IInv, NEW p \in Paths, Expire(p), early' \in 0..MaxEarly
    PROVE  IInv'
<1> DEFINE q == outstanding[p]
           n == Len(q)
<1>1. /\ TypeOK /\ Ranges /\ AccountedOnce
      /\ lossy' = lossy \o q
      /\ outstanding' = [outstanding EXCEPT ![p] = <<>>]
      /\ rto' = [rto EXCEPT ![p] = FALSE]
      /\ UNCHANGED <<qp, una, maxNext, sacked, data, acks, losses, rx, rcvd>>
  BY DEF IInv, Expire, TypeOK, receiverVars
<1>2. q \in Seq(Entry) /\ n \in Nat
  BY <1>1, LenProperties DEF TypeOK
<1>3. SubSeq(q, 1, n) = q
  BY <1>2, SubSeqFull
<1>4. SubSeq(q, n + 1, n) = <<>>
  BY <1>2, SubSeqEmpty
<1>5. \A x \in Entry : IsUnacked(x)' <=> IsUnacked(x)
  BY <1>1 DEF IsUnacked, Unacked
<1>6. \A g \in Flows : Unacked(g)' \subseteq Nat
  BY <1>1 DEF Unacked, TypeOK
<1>7. lossy' \in Seq(Entry) /\ outstanding' \in [Paths -> Seq(Entry)] /\ AccountedOnce'
  <2>1. \A x \in Entry : IsUnacked(x)' <=>
           IsUnacked(x) /\ \A i \in (n + 1)..n : outstanding[p][i] # x
    BY <1>2, <1>5
  <2>2. n \in 0..Len(outstanding[p]) /\ n \in 0..n
    BY <1>2
  <2>3. lossy' = lossy \o SubSeq(outstanding[p], 1, n)
    BY <1>1, <1>3
  <2>4. outstanding' = [outstanding EXCEPT ![p] =
                          SubSeq(outstanding[p], n + 1, Len(outstanding[p]))]
    BY <1>1, <1>4
  <2> HIDE DEF n
  <2>5. QED
    BY <2>1, <2>2, <2>3, <2>4, <1>1, <1>6, DrainKeeps
<1>8. TypeOK' /\ Ranges'
  <2>1. TypeOK'
    BY <1>1, <1>7 DEF TypeOK
  <2>2. Ranges'
    BY <1>1 DEF Ranges
  <2>3. QED
    BY <2>1, <2>2
<1>9. QED
  BY <1>7, <1>8 DEF IInv

(* The network and the receiver touch none of the sender's variables.         *)
LEMMA SenderUntouched ==
    ASSUME IInv, TypeOK', UNCHANGED <<una, maxNext, sacked, lossy, outstanding>>
    PROVE  IInv'
<1>1. Ranges'
  BY DEF IInv, Ranges
<1>2. \A x : IsUnacked(x)' <=> IsUnacked(x)
  BY DEF IsUnacked, Unacked
<1>3. AccountedOnce'
  BY DEF IInv, AccountedOnce, OnlyUnackedListed, ListedAtMostOnce,
         UnackedListed, IsUnacked, Unacked
<1>4. QED
  BY <1>1, <1>3 DEF IInv

(* Taking the head off the channel c[p].                                      *)
LEMMA TakeHead ==
    ASSUME NEW c \in [Paths -> Seq(Entry)], NEW p \in Paths, c[p] # <<>>
    PROVE  /\ Head(c[p]) \in Entry
           /\ [c EXCEPT ![p] = Tail(c[p])] \in [Paths -> Seq(Entry)]
<1>1. c[p] \in Seq(Entry)
  OBVIOUS
<1>2. Head(c[p]) \in Entry /\ Tail(c[p]) \in Seq(Entry)
  BY <1>1, HeadTailProperties
<1>3. QED
  BY <1>2

LEMMA NextKeeps == IInv /\ [Next]_vars => IInv'
<1> SUFFICES ASSUME IInv, [Next]_vars PROVE IInv'
  OBVIOUS
<1> USE BoundAssumption
<1>0. TypeOK
  BY DEF IInv
<1>1. ASSUME NEW f \in Flows, StartFlow(f) PROVE IInv'
  <2>1. TypeOK'
    BY <1>0, <1>1 DEF TypeOK, StartFlow, networkVars, receiverVars
  <2>2. QED
    BY <2>1, <1>1, SenderUntouched DEF StartFlow
<1>2. ASSUME NEW f \in Flows, NEW p \in PathsOf[f], SendNew(f, p) PROVE IInv'
  <2>1. p \in Paths
    BY PathsAssumption
  <2>2. QED
    BY <2>1, <1>2, SendNewKeeps
<1>3. ASSUME NEW f \in Flows, NEW p \in PathsOf[f], Resend(f, p) PROVE IInv'
  <2>1. p \in Paths
    BY PathsAssumption
  <2>2. QED
    BY <2>1, <1>3, ResendKeeps
<1>4. ASSUME NEW p \in Paths, LoseData(p) PROVE IInv'
  <2>1. data' \in [Paths -> Seq(Entry)]
    BY <1>0, <1>4, TakeHead DEF TypeOK, LoseData
  <2>2. losses' \in 0..MaxLoss
    BY <1>0, <1>4 DEF TypeOK, LoseData
  <2>3. TypeOK'
    BY <2>1, <2>2, <1>0, <1>4 DEF TypeOK, LoseData, senderVars, receiverVars
  <2>4. QED
    BY <2>3, <1>4, SenderUntouched DEF LoseData, senderVars
<1>5. ASSUME NEW p \in Paths, LoseAck(p) PROVE IInv'
  <2>1. acks' \in [Paths -> Seq(Entry)]
    BY <1>0, <1>5, TakeHead DEF TypeOK, LoseAck
  <2>2. losses' \in 0..MaxLoss
    BY <1>0, <1>5 DEF TypeOK, LoseAck
  <2>3. TypeOK'
    BY <2>1, <2>2, <1>0, <1>5 DEF TypeOK, LoseAck, senderVars, receiverVars
  <2>4. QED
    BY <2>3, <1>5, SenderUntouched DEF LoseAck, senderVars
<1>6. ASSUME NEW p \in Paths, ReceiveUdp(p) PROVE IInv'
  <2> DEFINE e == Head(data[p])
  <2>1. e \in Entry /\ data' \in [Paths -> Seq(Entry)]
    BY <1>0, <1>6, TakeHead DEF TypeOK, ReceiveUdp
  <2>2. acks' \in [Paths -> Seq(Entry)]
    <3>1. Append(acks[p], e) \in Seq(Entry)
      BY <2>1, <1>0, AppendProperties DEF TypeOK
    <3>2. acks' = [acks EXCEPT ![p] = Append(acks[p], e)]
      BY <1>6 DEF ReceiveUdp
    <3>3. QED
      BY <3>1, <3>2, <1>0 DEF TypeOK
  <2>3. /\ rx' \in [Flows -> {"none", "active", "finished"}]
        /\ rcvd' \in [Flows -> SUBSET Nat]
    <3>1. e.flow \in Flows /\ e.seq \in Nat
      BY <2>1 DEF Entry
    <3>2. /\ rx' = [rx EXCEPT ![e.flow] = "active"]
          /\ rcvd' = [rcvd EXCEPT ![e.flow] = rcvd[e.flow] \cup {e.seq}]
      BY <1>6 DEF ReceiveUdp
    <3> HIDE DEF e
    <3>3. QED
      BY <3>1, <3>2, <1>0 DEF TypeOK
  <2>4. TypeOK'
    BY <2>1, <2>2, <2>3, <1>0, <1>6 DEF TypeOK, ReceiveUdp, senderVars
  <2>5. QED
    BY <2>4, <1>6, SenderUntouched DEF ReceiveUdp, senderVars
<1>7. ASSUME NEW p \in Paths, ReceiveUdpFinished(p) PROVE IInv'
  <2>1. data' \in [Paths -> Seq(Entry)]
    BY <1>0, <1>7, TakeHead DEF TypeOK, ReceiveUdpFinished
  <2>2. TypeOK'
    BY <2>1, <1>0, <1>7 DEF TypeOK, ReceiveUdpFinished, senderVars, receiverVars
  <2>3. QED
    BY <2>2, <1>7, SenderUntouched DEF ReceiveUdpFinished, senderVars
<1>8. ASSUME NEW p \in Paths, ReceiveAckFinished(p) PROVE IInv'
  <2>1. acks' \in [Paths -> Seq(Entry)]
    BY <1>0, <1>8, TakeHead DEF TypeOK, ReceiveAckFinished
  <2>2. TypeOK'
    BY <2>1, <1>0, <1>8 DEF TypeOK, ReceiveAckFinished, senderVars, receiverVars
  <2>3. QED
    BY <2>2, <1>8, SenderUntouched DEF ReceiveAckFinished, senderVars
<1>9. ASSUME NEW p \in Paths, ReceiveAck(p) PROVE IInv'
  BY <1>9, ReceiveAckKeeps
<1>10. ASSUME NEW p \in Paths, Timeout(p) PROVE IInv'
  BY <1>0, <1>10, ExpireKeeps DEF Timeout, TypeOK
<1>11. ASSUME NEW p \in Paths, EarlyTimeout(p) PROVE IInv'
  <2>1. early' \in 0..MaxEarly
    BY <1>0, <1>11 DEF EarlyTimeout, TypeOK
  <2>2. QED
    BY <2>1, <1>11, ExpireKeeps DEF EarlyTimeout
<1>12. CASE UNCHANGED vars
  <2>1. TypeOK'
    BY <1>0, <1>12 DEF TypeOK, vars, senderVars, networkVars, receiverVars
  <2>2. QED
    BY <2>1, <1>12, SenderUntouched DEF vars, senderVars
<1>13. QED
  BY <1>1, <1>2, <1>3, <1>4, <1>5, <1>6, <1>7, <1>8, <1>9, <1>10, <1>11, <1>12 DEF Next

-----------------------------------------------------------------------------
(* Every variable has its type in every reachable state.                      *)
THEOREM TypeCorrect == Spec => []TypeOK
<1>1. IInv => TypeOK
  BY DEF IInv
<1>2. QED
  BY <1>1, InitIInv, NextKeeps, PTL DEF Spec

(* Every packet that is sent and not acknowledged is listed exactly once, as  *)
(* outstanding on one path or as lossy, and nothing else is listed: under any *)
(* losses, any interleaving and any number of early timeouts.                 *)
THEOREM Accounted == Spec => []AccountedOnce
<1>1. IInv => AccountedOnce
  BY DEF IInv
<1>2. QED
  BY <1>1, InitIInv, NextKeeps, PTL DEF Spec

(* snd_una, m_max_next_seq and the SACK blocks stay in order, which is what   *)
(* GetBytesLeftForLaps and AcknowledgeForLaps assert of them.                 *)
THEOREM Ordered == Spec => []Ranges
<1>1. IInv => Ranges
  BY DEF IInv
<1>2. QED
  BY <1>1, InitIInv, NextKeeps, PTL DEF Spec

(* The timer of a path runs exactly while the path has outstanding data.      *)
THEOREM TimerCorrect == Spec => []TimerArmed
<1>1. Init => TimerArmed
  BY DEF Init, TimerArmed
<1>2. IInv /\ TimerArmed /\ [Next]_vars => TimerArmed'
  <2> SUFFICES ASSUME IInv, TimerArmed, [Next]_vars PROVE TimerArmed'
    OBVIOUS
  <2>0. TypeOK
    BY DEF IInv
  <2>1. ASSUME NEW f \in Flows, NEW p \in Paths, NEW s \in Nat, Transmit(f, p, s)
        PROVE  TimerArmed'
    <3> DEFINE e == [flow |-> f, seq |-> s]
    <3>1. outstanding[p] \in Seq(Entry) /\ e \in Entry
      BY <2>0 DEF TypeOK, Entry
    <3> HIDE DEF e
    <3>2. Append(outstanding[p], e) # <<>>
      BY <3>1, AppendProperties
    <3>3. outstanding' = [outstanding EXCEPT ![p] = Append(outstanding[p], e)]
      BY <2>1 DEF Transmit, e
    <3>4. rto' = [rto EXCEPT ![p] = TRUE]
      BY <2>1 DEF Transmit
    <3>5. QED
      BY <3>2, <3>3, <3>4, <2>0 DEF TimerArmed, TypeOK
  <2>2. ASSUME NEW f \in Flows, NEW p \in PathsOf[f], SendNew(f, p) PROVE TimerArmed'
    BY <2>0, <2>1, <2>2, PathsAssumption DEF SendNew, TypeOK
  <2>3. ASSUME NEW f \in Flows, NEW p \in PathsOf[f], Resend(f, p) PROVE TimerArmed'
    <3>1. NextLossy(f) \in 1..Len(lossy)
      BY <2>0, <2>3, NextLossyExists DEF Resend, TypeOK
    <3>2. lossy[NextLossy(f)].seq \in Nat
      <4>1. lossy[NextLossy(f)] \in Entry
        BY <3>1, <2>0, ElementOfSeq DEF TypeOK
      <4>2. QED
        BY <4>1 DEF Entry
    <3>3. QED
      BY <3>2, <2>1, <2>3, PathsAssumption DEF Resend
  <2>4. ASSUME NEW p \in Paths, ReceiveAck(p) PROVE TimerArmed'
    <3>1. PICK k \in DOMAIN outstanding[p] :
            /\ outstanding' = [outstanding EXCEPT ![p] =
                                 SubSeq(outstanding[p], k + 1, Len(outstanding[p]))]
            /\ rto' = [rto EXCEPT ![p] = k < Len(outstanding[p])]
      BY <2>4 DEF ReceiveAck
    <3>2. outstanding[p] \in Seq(Entry)
      BY <2>0 DEF TypeOK
    <3>3. /\ k \in 1..Len(outstanding[p]) /\ Len(outstanding[p]) \in Nat
          /\ \A i \in 1..Len(outstanding[p]) : outstanding[p][i] \in Entry
      BY <3>1, <3>2, LenProperties, ElementOfSeq
    <3>4. SubSeq(outstanding[p], k + 1, Len(outstanding[p])) # <<>> <=> k < Len(outstanding[p])
      <4> DEFINE b == SubSeq(outstanding[p], k + 1, Len(outstanding[p]))
      <4>1. \A i \in (k + 1)..Len(outstanding[p]) : outstanding[p][i] \in Entry
        BY <3>3
      <4>2. /\ b \in Seq(Entry)
            /\ Len(b) = IF k + 1 <= Len(outstanding[p])
                        THEN Len(outstanding[p]) - (k + 1) + 1 ELSE 0
        BY <4>1, <3>3, SubSeqProperties
      <4> HIDE DEF b
      <4>3. b = <<>> <=> Len(b) = 0
        BY <4>2, EmptySeq
      <4>4. Len(b) = 0 <=> ~(k < Len(outstanding[p]))
        BY <4>2, <3>3
      <4>5. QED
        BY <4>3, <4>4 DEF b
    <3>5. QED
      BY <3>1, <3>4, <2>0 DEF TimerArmed, TypeOK
  <2>5. ASSUME NEW p \in Paths, Expire(p) PROVE TimerArmed'
    BY <2>0, <2>5 DEF TimerArmed, Expire, TypeOK
  <2>6. ASSUME UNCHANGED <<outstanding, rto>> PROVE TimerArmed'
    BY <2>6 DEF TimerArmed
  <2>7. ASSUME NEW f \in Flows, StartFlow(f) PROVE TimerArmed'
    BY <2>6, <2>7 DEF StartFlow
  <2>8. ASSUME NEW p \in Paths,
               \/ LoseData(p) \/ LoseAck(p) \/ ReceiveUdp(p)
               \/ ReceiveUdpFinished(p) \/ ReceiveAckFinished(p)
        PROVE  TimerArmed'
    BY <2>6, <2>8 DEF LoseData, LoseAck, ReceiveUdp, ReceiveUdpFinished,
                      ReceiveAckFinished, senderVars
  <2>9. CASE UNCHANGED vars
    BY <2>6, <2>9 DEF vars, senderVars
  <2>10. QED
    BY <2>2, <2>3, <2>4, <2>5, <2>7, <2>8, <2>9 DEF Next, Timeout, EarlyTimeout
<1>3. QED
  BY <1>1, <1>2, InitIInv, NextKeeps, PTL DEF Spec

-----------------------------------------------------------------------------
(* The elements of a FIFO channel                                             *)

LEMMA SeqDomain ==
    ASSUME NEW q \in Seq(Entry)
    PROVE  DOMAIN q = 1..Len(q) /\ Len(q) \in Nat
BY LenProperties

LEMMA ElemsAreEntries ==
    ASSUME NEW q \in Seq(Entry)
    PROVE  Elems(q) \subseteq Entry
<1>1. \A i \in 1..Len(q) : q[i] \in Entry
  BY ElementOfSeq
<1>2. DOMAIN q = 1..Len(q)
  BY LenProperties
<1>3. QED
  BY <1>1, <1>2 DEF Elems

(* Taking the head of a channel: the head was in it, and nothing is added.    *)
LEMMA TailElems ==
    ASSUME NEW q \in Seq(Entry), q # <<>>
    PROVE  Head(q) \in Elems(q) /\ Elems(Tail(q)) \subseteq Elems(q)
<1>1. /\ Len(q) \in Nat /\ Len(q) > 0 /\ DOMAIN q = 1..Len(q)
      /\ Head(q) = q[1]
  BY LenProperties, EmptySeq, HeadTailProperties
<1>2. /\ Tail(q) \in Seq(Entry) /\ Len(Tail(q)) = Len(q) - 1
      /\ \A i \in 1..Len(Tail(q)) : Tail(q)[i] = q[i + 1]
  BY HeadTailProperties
<1>3. DOMAIN Tail(q) = 1..Len(Tail(q))
  BY <1>2, LenProperties
<1>4. Head(q) \in Elems(q)
  BY <1>1 DEF Elems
<1>5. ASSUME NEW i \in DOMAIN Tail(q) PROVE Tail(q)[i] \in Elems(q)
  BY <1>1, <1>2, <1>3 DEF Elems
<1>6. QED
  BY <1>4, <1>5 DEF Elems

(* Appending to a channel adds the new packet and nothing else.               *)
LEMMA AppendElems ==
    ASSUME NEW q \in Seq(Entry), NEW e \in Entry
    PROVE  Elems(Append(q, e)) = Elems(q) \cup {e}
<1>1. Len(q) \in Nat /\ DOMAIN q = 1..Len(q)
  BY LenProperties
<1>2. /\ Append(q, e) \in Seq(Entry) /\ Len(Append(q, e)) = Len(q) + 1
      /\ \A i \in 1..Len(q) : Append(q, e)[i] = q[i]
      /\ Append(q, e)[Len(q) + 1] = e
  BY AppendProperties
<1>3. DOMAIN Append(q, e) = 1..(Len(q) + 1)
  BY <1>2, LenProperties
<1>4. ASSUME NEW i \in DOMAIN Append(q, e) PROVE Append(q, e)[i] \in Elems(q) \cup {e}
  BY <1>1, <1>2, <1>3 DEF Elems
<1>5. ASSUME NEW i \in DOMAIN q
      PROVE  i \in DOMAIN Append(q, e) /\ Append(q, e)[i] = q[i]
  BY <1>1, <1>2, <1>3
<1>6. Len(q) + 1 \in DOMAIN Append(q, e)
  BY <1>1, <1>3
<1>7. QED
  BY <1>2, <1>4, <1>5, <1>6 DEF Elems

-----------------------------------------------------------------------------
(* The window of a QP: GetOnTheFlyForLaps never counts its packets, it derives *)
(* their number from four quantities that different events update.  The number *)
(* is exact, so the window holds, early timeouts included.                     *)

(* The packets of flow f that are outstanding on some path.                    *)
FlowListed(f) == {e \in Listed : e.flow = f}

Counted ==
    \A f \in Flows :
        /\ IsFiniteSet(FlowListed(f))
        /\ OnTheFly(f) = Cardinality(FlowListed(f))

WindowKept == \A f \in Flows : OnTheFly(f) <= Win

-----------------------------------------------------------------------------
(* A one-to-one image of a finite set has as many elements.                   *)
LEMMA SameSize ==
    ASSUME NEW S, NEW T, IsFiniteSet(S), NEW m \in [S -> T],
           \A a, b \in S : m[a] = m[b] => a = b,
           \A t \in T : \E a \in S : m[a] = t
    PROVE  IsFiniteSet(T) /\ Cardinality(T) = Cardinality(S)
<1>1. m \in Injection(S, T)
  BY DEF Injection, IsInjective
<1>2. m \in Surjection(S, T)
  BY DEF Surjection
<1>3. ExistsBijection(S, T)
  BY <1>1, <1>2 DEF ExistsBijection, Bijection
<1>4. QED
  BY <1>3, FS_Bijection

(* The packets sent and not acknowledged: the interval from snd_una to         *)
(* m_max_next_seq without the SACK blocks.                                     *)
LEMMA UnackedSize ==
    ASSUME TypeOK, Ranges, NEW f \in Flows
    PROVE  /\ IsFiniteSet(Unacked(f))
           /\ IsFiniteSet(sacked[f]) /\ Cardinality(sacked[f]) \in Nat
           /\ Cardinality(Unacked(f)) = maxNext[f] - una[f] - Cardinality(sacked[f])
<1> DEFINE I == una[f]..(maxNext[f] - 1)
           K == sacked[f]
<1>1. /\ una[f] \in Nat /\ maxNext[f] \in Nat /\ una[f] <= maxNext[f]
      /\ K \subseteq (una[f] + 1)..(maxNext[f] - 1)
  BY DEF TypeOK, Ranges
<1>2. IsFiniteSet(I) /\ Cardinality(I) = maxNext[f] - una[f]
  <2> DEFINE a == una[f]
             b == maxNext[f] - 1
  <2>1. a \in Int /\ b \in Int /\ (a > b => b - a + 1 = 0)
    BY <1>1
  <2> HIDE DEF a, b
  <2>2. IsFiniteSet(a..b) /\ Cardinality(a..b) = b - a + 1
    BY <2>1, FS_Interval
  <2>3. b - a + 1 = maxNext[f] - una[f]
    BY <1>1 DEF a, b
  <2>4. QED
    BY <2>2, <2>3 DEF a, b
<1>3. K \in SUBSET I /\ I \cap K = K
  BY <1>1
<1>4. Unacked(f) = I \ K
  BY DEF Unacked
<1> HIDE DEF I
<1>5. IsFiniteSet(K) /\ Cardinality(K) \in Nat
  BY <1>2, <1>3, FS_Subset, FS_CardinalityType
<1>6. IsFiniteSet(I \ K) /\ Cardinality(I \ K) = Cardinality(I) - Cardinality(I \cap K)
  BY <1>2, FS_Difference
<1>7. QED
  BY <1>2, <1>3, <1>4, <1>5, <1>6

(* The QP's entries of the lossy list name different packets, all unacked.     *)
LEMMA LossySize ==
    ASSUME IInv, NEW f \in Flows
    PROVE  LET M == {lossy[i].seq : i \in LossyAt(f)}
           IN  /\ M \subseteq Unacked(f)
               /\ IsFiniteSet(M)
               /\ Cardinality(M) = Cardinality(LossyAt(f))
               /\ Cardinality(LossyAt(f)) \in Nat
<1> DEFINE Q == LossyAt(f)
           M == {lossy[i].seq : i \in Q}
<1>1. TypeOK /\ AccountedOnce /\ lossy \in Seq(Entry)
  BY DEF IInv, TypeOK
<1>2. /\ DOMAIN lossy = 1..Len(lossy) /\ Len(lossy) \in Nat
      /\ \A i \in 1..Len(lossy) : lossy[i] \in Entry
  BY <1>1, SeqDomain, ElementOfSeq
<1>3. Q \in SUBSET (1..Len(lossy)) /\ \A i \in Q : lossy[i].flow = f
  BY <1>2 DEF LossyAt
<1>4. IsFiniteSet(Q) /\ Cardinality(Q) \in Nat
  <2>1. IsFiniteSet(1..Len(lossy))
    BY <1>2, FS_Interval
  <2> HIDE DEF Q
  <2>2. QED
    BY <2>1, <1>3, FS_Subset, FS_CardinalityType
<1>5. \A i, j \in Q : lossy[i].seq = lossy[j].seq => i = j
  <2> SUFFICES ASSUME NEW i \in Q, NEW j \in Q, lossy[i].seq = lossy[j].seq PROVE i = j
    OBVIOUS
  <2>1. i \in 1..Len(lossy) /\ j \in 1..Len(lossy)
    BY <1>3
  <2>2. lossy[i] = lossy[j]
    BY <2>1, <1>2, <1>3 DEF Entry
  <2>3. QED
    BY <2>1, <2>2, <1>1 DEF AccountedOnce, ListedAtMostOnce
<1>6. M \subseteq Unacked(f)
  BY <1>1, <1>3 DEF AccountedOnce, OnlyUnackedListed, IsUnacked
<1> DEFINE m == [i \in Q |-> lossy[i].seq]
<1>7. /\ m \in [Q -> M]
      /\ \A i, j \in Q : m[i] = m[j] => i = j
      /\ \A t \in M : \E i \in Q : m[i] = t
  BY <1>5
<1> HIDE DEF m, M, Q
<1>8. IsFiniteSet(M) /\ Cardinality(M) = Cardinality(Q)
  BY <1>4, <1>7, SameSize
<1>9. QED
  BY <1>4, <1>6, <1>8 DEF M, Q

(* The four counters agree with the lists.                                    *)
LEMMA CountedInv == IInv => Counted
<1> SUFFICES ASSUME IInv, NEW f \in Flows
             PROVE  /\ IsFiniteSet(FlowListed(f))
                    /\ OnTheFly(f) = Cardinality(FlowListed(f))
  BY DEF Counted
<1>1. TypeOK /\ Ranges /\ AccountedOnce
  BY DEF IInv
<1> DEFINE U == Unacked(f)
           M == {lossy[i].seq : i \in LossyAt(f)}
           W == U \ M
           Q == FlowListed(f)
<1>2. /\ IsFiniteSet(U) /\ Cardinality(sacked[f]) \in Nat
      /\ Cardinality(U) = maxNext[f] - una[f] - Cardinality(sacked[f])
  BY <1>1, UnackedSize
<1>3. /\ M \subseteq U /\ Cardinality(M) = Cardinality(LossyAt(f))
      /\ Cardinality(LossyAt(f)) \in Nat
  BY LossySize
<1>4. U \subseteq Nat /\ una[f] \in Nat /\ maxNext[f] \in Nat
  BY <1>1 DEF Unacked, TypeOK
<1>5. IsFiniteSet(W) /\ Cardinality(W) = OnTheFly(f)
  <2>1. U \cap M = M
    BY <1>3
  <2> HIDE DEF U, M
  <2>2. IsFiniteSet(U \ M) /\ Cardinality(U \ M) = Cardinality(U) - Cardinality(U \cap M)
    BY <1>2, FS_Difference
  <2>3. QED
    BY <2>1, <2>2, <1>2, <1>3, <1>4 DEF OnTheFly
<1>6. ASSUME NEW e \in Q
      PROVE  e \in Entry /\ e.flow = f /\ e.seq \in W
  <2>1. e.flow = f /\ \E p \in Paths : e \in Elems(outstanding[p])
    BY DEF FlowListed, Listed
  <2>2. PICK p \in Paths : e \in Elems(outstanding[p])
    BY <2>1
  <2>3. outstanding[p] \in Seq(Entry)
    BY <1>1 DEF TypeOK
  <2>4. PICK i \in 1..Len(outstanding[p]) : outstanding[p][i] = e
    BY <2>2, <2>3, SeqDomain DEF Elems
  <2>5. e \in Entry
    BY <2>2, <2>3, ElemsAreEntries
  <2>6. e.seq \in U
    BY <2>1, <2>4, <1>1 DEF AccountedOnce, OnlyUnackedListed, IsUnacked
  <2>7. e.seq \notin M
    <3> SUFFICES ASSUME NEW j \in LossyAt(f), lossy[j].seq = e.seq PROVE FALSE
      OBVIOUS
    <3>1. j \in 1..Len(lossy) /\ lossy[j].flow = f
      BY <1>1, SeqDomain DEF LossyAt, TypeOK
    <3>2. lossy[j] \in Entry
      BY <3>1, <1>1, ElementOfSeq DEF TypeOK
    <3>3. lossy[j] = e
      BY <3>1, <3>2, <2>1, <2>5 DEF Entry
    <3>4. QED
      BY <3>1, <3>3, <2>4, <1>1 DEF AccountedOnce, ListedAtMostOnce
  <2>8. QED
    BY <2>1, <2>5, <2>6, <2>7
<1>7. ASSUME NEW s \in W PROVE [flow |-> f, seq |-> s] \in Q
  <2> DEFINE e == [flow |-> f, seq |-> s]
  <2>1. \/ \E p \in Paths : \E i \in 1..Len(outstanding[p]) : outstanding[p][i] = e
        \/ \E i \in 1..Len(lossy) : lossy[i] = e
    BY <1>1 DEF AccountedOnce, UnackedListed
  <2>2. ASSUME NEW i \in 1..Len(lossy), lossy[i] = e PROVE FALSE
    <3>1. i \in LossyAt(f) /\ lossy[i].seq = s
      BY <2>2, <1>1, SeqDomain DEF LossyAt, TypeOK
    <3>2. QED
      BY <3>1
  <2>3. PICK p \in Paths : \E i \in 1..Len(outstanding[p]) : outstanding[p][i] = e
    BY <2>1, <2>2
  <2>4. e \in Elems(outstanding[p])
    BY <2>3, <1>1, SeqDomain DEF Elems, TypeOK
  <2>5. QED
    BY <2>4 DEF FlowListed, Listed
<1> DEFINE m == [s \in W |-> [flow |-> f, seq |-> s]]
<1>8. m \in [W -> Q]
  BY <1>7
<1>9. \A s, t \in W : m[s] = m[t] => s = t
  OBVIOUS
<1>10. \A e \in Q : \E s \in W : m[s] = e
  <2> SUFFICES ASSUME NEW e \in Q PROVE m[e.seq] = e /\ e.seq \in W
    OBVIOUS
  <2>1. e \in Entry /\ e.flow = f /\ e.seq \in W
    BY <1>6
  <2>2. e = [flow |-> f, seq |-> e.seq]
    BY <2>1 DEF Entry
  <2>3. QED
    BY <2>1, <2>2
<1> HIDE DEF m, W, Q
<1>11. IsFiniteSet(Q) /\ Cardinality(Q) = Cardinality(W)
  BY <1>5, <1>8, <1>9, <1>10, SameSize
<1>12. QED
  BY <1>5, <1>11 DEF Q

LEMMA CountedNext == IInv' => Counted'
BY CountedInv, PTL

-----------------------------------------------------------------------------
(* Only a send adds to the packets on the fly, one packet at a time and only   *)
(* when the window has room for it.                                            *)

LEMMA WindowShrinks ==
    ASSUME IInv, IInv', WindowKept, Listed' \subseteq Listed
    PROVE  WindowKept'
<1> SUFFICES ASSUME NEW f \in Flows PROVE OnTheFly(f)' <= Win
  BY DEF WindowKept
<1>1. IsFiniteSet(FlowListed(f)) /\ OnTheFly(f) = Cardinality(FlowListed(f))
  BY CountedInv DEF Counted
<1>2. OnTheFly(f)' = Cardinality(FlowListed(f)')
  BY CountedNext DEF Counted
<1>3. FlowListed(f)' \in SUBSET FlowListed(f)
  BY DEF FlowListed
<1>4. /\ Cardinality(FlowListed(f)') <= Cardinality(FlowListed(f))
      /\ IsFiniteSet(FlowListed(f)')
  BY <1>1, <1>3, FS_Subset
<1>5. Cardinality(FlowListed(f)') \in Nat /\ Cardinality(FlowListed(f)) \in Nat
  BY <1>1, <1>4, FS_CardinalityType
<1>6. OnTheFly(f) <= Win
  BY DEF WindowKept
<1>7. QED
  BY <1>1, <1>2, <1>4, <1>5, <1>6, WinAssumption

LEMMA WindowFills ==
    ASSUME IInv, IInv', WindowKept, NEW f \in Flows, NEW e, e.flow = f,
           Listed' \subseteq Listed \cup {e}, WindowOpen(f)
    PROVE  WindowKept'
<1> SUFFICES ASSUME NEW g \in Flows PROVE OnTheFly(g)' <= Win
  BY DEF WindowKept
<1>1. IsFiniteSet(FlowListed(g)) /\ OnTheFly(g) = Cardinality(FlowListed(g))
  BY CountedInv DEF Counted
<1>2. OnTheFly(g)' = Cardinality(FlowListed(g)')
  BY CountedNext DEF Counted
<1>3. OnTheFly(g) <= Win
  BY DEF WindowKept
<1>4. Cardinality(FlowListed(g)) \in Nat
  BY <1>1, FS_CardinalityType
<1>5. CASE g = f
  <2>1. FlowListed(g)' \in SUBSET (FlowListed(g) \cup {e})
    BY DEF FlowListed
  <2> DEFINE S == FlowListed(g) \cup {e}
  <2>2. /\ IsFiniteSet(S)
        /\ Cardinality(S) = IF e \in FlowListed(g) THEN Cardinality(FlowListed(g))
                            ELSE Cardinality(FlowListed(g)) + 1
    BY <1>1, FS_AddElement
  <2> HIDE DEF S
  <2>3. IsFiniteSet(FlowListed(g)') /\ Cardinality(FlowListed(g)') <= Cardinality(S)
    BY <2>1, <2>2, FS_Subset DEF S
  <2>4. Cardinality(FlowListed(g)') \in Nat
    BY <2>3, FS_CardinalityType
  <2>5. OnTheFly(g) + 1 <= Win
    BY <1>5 DEF WindowOpen
  <2>6. QED
    BY <2>2, <2>3, <2>4, <2>5, <1>1, <1>2, <1>4, WinAssumption
<1>6. CASE g # f
  <2>1. FlowListed(g)' \in SUBSET FlowListed(g)
    BY <1>6 DEF FlowListed
  <2>2. /\ Cardinality(FlowListed(g)') <= Cardinality(FlowListed(g))
        /\ IsFiniteSet(FlowListed(g)')
    BY <2>1, <1>1, FS_Subset
  <2>3. Cardinality(FlowListed(g)') \in Nat
    BY <2>2, FS_CardinalityType
  <2>4. QED
    BY <2>2, <2>3, <1>1, <1>2, <1>3, <1>4, WinAssumption
<1>7. QED
  BY <1>5, <1>6

LEMMA TransmitAddsOne ==
    ASSUME TypeOK, NEW f \in Flows, NEW p \in Paths, NEW s \in Nat, Transmit(f, p, s)
    PROVE  Listed' \subseteq Listed \cup {[flow |-> f, seq |-> s]}
<1> DEFINE e == [flow |-> f, seq |-> s]
<1>1. e \in Entry
  BY DEF Entry
<1>2. outstanding' = [outstanding EXCEPT ![p] = Append(outstanding[p], e)]
  BY DEF Transmit
<1> HIDE DEF e
<1>3. ASSUME NEW q \in Paths PROVE Elems(outstanding'[q]) \subseteq Elems(outstanding[q]) \cup {e}
  <2>1. CASE q = p
    <3>1. outstanding[p] \in Seq(Entry) /\ outstanding'[p] = Append(outstanding[p], e)
      BY <1>2 DEF TypeOK
    <3>2. Elems(Append(outstanding[p], e)) = Elems(outstanding[p]) \cup {e}
      BY <1>1, <3>1, AppendElems
    <3>3. QED
      BY <2>1, <3>1, <3>2
  <2>2. CASE q # p
    BY <2>2, <1>2 DEF TypeOK
  <2>3. QED
    BY <2>1, <2>2
<1>4. Listed' \subseteq Listed \cup {e}
  BY <1>3 DEF Listed, Elems
<1>5. QED
  BY <1>4 DEF e

LEMMA NextWindow == IInv /\ WindowKept /\ [Next]_vars => WindowKept'
<1> SUFFICES ASSUME IInv, WindowKept, [Next]_vars PROVE WindowKept'
  OBVIOUS
<1>0. IInv' /\ TypeOK
  BY NextKeeps DEF IInv
<1>1. ASSUME NEW f \in Flows, NEW p \in PathsOf[f], SendNew(f, p) PROVE WindowKept'
  <2> DEFINE e == [flow |-> f, seq |-> maxNext[f]]
  <2>1. p \in Paths /\ maxNext[f] \in Nat /\ Transmit(f, p, maxNext[f]) /\ WindowOpen(f)
    BY <1>0, <1>1, PathsAssumption DEF SendNew, TypeOK
  <2>2. Listed' \subseteq Listed \cup {e} /\ e.flow = f
    BY <2>1, <1>0, TransmitAddsOne
  <2> HIDE DEF e
  <2>3. QED
    BY <2>1, <2>2, <1>0, WindowFills
<1>2. ASSUME NEW f \in Flows, NEW p \in PathsOf[f], Resend(f, p) PROVE WindowKept'
  <2> DEFINE s == lossy[NextLossy(f)].seq
             e == [flow |-> f, seq |-> s]
  <2>1. p \in Paths /\ Transmit(f, p, s) /\ WindowOpen(f)
    BY <1>2, PathsAssumption DEF Resend
  <2>2. s \in Nat
    <3>1. NextLossy(f) \in 1..Len(lossy)
      BY <1>0, <1>2, NextLossyExists DEF Resend, TypeOK
    <3>2. lossy[NextLossy(f)] \in Entry
      BY <3>1, <1>0, ElementOfSeq DEF TypeOK
    <3>3. QED
      BY <3>2 DEF Entry
  <2> HIDE DEF s
  <2>3. Listed' \subseteq Listed \cup {e} /\ e.flow = f
    BY <2>1, <2>2, <1>0, TransmitAddsOne
  <2> HIDE DEF e
  <2>4. QED
    BY <2>1, <2>3, <1>0, WindowFills
<1>3. ASSUME NEW p \in Paths, ReceiveAck(p) PROVE WindowKept'
  <2> DEFINE r == outstanding[p]
  <2>1. PICK k \in DOMAIN r :
          outstanding' = [outstanding EXCEPT ![p] = SubSeq(r, k + 1, Len(r))]
    BY <1>3 DEF ReceiveAck
  <2>2. /\ r \in Seq(Entry) /\ k \in 1..Len(r) /\ Len(r) \in Nat
        /\ \A i \in 1..Len(r) : r[i] \in Entry
    BY <1>0, SeqDomain, ElementOfSeq DEF TypeOK
  <2> DEFINE t == SubSeq(r, k + 1, Len(r))
  <2>3. Elems(t) \subseteq Elems(r)
    <3> HIDE DEF r
    <3>1. \A i \in (k + 1)..Len(r) : r[i] \in Entry
      BY <2>2
    <3>2. /\ t \in Seq(Entry)
          /\ Len(t) = IF k + 1 <= Len(r) THEN Len(r) - (k + 1) + 1 ELSE 0
          /\ \A i \in 1..(Len(r) - (k + 1) + 1) : t[i] = r[(k + 1) + i - 1]
      BY <3>1, <2>2, SubSeqProperties
    <3>3. DOMAIN t = 1..Len(t) /\ DOMAIN r = 1..Len(r)
      BY <3>2, <2>2, SeqDomain
    <3> HIDE DEF t
    <3>4. ASSUME NEW i \in 1..Len(t) PROVE t[i] \in Elems(r)
      <4>1. (k + 1) + i - 1 \in 1..Len(r) /\ t[i] = r[(k + 1) + i - 1]
        BY <3>2, <2>2
      <4>2. QED
        BY <4>1, <3>3 DEF Elems
    <3>5. QED
      BY <3>3, <3>4 DEF Elems
  <2>4. \A q \in Paths : Elems(outstanding'[q]) \subseteq Elems(outstanding[q])
    BY <2>1, <2>3, <1>0 DEF TypeOK
  <2>5. Listed' \subseteq Listed
    BY <2>4 DEF Listed, Elems
  <2>6. QED
    BY <2>5, <1>0, WindowShrinks
<1>4. ASSUME NEW p \in Paths, Timeout(p) \/ EarlyTimeout(p) PROVE WindowKept'
  <2>1. outstanding' = [outstanding EXCEPT ![p] = <<>>]
    BY <1>4 DEF Timeout, EarlyTimeout, Expire
  <2>2. Elems(<<>>) = {}
    BY DEF Elems
  <2>3. \A q \in Paths : Elems(outstanding'[q]) \subseteq Elems(outstanding[q])
    BY <2>1, <2>2, <1>0 DEF TypeOK
  <2>4. Listed' \subseteq Listed
    BY <2>3 DEF Listed, Elems
  <2>5. QED
    BY <2>4, <1>0, WindowShrinks
<1>5. ASSUME outstanding' = outstanding PROVE WindowKept'
  <2>1. Listed' \subseteq Listed
    BY <1>5 DEF Listed, Elems
  <2>2. QED
    BY <2>1, <1>0, WindowShrinks
<1>6. ASSUME NEW f \in Flows, StartFlow(f) PROVE WindowKept'
  BY <1>5, <1>6 DEF StartFlow
<1>7. ASSUME NEW p \in Paths,
             \/ LoseData(p) \/ LoseAck(p) \/ ReceiveUdp(p)
             \/ ReceiveUdpFinished(p) \/ ReceiveAckFinished(p)
      PROVE  WindowKept'
  BY <1>5, <1>7 DEF LoseData, LoseAck, ReceiveUdp, ReceiveUdpFinished,
                    ReceiveAckFinished, senderVars
<1>8. CASE UNCHANGED vars
  BY <1>5, <1>8 DEF vars, senderVars
<1>9. QED
  BY <1>1, <1>2, <1>3, <1>4, <1>6, <1>7, <1>8 DEF Next

-----------------------------------------------------------------------------
(* GetOnTheFlyForLaps returns exactly the number of packets of the QP that    *)
(* are outstanding on its paths, never a negative one, and the window bounds  *)
(* it, whatever is lost and however many timers expire early.                 *)
THEOREM WindowRespected == Spec => []OnTheFlyExact
<1>1. Init => WindowKept
  <2> SUFFICES ASSUME Init, NEW f \in Flows PROVE OnTheFly(f) <= Win
    BY DEF WindowKept
  <2>1. maxNext[f] = 0 /\ una[f] = 0 /\ sacked[f] = {} /\ LossyAt(f) = {}
    BY DEF Init, LossyAt
  <2>2. OnTheFly(f) = 0
    BY <2>1, FS_EmptySet DEF OnTheFly
  <2>3. QED
    BY <2>2, WinAssumption
<1>2. IInv /\ WindowKept => OnTheFlyExact
  BY CountedInv DEF Counted, WindowKept, OnTheFlyExact, FlowListed
<1>3. QED
  BY <1>1, <1>2, InitIInv, NextKeeps, NextWindow, PTL DEF Spec

-----------------------------------------------------------------------------
(* LapsTransport implements ReliableTransfer, and what follows for its timers  *)
(* and losses.                                                                 *)

(* What ties the sender, the network and the receiver of a flow together: a    *)
(* packet in flight has been sent, an ACK in flight tells of a packet the      *)
(* receiver has, and the sender believes only such ACKs.  The receiver, which  *)
(* takes any packet of a flow it has not finished, therefore holds only        *)
(* packets of the flow, and holds them all when the sender completes it.       *)
DeliveryInv ==
    /\ \A p \in Paths : \A e \in Elems(data[p]) : e.seq < maxNext[e.flow]
    /\ \A p \in Paths : \A e \in Elems(acks[p]) : e.seq \in rcvd[e.flow]
    /\ \A f \in Flows :
          /\ rcvd[f] \subseteq 0..(maxNext[f] - 1)
          /\ 0..(una[f] - 1) \cup sacked[f] \subseteq rcvd[f]
          /\ rcvd[f] # {} => rx[f] # "none"
          /\ qp[f] = "new" => maxNext[f] = 0
          /\ qp[f] = "done" => una[f] = Size[f]
          /\ rx[f] = "finished" <=> qp[f] = "done"

-----------------------------------------------------------------------------
(* DeliveryInv is inductive, given IInv.                                      *)

LEMMA InitDelivery == Init => DeliveryInv
<1> SUFFICES ASSUME Init PROVE DeliveryInv
  OBVIOUS
<1>1. Elems(<<>>) = {}
  BY DEF Elems
<1>2. QED
  BY <1>1, SizeAssumption DEF Init, DeliveryInv

(* A packet enters the network: it is one of the packets sent so far.         *)
LEMMA TransmitDelivers ==
    ASSUME TypeOK, DeliveryInv, NEW f \in Flows, NEW p \in Paths, NEW s \in Nat,
           Transmit(f, p, s), qp[f] = "live",
           maxNext' \in [Flows -> Nat], s < maxNext'[f],
           \A g \in Flows : maxNext[g] <= maxNext'[g],
           \A g \in Flows : g # f => maxNext'[g] = maxNext[g]
    PROVE  DeliveryInv'
<1> DEFINE e == [flow |-> f, seq |-> s]
<1>1. e \in Entry /\ e.flow = f /\ e.seq = s
  BY DEF Entry
<1>2. data' = [data EXCEPT ![p] = Append(data[p], e)]
      /\ UNCHANGED <<qp, una, sacked, acks, rx, rcvd>>
  BY DEF Transmit, receiverVars
<1> HIDE DEF e
<1>3. ASSUME NEW q \in Paths, NEW x \in Elems(data'[q])
      PROVE  x.seq < maxNext'[x.flow]
  <2>1. x \in Elems(data[q]) \/ x = e
    <3>1. CASE q = p
      <4>1. data[p] \in Seq(Entry) /\ data'[p] = Append(data[p], e)
        BY <1>2 DEF TypeOK
      <4>2. Elems(Append(data[p], e)) = Elems(data[p]) \cup {e}
        BY <4>1, <1>1, AppendElems
      <4>3. QED
        BY <4>1, <4>2, <3>1
    <3>2. CASE q # p
      BY <3>2, <1>2 DEF TypeOK
    <3>3. QED
      BY <3>1, <3>2
  <2>2. CASE x \in Elems(data[q])
    <3>1. x \in Entry
      BY <2>2, ElemsAreEntries DEF TypeOK
    <3>2. x.flow \in Flows /\ x.seq \in Nat
      BY <3>1 DEF Entry
    <3>3. x.seq < maxNext[x.flow]
      BY <2>2 DEF DeliveryInv
    <3>4. QED
      BY <3>2, <3>3 DEF TypeOK
  <2>3. CASE x = e
    BY <2>3, <1>1
  <2>4. QED
    BY <2>1, <2>2, <2>3
<1>4. ASSUME NEW g \in Flows
      PROVE  /\ rcvd'[g] \subseteq 0..(maxNext'[g] - 1)
             /\ qp'[g] = "new" => maxNext'[g] = 0
  <2>1. rcvd[g] \subseteq 0..(maxNext[g] - 1) /\ (qp[g] = "new" => maxNext[g] = 0)
    BY DEF DeliveryInv
  <2>2. maxNext[g] \in Nat /\ maxNext'[g] \in Nat /\ maxNext[g] <= maxNext'[g]
    BY DEF TypeOK
  <2>3. qp[g] = "new" => maxNext'[g] = 0
    BY <2>1
  <2>4. QED
    BY <2>1, <2>2, <2>3, <1>2
<1>5. QED
  BY <1>2, <1>3, <1>4 DEF DeliveryInv

(* The receiver takes the head of a path and answers it.                      *)
LEMMA ReceiveUdpDelivers ==
    ASSUME TypeOK, DeliveryInv, NEW p \in Paths, ReceiveUdp(p)
    PROVE  DeliveryInv'
<1>1. data[p] \in Seq(Entry) /\ acks[p] \in Seq(Entry) /\ data[p] # <<>>
  BY DEF TypeOK, ReceiveUdp
<1>2. PICK e \in Entry : e = Head(data[p]) /\ e \in Elems(data[p])
  BY <1>1, TailElems, ElemsAreEntries
<1>3. e.flow \in Flows /\ e.seq \in Nat
  BY <1>2 DEF Entry
<1>4. /\ rx[e.flow] # "finished"
      /\ data' = [data EXCEPT ![p] = Tail(data[p])]
      /\ acks' = [acks EXCEPT ![p] = Append(acks[p], e)]
      /\ rx' = [rx EXCEPT ![e.flow] = "active"]
      /\ rcvd' = [rcvd EXCEPT ![e.flow] = rcvd[e.flow] \cup {e.seq}]
      /\ UNCHANGED <<qp, una, maxNext, sacked>>
  BY <1>2 DEF ReceiveUdp, senderVars
<1>5. e.seq < maxNext[e.flow] /\ maxNext[e.flow] \in Nat
  BY <1>2, <1>3 DEF DeliveryInv, TypeOK
<1>6. \A g \in Flows : rcvd'[g] = IF g = e.flow THEN rcvd[g] \cup {e.seq} ELSE rcvd[g]
  BY <1>3, <1>4 DEF TypeOK
<1>7. \A g \in Flows : rx'[g] = IF g = e.flow THEN "active" ELSE rx[g]
  BY <1>3, <1>4 DEF TypeOK
<1>8. \A q \in Paths : \A x \in Elems(data'[q]) : x.seq < maxNext'[x.flow]
  <2>1. \A q \in Paths : Elems(data'[q]) \subseteq Elems(data[q])
    BY <1>1, <1>4, TailElems DEF TypeOK
  <2>2. QED
    BY <2>1, <1>4 DEF DeliveryInv
<1>9. ASSUME NEW q \in Paths, NEW x \in Elems(acks'[q])
      PROVE  x.seq \in rcvd'[x.flow]
  <2>1. x \in Elems(acks[q]) \/ x = e
    <3>1. CASE q = p
      <4>1. acks'[p] = Append(acks[p], e)
        BY <1>4 DEF TypeOK
      <4>2. Elems(Append(acks[p], e)) = Elems(acks[p]) \cup {e}
        BY <1>1, AppendElems
      <4>3. QED
        BY <4>1, <4>2, <3>1
    <3>2. CASE q # p
      BY <3>2, <1>4 DEF TypeOK
    <3>3. QED
      BY <3>1, <3>2
  <2>2. CASE x \in Elems(acks[q])
    <3>1. x \in Entry
      BY <2>2, ElemsAreEntries DEF TypeOK
    <3>2. x.flow \in Flows
      BY <3>1 DEF Entry
    <3>3. x.seq \in rcvd[x.flow]
      BY <2>2 DEF DeliveryInv
    <3>4. QED
      BY <3>2, <3>3, <1>6
  <2>3. CASE x = e
    BY <2>3, <1>3, <1>6
  <2>4. QED
    BY <2>1, <2>2, <2>3
<1>10. ASSUME NEW g \in Flows
       PROVE  /\ rcvd'[g] \subseteq 0..(maxNext[g] - 1)
              /\ 0..(una[g] - 1) \cup sacked[g] \subseteq rcvd'[g]
              /\ rcvd'[g] # {} => rx'[g] # "none"
              /\ rx'[g] = "finished" <=> qp[g] = "done"
  <2>1. /\ rcvd[g] \subseteq 0..(maxNext[g] - 1)
        /\ 0..(una[g] - 1) \cup sacked[g] \subseteq rcvd[g]
        /\ rcvd[g] # {} => rx[g] # "none"
        /\ rx[g] = "finished" <=> qp[g] = "done"
    BY DEF DeliveryInv
  <2>2. e.seq \in 0..(maxNext[e.flow] - 1)
    BY <1>3, <1>5
  <2>3. CASE g = e.flow
    BY <2>1, <2>2, <2>3, <1>4, <1>6, <1>7
  <2>4. CASE g # e.flow
    BY <2>1, <2>4, <1>6, <1>7
  <2>5. QED
    BY <2>3, <2>4
<1>11. QED
  BY <1>4, <1>8, <1>9, <1>10 DEF DeliveryInv

(* What an ACK changes: the flow it is for, the new snd_una, and that the      *)
(* flow completes exactly when snd_una has reached its end.                    *)
LEMMA ReceiveAckEffect ==
    ASSUME IInv, DeliveryInv, NEW p \in Paths, ReceiveAck(p)
    PROVE  \E f \in Flows, u \in Nat :
              /\ u \in una[f]..Size[f]
              /\ qp[f] = "live"
              /\ acks[p] # <<>> /\ acks' = [acks EXCEPT ![p] = Tail(acks[p])]
              /\ una' = [una EXCEPT ![f] = u]
              /\ sacked'[f] \subseteq rcvd[f] /\ 0..(u - 1) \subseteq rcvd[f]
              /\ \A g \in Flows : g # f => sacked'[g] = sacked[g]
              /\ \/ u = Size[f] /\ qp' = [qp EXCEPT ![f] = "done"]
                                /\ rx' = [rx EXCEPT ![f] = "finished"]
                 \/ qp' = qp /\ rx' = rx
              /\ UNCHANGED <<maxNext, data, rcvd>>
<1> USE SizeAssumption
<1>1. TypeOK /\ Ranges /\ AccountedOnce
  BY DEF IInv
<1>2. acks[p] # <<>> /\ acks[p] \in Seq(Entry)
  BY <1>1 DEF ReceiveAck, TypeOK
<1>3. PICK e \in Entry : e = Head(acks[p]) /\ e \in Elems(acks[p])
  BY <1>2, TailElems, ElemsAreEntries
<1>4. PICK f \in Flows : f = e.flow /\ e.seq \in Nat
  BY <1>3 DEF Entry
<1> DEFINE S == sacked[f] \cup {e.seq}
           u == Advance(f, S)
<1>5. PICK k \in DOMAIN outstanding[p] :
        /\ qp[f] = "live" /\ outstanding[p][k] = e
        /\ acks' = [acks EXCEPT ![p] = Tail(acks[p])]
        /\ una' = [una EXCEPT ![f] = u]
        /\ sacked' = [sacked EXCEPT ![f] = {s \in sacked[f] \cup {e.seq} : s >= u}]
        /\ qp' = IF u >= Size[f] THEN [qp EXCEPT ![f] = "done"] ELSE qp
        /\ rx' = IF u >= Size[f] THEN [rx EXCEPT ![f] = "finished"] ELSE rx
        /\ UNCHANGED <<maxNext, data, rcvd>>
  <2>1. f = Head(acks[p]).flow /\ e = Head(acks[p])
    BY <1>3, <1>4
  <2>2. u = Advance(Head(acks[p]).flow, sacked[Head(acks[p]).flow] \cup {Head(acks[p]).seq})
    BY <2>1
  <2> HIDE DEF u
  <2>3. QED
    BY <2>1, <2>2 DEF ReceiveAck
<1>6. e.seq \in una[f]..(maxNext[f] - 1)
  <2>1. outstanding[p] \in Seq(Entry)
    BY <1>1 DEF TypeOK
  <2>2. k \in 1..Len(outstanding[p])
    BY <2>1, LenProperties
  <2>3. QED
    BY <2>2, <1>1, <1>4, <1>5 DEF AccountedOnce, OnlyUnackedListed, IsUnacked, Unacked
<1>7. /\ una[f] \in Nat /\ maxNext[f] \in Nat /\ Size[f] \in Nat
      /\ una[f] <= maxNext[f] /\ maxNext[f] <= Size[f]
      /\ sacked[f] \subseteq (una[f] + 1)..(maxNext[f] - 1)
  BY <1>1 DEF TypeOK, Ranges
<1>8. S \in SUBSET Nat /\ Size[f] \notin S
  BY <1>4, <1>6, <1>7
<1>9. S \subseteq rcvd[f] /\ 0..(una[f] - 1) \subseteq rcvd[f]
  BY <1>3, <1>4 DEF DeliveryInv
<1> HIDE DEF S, u
<1>10. u \in Nat /\ u \in una[f]..Size[f] /\ una[f]..(u - 1) \subseteq S
  <2>1. una[f] <= Size[f]
    BY <1>7
  <2>2. QED
    BY <2>1, <1>7, <1>8, AdvanceStops DEF u
<1>11. 0..(u - 1) \subseteq rcvd[f]
  <2>1. 0..(u - 1) \subseteq (0..(una[f] - 1)) \cup (una[f]..(u - 1))
    BY <1>7, <1>10
  <2>2. QED
    BY <2>1, <1>9, <1>10
<1>12. /\ sacked'[f] \subseteq rcvd[f]
       /\ \A g \in Flows : g # f => sacked'[g] = sacked[g]
  <2>1. sacked'[f] \subseteq S
    BY <1>1, <1>5 DEF TypeOK, S
  <2>2. \A g \in Flows : g # f => sacked'[g] = sacked[g]
    BY <1>1, <1>5 DEF TypeOK
  <2>3. QED
    BY <2>1, <2>2, <1>9
<1>13. \/ u = Size[f] /\ qp' = [qp EXCEPT ![f] = "done"]
                      /\ rx' = [rx EXCEPT ![f] = "finished"]
       \/ qp' = qp /\ rx' = rx
  <2>1. u >= Size[f] => u = Size[f]
    BY <1>7, <1>10
  <2>2. QED
    BY <2>1, <1>5
<1>14. QED
  BY <1>2, <1>5, <1>10, <1>11, <1>12, <1>13

LEMMA ReceiveAckDelivers ==
    ASSUME IInv, DeliveryInv, NEW p \in Paths, ReceiveAck(p)
    PROVE  DeliveryInv'
<1>1. TypeOK
  BY DEF IInv
<1>2. PICK f \in Flows, u \in Nat :
        /\ qp[f] = "live"
        /\ acks[p] # <<>> /\ acks' = [acks EXCEPT ![p] = Tail(acks[p])]
        /\ una' = [una EXCEPT ![f] = u]
        /\ sacked'[f] \subseteq rcvd[f] /\ 0..(u - 1) \subseteq rcvd[f]
        /\ \A g \in Flows : g # f => sacked'[g] = sacked[g]
        /\ \/ u = Size[f] /\ qp' = [qp EXCEPT ![f] = "done"]
                          /\ rx' = [rx EXCEPT ![f] = "finished"]
           \/ qp' = qp /\ rx' = rx
        /\ UNCHANGED <<maxNext, data, rcvd>>
  BY ReceiveAckEffect
<1>3. \A q \in Paths : \A x \in Elems(acks'[q]) : x.seq \in rcvd'[x.flow]
  <2>1. \A q \in Paths : Elems(acks'[q]) \subseteq Elems(acks[q])
    BY <1>1, <1>2, TailElems DEF TypeOK
  <2>2. QED
    BY <2>1, <1>2 DEF DeliveryInv
<1>4. ASSUME NEW g \in Flows
      PROVE  /\ 0..(una'[g] - 1) \cup sacked'[g] \subseteq rcvd[g]
             /\ rcvd[g] # {} => rx'[g] # "none"
             /\ qp'[g] = "new" => maxNext[g] = 0
             /\ qp'[g] = "done" => una'[g] = Size[g]
             /\ rx'[g] = "finished" <=> qp'[g] = "done"
  <2>1. /\ 0..(una[g] - 1) \cup sacked[g] \subseteq rcvd[g]
        /\ rcvd[g] # {} => rx[g] # "none"
        /\ qp[g] = "new" => maxNext[g] = 0
        /\ qp[g] = "done" => una[g] = Size[g]
        /\ rx[g] = "finished" <=> qp[g] = "done"
    BY DEF DeliveryInv
  <2>2. CASE g = f
    <3>1. una'[f] = u
      BY <1>1, <1>2 DEF TypeOK
    <3>2. CASE u = Size[f] /\ qp' = [qp EXCEPT ![f] = "done"]
                           /\ rx' = [rx EXCEPT ![f] = "finished"]
      <4>1. qp'[f] = "done" /\ rx'[f] = "finished"
        BY <3>2, <1>1 DEF TypeOK
      <4>2. QED
        BY <4>1, <3>1, <3>2, <2>2, <1>2
    <3>3. CASE qp' = qp /\ rx' = rx
      BY <3>1, <3>3, <2>1, <2>2, <1>2
    <3>4. QED
      BY <3>2, <3>3, <1>2
  <2>3. CASE g # f
    <3>1. una'[g] = una[g] /\ qp'[g] = qp[g] /\ rx'[g] = rx[g] /\ sacked'[g] = sacked[g]
      BY <2>3, <1>1, <1>2 DEF TypeOK
    <3>2. QED
      BY <3>1, <2>1
  <2>4. QED
    BY <2>2, <2>3
<1>5. QED
  BY <1>2, <1>3, <1>4 DEF DeliveryInv

(* A step that adds nothing to a channel and touches neither end's counters.  *)
LEMMA OnlyRemoves ==
    ASSUME DeliveryInv, UNCHANGED <<qp, una, maxNext, sacked, rx, rcvd>>,
           \A p \in Paths : Elems(data'[p]) \subseteq Elems(data[p]),
           \A p \in Paths : Elems(acks'[p]) \subseteq Elems(acks[p])
    PROVE  DeliveryInv'
BY DEF DeliveryInv

LEMMA NextDelivers == IInv /\ DeliveryInv /\ [Next]_vars => DeliveryInv'
<1> SUFFICES ASSUME IInv, DeliveryInv, [Next]_vars PROVE DeliveryInv'
  OBVIOUS
<1>0. TypeOK /\ AccountedOnce
  BY DEF IInv
<1>1. ASSUME NEW f \in Flows, StartFlow(f) PROVE DeliveryInv'
  <2>1. /\ qp[f] = "new" /\ qp' = [qp EXCEPT ![f] = "live"]
        /\ UNCHANGED <<una, maxNext, sacked, data, acks, rx, rcvd>>
    BY <1>1 DEF StartFlow, networkVars, receiverVars
  <2>2. ASSUME NEW g \in Flows
        PROVE  /\ qp'[g] = "new" => qp[g] = "new"
               /\ qp'[g] = "done" <=> qp[g] = "done"
    BY <2>1, <1>0 DEF TypeOK
  <2>3. QED
    BY <2>1, <2>2 DEF DeliveryInv
<1>2. ASSUME NEW f \in Flows, NEW p \in PathsOf[f], SendNew(f, p) PROVE DeliveryInv'
  <2>1. p \in Paths /\ maxNext[f] \in Nat /\ qp[f] = "live"
    BY <1>0, <1>2, PathsAssumption DEF TypeOK, SendNew
  <2>2. Transmit(f, p, maxNext[f]) /\ maxNext' = [maxNext EXCEPT ![f] = maxNext[f] + 1]
    BY <1>2 DEF SendNew
  <2>3. /\ maxNext' \in [Flows -> Nat] /\ maxNext'[f] = maxNext[f] + 1
        /\ \A g \in Flows : g # f => maxNext'[g] = maxNext[g]
    BY <2>2, <1>0 DEF TypeOK
  <2>4. ASSUME NEW g \in Flows PROVE maxNext[g] <= maxNext'[g]
    <3>1. maxNext[g] \in Nat
      BY <1>0 DEF TypeOK
    <3>2. maxNext'[g] = maxNext[g] \/ maxNext'[g] = maxNext[g] + 1
      BY <2>3
    <3>3. QED
      BY <3>1, <3>2
  <2>5. maxNext[f] < maxNext'[f]
    BY <2>1, <2>3
  <2>6. QED
    BY <2>1, <2>2, <2>3, <2>4, <2>5, <1>0, TransmitDelivers
<1>3. ASSUME NEW f \in Flows, NEW p \in PathsOf[f], Resend(f, p) PROVE DeliveryInv'
  <2> DEFINE s == lossy[NextLossy(f)].seq
  <2>1. p \in Paths /\ qp[f] = "live" /\ Transmit(f, p, s) /\ maxNext' = maxNext
    BY <1>3, PathsAssumption DEF Resend
  <2>2. NextLossy(f) \in 1..Len(lossy) /\ lossy[NextLossy(f)].flow = f
    BY <1>0, <1>3, NextLossyExists DEF Resend, TypeOK
  <2>3. s \in Nat /\ s < maxNext[f]
    <3>1. s \in una[f]..(maxNext[f] - 1)
      BY <2>2, <1>0 DEF AccountedOnce, OnlyUnackedListed, IsUnacked, Unacked
    <3>2. una[f] \in Nat /\ maxNext[f] \in Nat
      BY <1>0 DEF TypeOK
    <3>3. QED
      BY <3>1, <3>2
  <2> HIDE DEF s
  <2>4. maxNext' \in [Flows -> Nat] /\ \A g \in Flows : maxNext[g] <= maxNext'[g]
    BY <2>1, <1>0 DEF TypeOK
  <2>5. QED
    BY <2>1, <2>3, <2>4, <1>0, TransmitDelivers
<1>4. ASSUME NEW p \in Paths, LoseData(p) \/ ReceiveUdpFinished(p) PROVE DeliveryInv'
  <2>1. /\ data[p] # <<>> /\ data' = [data EXCEPT ![p] = Tail(data[p])]
        /\ UNCHANGED <<qp, una, maxNext, sacked, acks, rx, rcvd>>
    BY <1>4 DEF LoseData, ReceiveUdpFinished, senderVars, receiverVars
  <2>2. \A q \in Paths : Elems(data'[q]) \subseteq Elems(data[q])
    BY <2>1, <1>0, TailElems DEF TypeOK
  <2>3. QED
    BY <2>1, <2>2, OnlyRemoves
<1>5. ASSUME NEW p \in Paths, LoseAck(p) \/ ReceiveAckFinished(p) PROVE DeliveryInv'
  <2>1. /\ acks[p] # <<>> /\ acks' = [acks EXCEPT ![p] = Tail(acks[p])]
        /\ UNCHANGED <<qp, una, maxNext, sacked, data, rx, rcvd>>
    BY <1>5 DEF LoseAck, ReceiveAckFinished, senderVars, receiverVars
  <2>2. \A q \in Paths : Elems(acks'[q]) \subseteq Elems(acks[q])
    BY <2>1, <1>0, TailElems DEF TypeOK
  <2>3. QED
    BY <2>1, <2>2, OnlyRemoves
<1>6. ASSUME NEW p \in Paths, ReceiveUdp(p) PROVE DeliveryInv'
  BY <1>0, <1>6, ReceiveUdpDelivers
<1>7. ASSUME NEW p \in Paths, ReceiveAck(p) PROVE DeliveryInv'
  BY <1>7, ReceiveAckDelivers
<1>8. ASSUME NEW p \in Paths, Timeout(p) \/ EarlyTimeout(p) PROVE DeliveryInv'
  <2>1. UNCHANGED <<qp, una, maxNext, sacked, data, acks, rx, rcvd>>
    BY <1>8 DEF Timeout, EarlyTimeout, Expire, receiverVars
  <2>2. QED
    BY <2>1, OnlyRemoves
<1>9. CASE UNCHANGED vars
  <2>1. UNCHANGED <<qp, una, maxNext, sacked, data, acks, rx, rcvd>>
    BY <1>9 DEF vars, senderVars, networkVars, receiverVars
  <2>2. QED
    BY <2>1, OnlyRemoves
<1>10. QED
  BY <1>1, <1>2, <1>3, <1>4, <1>5, <1>6, <1>7, <1>8, <1>9 DEF Next

LEMMA DeliveryInvariant == Spec => [](IInv /\ DeliveryInv)
<1>1. Init => IInv /\ DeliveryInv
  BY InitIInv, InitDelivery
<1>2. IInv /\ DeliveryInv /\ [Next]_vars => (IInv /\ DeliveryInv)'
  BY NextKeeps, NextDelivers
<1>3. QED
  BY <1>1, <1>2, PTL DEF Spec

(* What the receiver may hold is bounded by the flow; once the flow is done   *)
(* it holds all of it.                                                        *)
LEMMA AllReceived ==
    ASSUME IInv, DeliveryInv, NEW f \in Flows
    PROVE  /\ rcvd[f] \subseteq 0..(Size[f] - 1)
           /\ una[f] = Size[f] => rcvd[f] = 0..(Size[f] - 1)
<1>1. /\ una[f] \in Nat /\ maxNext[f] \in Nat /\ Size[f] \in Nat
      /\ maxNext[f] <= Size[f]
  BY SizeAssumption DEF IInv, TypeOK, Ranges
<1>2. rcvd[f] \subseteq 0..(maxNext[f] - 1) /\ 0..(una[f] - 1) \subseteq rcvd[f]
  BY DEF DeliveryInv
<1>3. rcvd[f] \subseteq 0..(Size[f] - 1)
  <2>1. 0..(maxNext[f] - 1) \subseteq 0..(Size[f] - 1)
    BY <1>1
  <2>2. QED
    BY <1>2, <2>1
<1>4. QED
  BY <1>2, <1>3

-----------------------------------------------------------------------------
(* The sender takes for delivered only what the receiver has, whatever is      *)
(* lost, reordered between paths or resent needlessly; a completed flow has    *)
(* delivered every packet, and its receive QP exists until completion.         *)
THEOREM OnlyDelivered == Spec => []Delivered
<1>1. IInv /\ DeliveryInv => Delivered
  <2> SUFFICES ASSUME IInv, DeliveryInv PROVE Delivered
    OBVIOUS
  <2>1. \A f \in Flows : qp[f] = "done" => rcvd[f] = 0..(Size[f] - 1)
    BY AllReceived DEF DeliveryInv
  <2>2. QED
    BY <2>1 DEF Delivered, DeliveryInv
<1>2. QED
  BY <1>1, DeliveryInvariant, PTL

-----------------------------------------------------------------------------
(* Every step is a step of ReliableTransfer or leaves its variables alone.    *)

LEMMA Stutters == ASSUME qp' = qp, rcvd' = rcvd PROVE [Transfer!Next]_Transfer!vars
BY DEF Transfer!vars

(* The receiver's first copy of a packet is its delivery, a further one       *)
(* changes nothing the application sees.                                      *)
LEMMA ReceiveUdpIsDeliver ==
    ASSUME IInv, DeliveryInv, DeliveryInv', IInv', NEW p \in Paths, ReceiveUdp(p)
    PROVE  [Transfer!Next]_Transfer!vars
<1>1. data[p] \in Seq(Entry) /\ data[p] # <<>>
  BY DEF IInv, TypeOK, ReceiveUdp
<1>2. PICK e \in Entry : e = Head(data[p]) /\ e \in Elems(data[p])
  BY <1>1, TailElems, ElemsAreEntries
<1>3. e.flow \in Flows /\ e.seq \in Nat
  BY <1>2 DEF Entry
<1>4. /\ rx[e.flow] # "finished" /\ qp' = qp
      /\ rcvd' = [rcvd EXCEPT ![e.flow] = rcvd[e.flow] \cup {e.seq}]
  BY <1>2 DEF ReceiveUdp, senderVars
<1>5. qp[e.flow] = "live"
  <2>1. e.seq < maxNext[e.flow]
    BY <1>2 DEF DeliveryInv
  <2>2. qp[e.flow] # "new" /\ qp[e.flow] # "done"
    BY <2>1, <1>3, <1>4 DEF DeliveryInv
  <2>3. QED
    BY <2>2, <1>3 DEF IInv, TypeOK
<1>6. CASE e.seq \in rcvd[e.flow]
  <2>1. rcvd' = rcvd
    BY <1>3, <1>4, <1>6 DEF IInv, TypeOK
  <2>2. QED
    BY <2>1, <1>4, Stutters
<1>7. CASE e.seq \notin rcvd[e.flow]
  <2>1. e.seq \in Transfer!Packets(e.flow) \ rcvd[e.flow]
    <3>1. rcvd'[e.flow] = rcvd[e.flow] \cup {e.seq}
      BY <1>3, <1>4 DEF IInv, TypeOK
    <3>2. rcvd'[e.flow] \subseteq 0..(Size[e.flow] - 1)
      <4>1. /\ maxNext'[e.flow] \in Nat /\ Size[e.flow] \in Nat
            /\ maxNext'[e.flow] <= Size[e.flow]
        BY <1>3, SizeAssumption DEF IInv, TypeOK, Ranges
      <4>2. rcvd'[e.flow] \subseteq 0..(maxNext'[e.flow] - 1)
        BY <1>3 DEF DeliveryInv
      <4>3. QED
        BY <4>1, <4>2
    <3>3. QED
      BY <3>1, <3>2, <1>7 DEF Transfer!Packets
  <2>2. Transfer!Deliver(e.flow)
    BY <2>1, <1>4, <1>5 DEF Transfer!Deliver
  <2>3. QED
    BY <2>2, <1>3 DEF Transfer!Next
<1>8. QED
  BY <1>6, <1>7

(* The ACK that brings snd_una to the end of the flow finishes the transfer.  *)
LEMMA LastAckIsFinish ==
    ASSUME IInv, DeliveryInv, NEW p \in Paths, ReceiveAck(p)
    PROVE  [Transfer!Next]_Transfer!vars
<1>1. PICK f \in Flows, u \in Nat :
        /\ qp[f] = "live" /\ 0..(u - 1) \subseteq rcvd[f] /\ rcvd' = rcvd
        /\ \/ u = Size[f] /\ qp' = [qp EXCEPT ![f] = "done"]
           \/ qp' = qp
  BY ReceiveAckEffect
<1>2. CASE u = Size[f] /\ qp' = [qp EXCEPT ![f] = "done"]
  <2>1. rcvd[f] = Transfer!Packets(f)
    BY <1>1, <1>2, AllReceived DEF Transfer!Packets
  <2>2. Transfer!Finish(f)
    BY <2>1, <1>1, <1>2 DEF Transfer!Finish
  <2>3. QED
    BY <2>2 DEF Transfer!Next
<1>3. CASE qp' = qp
  BY <1>1, <1>3, Stutters
<1>4. QED
  BY <1>1, <1>2, <1>3

LEMMA StepRefines ==
    IInv /\ DeliveryInv /\ [Next]_vars => [Transfer!Next]_Transfer!vars
<1> SUFFICES ASSUME IInv, DeliveryInv, [Next]_vars PROVE [Transfer!Next]_Transfer!vars
  OBVIOUS
<1>0. IInv' /\ DeliveryInv'
  BY NextKeeps, NextDelivers
<1>1. ASSUME NEW f \in Flows, StartFlow(f) PROVE [Transfer!Next]_Transfer!vars
  <2>1. Transfer!Start(f)
    BY <1>1 DEF StartFlow, receiverVars, Transfer!Start
  <2>2. QED
    BY <2>1 DEF Transfer!Next
<1>2. ASSUME NEW f \in Flows, NEW p \in PathsOf[f], SendNew(f, p) \/ Resend(f, p)
      PROVE  [Transfer!Next]_Transfer!vars
  <2>1. qp' = qp /\ rcvd' = rcvd
    BY <1>2 DEF SendNew, Resend, Transmit, receiverVars
  <2>2. QED
    BY <2>1, Stutters
<1>3. ASSUME NEW p \in Paths,
             \/ LoseData(p) \/ LoseAck(p) \/ ReceiveUdpFinished(p)
             \/ ReceiveAckFinished(p) \/ Timeout(p) \/ EarlyTimeout(p)
      PROVE  [Transfer!Next]_Transfer!vars
  <2>1. qp' = qp /\ rcvd' = rcvd
    BY <1>3 DEF LoseData, LoseAck, ReceiveUdpFinished, ReceiveAckFinished,
                Timeout, EarlyTimeout, Expire, senderVars, receiverVars
  <2>2. QED
    BY <2>1, Stutters
<1>4. ASSUME NEW p \in Paths, ReceiveUdp(p) PROVE [Transfer!Next]_Transfer!vars
  BY <1>0, <1>4, ReceiveUdpIsDeliver
<1>5. ASSUME NEW p \in Paths, ReceiveAck(p) PROVE [Transfer!Next]_Transfer!vars
  BY <1>5, LastAckIsFinish
<1>6. CASE UNCHANGED vars
  <2>1. qp' = qp /\ rcvd' = rcvd
    BY <1>6 DEF vars, senderVars, receiverVars
  <2>2. QED
    BY <2>1, Stutters
<1>7. QED
  BY <1>1, <1>2, <1>3, <1>4, <1>5, <1>6 DEF Next

(* The LAPS transport implements a reliable transfer: a flow completes only   *)
(* after every packet reached its receiver, and nothing is delivered to a     *)
(* flow that has not started or has completed.                                *)
THEOREM Refines == Spec => TransferSafe
<1>1. Init => Transfer!Init
  BY DEF Init, Transfer!Init
<1>2. QED
  BY <1>1, StepRefines, DeliveryInvariant, PTL DEF Spec, TransferSafe, Transfer!Spec

-----------------------------------------------------------------------------
(* Why a gap in the ACKs of a path may be read as a loss: as long as no timer  *)
(* expires with packets of its path in flight, what is in flight on a path is  *)
(* an ordered part of the path's outstanding list.                             *)

(* The elements of q occur in r, in the order of q.                            *)
Embeds(q, r) ==
    \E at \in [DOMAIN q -> DOMAIN r] :
        /\ \A i \in DOMAIN q : r[at[i]] = q[i]
        /\ \A i, j \in DOMAIN q : i < j => at[i] < at[j]

-----------------------------------------------------------------------------
(* How the channel operations embed                                           *)

(* To embed q in r it is enough to name the place of each element.            *)
LEMMA EmbedsBy ==
    ASSUME NEW q \in Seq(Entry), NEW r \in Seq(Entry), NEW at,
           at \in [1..Len(q) -> 1..Len(r)],
           \A i \in 1..Len(q) : r[at[i]] = q[i],
           \A i, j \in 1..Len(q) : i < j => at[i] < at[j]
    PROVE  Embeds(q, r)
BY SeqDomain DEF Embeds

LEMMA EmbedsTransitive ==
    ASSUME NEW q \in Seq(Entry), NEW r \in Seq(Entry), NEW s \in Seq(Entry),
           Embeds(q, r), Embeds(r, s)
    PROVE  Embeds(q, s)
<1>0. /\ DOMAIN q = 1..Len(q) /\ DOMAIN r = 1..Len(r) /\ DOMAIN s = 1..Len(s)
  BY SeqDomain
<1>1. PICK a \in [1..Len(q) -> 1..Len(r)] :
        /\ \A i \in 1..Len(q) : r[a[i]] = q[i]
        /\ \A i, j \in 1..Len(q) : i < j => a[i] < a[j]
  BY <1>0 DEF Embeds
<1>2. PICK b \in [1..Len(r) -> 1..Len(s)] :
        /\ \A i \in 1..Len(r) : s[b[i]] = r[i]
        /\ \A i, j \in 1..Len(r) : i < j => b[i] < b[j]
  BY <1>0 DEF Embeds
<1> DEFINE c == [i \in 1..Len(q) |-> b[a[i]]]
<1>3. c \in [1..Len(q) -> 1..Len(s)]
  BY <1>1, <1>2
<1>4. \A i \in 1..Len(q) : s[c[i]] = q[i]
  BY <1>1, <1>2
<1>5. \A i, j \in 1..Len(q) : i < j => c[i] < c[j]
  BY <1>1, <1>2
<1> HIDE DEF c
<1>6. QED
  BY <1>3, <1>4, <1>5, EmbedsBy

(* The places of a concatenation.                                             *)
LEMMA ConcatPlaces ==
    ASSUME NEW a \in Seq(Entry), NEW b \in Seq(Entry)
    PROVE  /\ a \o b \in Seq(Entry)
           /\ Len(a) \in Nat /\ Len(b) \in Nat
           /\ Len(a \o b) = Len(a) + Len(b)
           /\ \A i \in 1..Len(a) : (a \o b)[i] = a[i]
           /\ \A i \in 1..Len(b) : (a \o b)[Len(a) + i] = b[i]
<1>1. Len(a) \in Nat /\ Len(b) \in Nat
  BY LenProperties
<1>2. /\ a \o b \in Seq(Entry)
      /\ Len(a \o b) = Len(a) + Len(b)
      /\ \A j \in 1..(Len(a) + Len(b)) :
            (a \o b)[j] = IF j <= Len(a) THEN a[j] ELSE b[j - Len(a)]
  BY ConcatProperties
<1>3. ASSUME NEW i \in 1..Len(b) PROVE (a \o b)[Len(a) + i] = b[i]
  <2>1. Len(a) + i \in 1..(Len(a) + Len(b)) /\ ~(Len(a) + i <= Len(a))
    BY <1>1
  <2>2. (Len(a) + i) - Len(a) = i
    BY <1>1
  <2>3. QED
    BY <2>1, <2>2, <1>2
<1>4. ASSUME NEW i \in 1..Len(a) PROVE (a \o b)[i] = a[i]
  BY <1>1, <1>2
<1>5. QED
  BY <1>1, <1>2, <1>3, <1>4

LEMMA TailPlaces ==
    ASSUME NEW q \in Seq(Entry), q # <<>>
    PROVE  /\ Tail(q) \in Seq(Entry) /\ Head(q) \in Entry
           /\ Len(q) \in Nat /\ Len(q) >= 1 /\ Len(Tail(q)) = Len(q) - 1
           /\ Head(q) = q[1]
           /\ \A i \in 1..(Len(q) - 1) : Tail(q)[i] = q[i + 1]
<1>1. Len(q) \in Nat /\ Len(q) # 0
  BY LenProperties, EmptySeq
<1>2. /\ Tail(q) \in Seq(Entry) /\ Head(q) \in Entry
      /\ Len(Tail(q)) = Len(q) - 1 /\ Head(q) = q[1]
      /\ \A i \in 1..Len(Tail(q)) : Tail(q)[i] = q[i + 1]
  BY HeadTailProperties
<1>3. QED
  BY <1>1, <1>2

LEMMA AppendPlaces ==
    ASSUME NEW q \in Seq(Entry), NEW e \in Entry
    PROVE  /\ Append(q, e) \in Seq(Entry)
           /\ Len(q) \in Nat /\ Len(Append(q, e)) = Len(q) + 1
           /\ \A i \in 1..Len(q) : Append(q, e)[i] = q[i]
           /\ Append(q, e)[Len(q) + 1] = e
BY LenProperties, AppendProperties

(* Sending: the packet comes last in flight and last in the list.             *)
LEMMA EmbedsAppend ==
    ASSUME NEW q \in Seq(Entry), NEW r \in Seq(Entry), NEW e \in Entry, Embeds(q, r)
    PROVE  Embeds(Append(q, e), Append(r, e))
<1>0. DOMAIN q = 1..Len(q) /\ DOMAIN r = 1..Len(r)
  BY SeqDomain
<1>1. PICK a \in [1..Len(q) -> 1..Len(r)] :
        /\ \A i \in 1..Len(q) : r[a[i]] = q[i]
        /\ \A i, j \in 1..Len(q) : i < j => a[i] < a[j]
  BY <1>0 DEF Embeds
<1>2. /\ Append(q, e) \in Seq(Entry)
      /\ Len(q) \in Nat /\ Len(Append(q, e)) = Len(q) + 1
      /\ \A i \in 1..Len(q) : Append(q, e)[i] = q[i]
      /\ Append(q, e)[Len(q) + 1] = e
  BY AppendPlaces
<1>3. /\ Append(r, e) \in Seq(Entry)
      /\ Len(r) \in Nat /\ Len(Append(r, e)) = Len(r) + 1
      /\ \A i \in 1..Len(r) : Append(r, e)[i] = r[i]
      /\ Append(r, e)[Len(r) + 1] = e
  BY AppendPlaces
<1> DEFINE x == Append(q, e)
           y == Append(r, e)
           n == Len(q)
           m == Len(r)
           c == [i \in 1..(n + 1) |-> IF i = n + 1 THEN m + 1 ELSE a[i]]
<1> HIDE DEF x, y, n, m
<1>4. \A i \in 1..n : i \in 1..(n + 1) /\ c[i] = a[i] /\ c[i] \in 1..m
  BY <1>1, <1>2 DEF n, m
<1>5. c[n + 1] = m + 1
  BY <1>2 DEF n
<1>6. c \in [1..(n + 1) -> 1..(m + 1)]
  <2>1. \A i \in 1..(n + 1) : i = n + 1 \/ i \in 1..n
    BY <1>2 DEF n
  <2>2. m \in Nat /\ 1..m \subseteq 1..(m + 1)
    BY <1>3 DEF m
  <2> HIDE DEF c
  <2>3. \A i \in 1..(n + 1) : c[i] \in 1..(m + 1)
    BY <2>1, <2>2, <1>4, <1>5
  <2>4. QED
    BY <2>3 DEF c
<1> HIDE DEF c
<1>7. ASSUME NEW i \in 1..(n + 1) PROVE y[c[i]] = x[i]
  <2>1. CASE i = n + 1
    <3>1. x[n + 1] = e /\ y[m + 1] = e
      BY <1>2, <1>3 DEF x, y, n, m
    <3>2. QED
      BY <2>1, <3>1, <1>5
  <2>2. CASE i \in 1..n
    <3>1. c[i] = a[i] /\ a[i] \in 1..m
      BY <2>2, <1>4
    <3>2. y[a[i]] = r[a[i]] /\ r[a[i]] = q[i] /\ x[i] = q[i]
      BY <2>2, <3>1, <1>1, <1>2, <1>3 DEF x, y, n, m
    <3>3. QED
      BY <3>1, <3>2
  <2>3. QED
    BY <2>1, <2>2, <1>2 DEF n
<1>8. ASSUME NEW i \in 1..(n + 1), NEW j \in 1..(n + 1), i < j PROVE c[i] < c[j]
  <2>1. i \in 1..n /\ (j = n + 1 \/ j \in 1..n)
    BY <1>2, <1>8 DEF n
  <2>2. CASE j = n + 1
    BY <2>1, <2>2, <1>3, <1>4, <1>5 DEF m
  <2>3. CASE j \in 1..n
    <3>1. a[i] < a[j]
      BY <2>1, <2>3, <1>1, <1>8 DEF n
    <3>2. QED
      BY <2>1, <2>3, <3>1, <1>4
  <2>4. QED
    BY <2>1, <2>2, <2>3
<1>9. Len(x) = n + 1 /\ Len(y) = m + 1 /\ x \in Seq(Entry) /\ y \in Seq(Entry)
  BY <1>2, <1>3 DEF x, y, n, m
<1>10. Embeds(x, y)
  BY <1>6, <1>7, <1>8, <1>9, EmbedsBy
<1>11. QED
  BY <1>10 DEF x, y

(* The new data packet of a path comes after everything in flight on it.       *)
LEMMA SendEmbeds ==
    ASSUME NEW a \in Seq(Entry), NEW b \in Seq(Entry), NEW e \in Entry
    PROVE  Embeds(a \o Append(b, e), Append(a \o b, e))
<1> DEFINE c == a \o b
           x == a \o Append(b, e)
           y == Append(c, e)
           at == [i \in 1..Len(x) |-> i]
<1>1. /\ c \in Seq(Entry) /\ Len(c) = Len(a) + Len(b)
      /\ Len(a) \in Nat /\ Len(b) \in Nat
      /\ \A i \in 1..Len(a) : c[i] = a[i]
      /\ \A i \in 1..Len(b) : c[Len(a) + i] = b[i]
  BY ConcatPlaces
<1>2. /\ Append(b, e) \in Seq(Entry) /\ Len(Append(b, e)) = Len(b) + 1
      /\ \A i \in 1..Len(b) : Append(b, e)[i] = b[i]
      /\ Append(b, e)[Len(b) + 1] = e
  BY AppendPlaces
<1>3. /\ x \in Seq(Entry) /\ Len(x) = Len(a) + Len(Append(b, e))
      /\ \A i \in 1..Len(a) : x[i] = a[i]
      /\ \A i \in 1..Len(Append(b, e)) : x[Len(a) + i] = Append(b, e)[i]
  BY <1>2, ConcatPlaces
<1> HIDE DEF c
<1>4. /\ y \in Seq(Entry) /\ Len(y) = Len(c) + 1
      /\ \A i \in 1..Len(c) : y[i] = c[i]
      /\ y[Len(c) + 1] = e
  BY <1>1, AppendPlaces
<1> HIDE DEF x, y
<1>5. Len(x) = Len(y) /\ Len(x) = Len(a) + Len(b) + 1
  BY <1>1, <1>2, <1>3, <1>4
<1>6. ASSUME NEW i \in 1..Len(x) PROVE y[i] = x[i]
  <2>1. CASE i \in 1..Len(a)
    BY <2>1, <1>1, <1>3, <1>4
  <2>2. CASE i \in (Len(a) + 1)..(Len(a) + Len(b))
    <3>1. PICK j \in 1..Len(b) : i = Len(a) + j
      <4>1. i - Len(a) \in 1..Len(b) /\ i = Len(a) + (i - Len(a))
        BY <2>2, <1>1
      <4>2. QED
        BY <4>1
    <3>2. x[i] = b[j]
      BY <3>1, <1>1, <1>2, <1>3
    <3>3. y[i] = b[j]
      BY <3>1, <1>1, <1>4
    <3>4. QED
      BY <3>2, <3>3
  <2>3. CASE i = Len(a) + Len(b) + 1
    <3>1. x[i] = e
      <4>1. Len(b) + 1 \in 1..Len(Append(b, e)) /\ i = Len(a) + (Len(b) + 1)
        BY <2>3, <1>1, <1>2
      <4>2. QED
        BY <4>1, <1>2, <1>3
    <3>2. y[i] = e
      BY <2>3, <1>1, <1>4
    <3>3. QED
      BY <3>1, <3>2
  <2>4. QED
    BY <2>1, <2>2, <2>3, <1>1, <1>5
<1>7. at \in [1..Len(x) -> 1..Len(y)]
  BY <1>5
<1>8. \A i \in 1..Len(x) : y[at[i]] = x[i]
  BY <1>6
<1>9. \A i, j \in 1..Len(x) : i < j => at[i] < at[j]
  OBVIOUS
<1> HIDE DEF at
<1>10. Embeds(x, y)
  BY <1>3, <1>4, <1>7, <1>8, <1>9, EmbedsBy
<1>11. QED
  BY <1>10 DEF x, y, c

(* The receiver turns the first data packet of a path into its last ACK.      *)
LEMMA ReceiveEmbeds ==
    ASSUME NEW a \in Seq(Entry), NEW b \in Seq(Entry), b # <<>>
    PROVE  Embeds(Append(a, Head(b)) \o Tail(b), a \o b)
<1> DEFINE e == Head(b)
           c == Append(a, e)
           t == Tail(b)
           x == c \o t
           y == a \o b
           at == [i \in 1..Len(x) |-> i]
<1>1. /\ t \in Seq(Entry) /\ e \in Entry
      /\ Len(b) \in Nat /\ Len(b) >= 1 /\ Len(t) = Len(b) - 1
      /\ e = b[1]
      /\ \A i \in 1..(Len(b) - 1) : t[i] = b[i + 1]
  BY TailPlaces
<1> HIDE DEF e, t
<1>2. /\ c \in Seq(Entry)
      /\ Len(a) \in Nat /\ Len(c) = Len(a) + 1
      /\ \A i \in 1..Len(a) : c[i] = a[i]
      /\ c[Len(a) + 1] = e
  BY <1>1, AppendPlaces
<1> HIDE DEF c
<1>3. /\ x \in Seq(Entry) /\ Len(x) = Len(c) + Len(t)
      /\ \A i \in 1..Len(c) : x[i] = c[i]
      /\ \A i \in 1..Len(t) : x[Len(c) + i] = t[i]
  BY <1>1, <1>2, ConcatPlaces
<1>4. /\ y \in Seq(Entry) /\ Len(y) = Len(a) + Len(b)
      /\ \A i \in 1..Len(a) : y[i] = a[i]
      /\ \A i \in 1..Len(b) : y[Len(a) + i] = b[i]
  BY ConcatPlaces
<1> HIDE DEF x, y
<1>5. Len(x) = Len(y)
  BY <1>1, <1>2, <1>3, <1>4
<1>6. ASSUME NEW i \in 1..Len(x) PROVE y[i] = x[i]
  <2>1. CASE i \in 1..Len(a)
    BY <2>1, <1>2, <1>3, <1>4
  <2>2. CASE i = Len(a) + 1
    <3>1. x[i] = e
      BY <2>2, <1>2, <1>3
    <3>2. y[i] = b[1]
      BY <2>2, <1>1, <1>4
    <3>3. QED
      BY <3>1, <3>2, <1>1
  <2>3. CASE i \in (Len(a) + 2)..(Len(a) + Len(b))
    <3>1. PICK j \in 1..(Len(b) - 1) : i = Len(a) + 1 + j
      <4>1. i - Len(a) - 1 \in 1..(Len(b) - 1) /\ i = Len(a) + 1 + (i - Len(a) - 1)
        BY <2>3, <1>1, <1>2
      <4>2. QED
        BY <4>1
    <3>2. x[i] = b[j + 1]
      <4>1. j \in 1..Len(t) /\ i = Len(c) + j
        BY <3>1, <1>1, <1>2
      <4>2. QED
        BY <4>1, <1>1, <1>3
    <3>3. y[i] = b[j + 1]
      <4>1. j + 1 \in 1..Len(b) /\ i = Len(a) + (j + 1)
        BY <3>1, <1>1, <1>2
      <4>2. QED
        BY <4>1, <1>4
    <3>4. QED
      BY <3>2, <3>3
  <2>4. QED
    BY <2>1, <2>2, <2>3, <1>1, <1>2, <1>4, <1>5
<1>7. at \in [1..Len(x) -> 1..Len(y)]
  BY <1>5
<1>8. \A i \in 1..Len(x) : y[at[i]] = x[i]
  BY <1>6
<1>9. \A i, j \in 1..Len(x) : i < j => at[i] < at[j]
  OBVIOUS
<1> HIDE DEF at
<1>10. Embeds(x, y)
  BY <1>3, <1>4, <1>7, <1>8, <1>9, EmbedsBy
<1>11. QED
  BY <1>10 DEF x, y, c, e, t

(* A data packet, or an ACK, leaves its path.                                 *)
LEMMA DataLeaves ==
    ASSUME NEW a \in Seq(Entry), NEW b \in Seq(Entry), b # <<>>
    PROVE  Embeds(a \o Tail(b), a \o b)
<1> DEFINE t == Tail(b)
           x == a \o t
           y == a \o b
           at == [i \in 1..Len(x) |-> IF i <= Len(a) THEN i ELSE i + 1]
<1>1. /\ t \in Seq(Entry)
      /\ Len(b) \in Nat /\ Len(b) >= 1 /\ Len(t) = Len(b) - 1
      /\ \A i \in 1..(Len(b) - 1) : t[i] = b[i + 1]
  BY TailPlaces
<1> HIDE DEF t
<1>2. /\ x \in Seq(Entry) /\ Len(x) = Len(a) + Len(t) /\ Len(a) \in Nat
      /\ \A i \in 1..Len(a) : x[i] = a[i]
      /\ \A i \in 1..Len(t) : x[Len(a) + i] = t[i]
  BY <1>1, ConcatPlaces
<1>3. /\ y \in Seq(Entry) /\ Len(y) = Len(a) + Len(b)
      /\ \A i \in 1..Len(a) : y[i] = a[i]
      /\ \A i \in 1..Len(b) : y[Len(a) + i] = b[i]
  BY ConcatPlaces
<1> HIDE DEF x, y
<1>4. ASSUME NEW i \in 1..Len(x) PROVE y[at[i]] = x[i] /\ at[i] \in 1..Len(y)
  <2>1. CASE i <= Len(a)
    BY <2>1, <1>1, <1>2, <1>3
  <2>2. CASE ~(i <= Len(a))
    <3>1. PICK j \in 1..(Len(b) - 1) : i = Len(a) + j
      <4>1. i - Len(a) \in 1..(Len(b) - 1) /\ i = Len(a) + (i - Len(a))
        BY <2>2, <1>1, <1>2
      <4>2. QED
        BY <4>1
    <3>2. x[i] = b[j + 1]
      BY <3>1, <1>1, <1>2
    <3>3. at[i] = Len(a) + (j + 1) /\ j + 1 \in 1..Len(b)
      BY <2>2, <3>1, <1>1, <1>2
    <3>4. y[Len(a) + (j + 1)] = b[j + 1]
      BY <3>3, <1>3
    <3>5. at[i] \in 1..Len(y)
      BY <3>3, <1>1, <1>2, <1>3
    <3>6. QED
      BY <3>2, <3>3, <3>4, <3>5
  <2>3. QED
    BY <2>1, <2>2
<1>5. at \in [1..Len(x) -> 1..Len(y)]
  BY <1>4
<1>6. \A i \in 1..Len(x) : y[at[i]] = x[i]
  BY <1>4
<1>7. \A i, j \in 1..Len(x) : i < j => at[i] < at[j]
  BY <1>2
<1> HIDE DEF at
<1>8. Embeds(x, y)
  BY <1>2, <1>3, <1>5, <1>6, <1>7, EmbedsBy
<1>9. QED
  BY <1>8 DEF x, y, t

(* The places of what is left of a path when its first ACK is gone.           *)
LEMMA AckLeavesPlaces ==
    ASSUME NEW a \in Seq(Entry), NEW b \in Seq(Entry), a # <<>>
    PROVE  /\ Tail(a) \o b \in Seq(Entry)
           /\ Len(Tail(a) \o b) = Len(a \o b) - 1 /\ Len(a \o b) \in Nat \ {0}
           /\ \A i \in 1..(Len(a \o b) - 1) : (Tail(a) \o b)[i] = (a \o b)[i + 1]
           /\ (a \o b)[1] = Head(a)
<1> DEFINE t == Tail(a)
           x == t \o b
           y == a \o b
<1>1. /\ t \in Seq(Entry) /\ Head(a) = a[1]
      /\ Len(a) \in Nat /\ Len(a) >= 1 /\ Len(t) = Len(a) - 1
      /\ \A i \in 1..(Len(a) - 1) : t[i] = a[i + 1]
  BY TailPlaces
<1> HIDE DEF t
<1>2. /\ x \in Seq(Entry) /\ Len(x) = Len(t) + Len(b)
      /\ \A i \in 1..Len(t) : x[i] = t[i]
      /\ \A i \in 1..Len(b) : x[Len(t) + i] = b[i]
  BY <1>1, ConcatPlaces
<1>3. /\ y \in Seq(Entry) /\ Len(y) = Len(a) + Len(b) /\ Len(b) \in Nat
      /\ \A i \in 1..Len(a) : y[i] = a[i]
      /\ \A i \in 1..Len(b) : y[Len(a) + i] = b[i]
  BY ConcatPlaces
<1> HIDE DEF x, y
<1>4. ASSUME NEW i \in 1..(Len(y) - 1) PROVE x[i] = y[i + 1]
  <2>1. CASE i <= Len(t)
    BY <2>1, <1>1, <1>2, <1>3
  <2>2. CASE ~(i <= Len(t))
    <3>1. PICK j \in 1..Len(b) : i = Len(t) + j
      <4>1. i - Len(t) \in 1..Len(b) /\ i = Len(t) + (i - Len(t))
        BY <2>2, <1>1, <1>3
      <4>2. QED
        BY <4>1
    <3>2. x[i] = b[j]
      BY <3>1, <1>2
    <3>3. i + 1 = Len(a) + j
      BY <3>1, <1>1
    <3>4. QED
      BY <3>2, <3>3, <1>3
  <2>3. QED
    BY <2>1, <2>2
<1>5. /\ x \in Seq(Entry) /\ Len(x) = Len(y) - 1 /\ Len(y) \in Nat \ {0}
      /\ y[1] = Head(a)
  BY <1>1, <1>2, <1>3
<1>6. QED
  BY <1>4, <1>5 DEF x, y, t

LEMMA AckLeaves ==
    ASSUME NEW a \in Seq(Entry), NEW b \in Seq(Entry), a # <<>>
    PROVE  Embeds(Tail(a) \o b, a \o b)
<1> DEFINE x == Tail(a) \o b
           y == a \o b
           at == [i \in 1..Len(x) |-> i + 1]
<1>1. y \in Seq(Entry)
  BY ConcatPlaces
<1>2. /\ x \in Seq(Entry) /\ Len(x) = Len(y) - 1 /\ Len(y) \in Nat \ {0}
      /\ \A i \in 1..(Len(y) - 1) : x[i] = y[i + 1]
  BY AckLeavesPlaces
<1> HIDE DEF x, y
<1>3. at \in [1..Len(x) -> 1..Len(y)]
  BY <1>2
<1>4. \A i \in 1..Len(x) : y[at[i]] = x[i]
  BY <1>2
<1>5. \A i, j \in 1..Len(x) : i < j => at[i] < at[j]
  BY <1>2
<1> HIDE DEF at
<1>6. Embeds(x, y)
  BY <1>1, <1>2, <1>3, <1>4, <1>5, EmbedsBy
<1>7. QED
  BY <1>6 DEF x, y

(* An ACK that finds its packet at place k: the packets listed up to k leave  *)
(* the list, and what is still in flight is an ordered part of the rest.      *)
LEMMA AckEmbeds ==
    ASSUME NEW a \in Seq(Entry), NEW b \in Seq(Entry), a # <<>>,
           NEW r \in Seq(Entry), Embeds(a \o b, r),
           NEW k \in 1..Len(r), r[k] = Head(a),
           \A j \in 1..Len(r) : r[j] = r[k] => j = k
    PROVE  Embeds(Tail(a) \o b, SubSeq(r, k + 1, Len(r)))
<1> DEFINE x == Tail(a) \o b
           y == a \o b
           s == SubSeq(r, k + 1, Len(r))
           N == Len(r)
<1>1. y \in Seq(Entry) /\ N \in Nat /\ \A i \in 1..N : r[i] \in Entry
  BY ConcatPlaces, LenProperties, ElementOfSeq
<1>2. /\ x \in Seq(Entry) /\ Len(x) = Len(y) - 1 /\ Len(y) \in Nat \ {0}
      /\ \A i \in 1..(Len(y) - 1) : x[i] = y[i + 1]
      /\ y[1] = Head(a)
  BY AckLeavesPlaces
<1>3. s \in Seq(Entry) /\ Len(s) = N - k /\ \A i \in 1..(N - k) : s[i] = r[k + i]
  <2>1. \A i \in (k + 1)..N : r[i] \in Entry
    BY <1>1
  <2>2. /\ s \in Seq(Entry)
        /\ Len(s) = IF k + 1 <= N THEN N - (k + 1) + 1 ELSE 0
        /\ \A i \in 1..(N - (k + 1) + 1) : s[i] = r[(k + 1) + i - 1]
    BY <2>1, <1>1, SubSeqProperties
  <2>3. QED
    BY <2>2, <1>1
<1> HIDE DEF x, s
<1>4. PICK at \in [1..Len(y) -> 1..N] :
        /\ \A i \in 1..Len(y) : r[at[i]] = y[i]
        /\ \A i, j \in 1..Len(y) : i < j => at[i] < at[j]
  BY <1>1, SeqDomain DEF Embeds
<1> HIDE DEF y, N
<1>5. at[1] = k
  <2>1. 1 \in 1..Len(y)
    BY <1>2
  <2>2. at[1] \in 1..N /\ r[at[1]] = y[1]
    BY <2>1, <1>4
  <2>3. QED
    BY <2>2, <1>2 DEF N
<1>6. ASSUME NEW i \in 1..(Len(y) - 1)
      PROVE  at[i + 1] \in (k + 1)..N /\ r[at[i + 1]] = x[i]
  <2>1. 1 \in 1..Len(y) /\ i + 1 \in 1..Len(y) /\ 1 < i + 1
    BY <1>2
  <2>2. at[i + 1] \in 1..N /\ at[1] < at[i + 1] /\ r[at[i + 1]] = y[i + 1]
    BY <2>1, <1>4
  <2>3. at[i + 1] \in (k + 1)..N
    BY <2>2, <1>1, <1>5
  <2>4. QED
    BY <2>2, <2>3, <1>2
<1> DEFINE at2 == [i \in 1..Len(x) |-> at[i + 1] - k]
<1>7. k \in Nat
  BY DEF N
<1>8. at2 \in [1..Len(x) -> 1..Len(s)]
  <2>1. ASSUME NEW i \in 1..Len(x) PROVE at[i + 1] - k \in 1..Len(s)
    <3>1. at[i + 1] \in (k + 1)..N
      BY <1>2, <1>6
    <3> DEFINE h == at[i + 1]
    <3> HIDE DEF h
    <3>2. h \in (k + 1)..N
      BY <3>1 DEF h
    <3>3. h - k \in 1..Len(s)
      BY <3>2, <1>1, <1>3, <1>7
    <3>4. QED
      BY <3>3 DEF h
  <2>2. QED
    BY <2>1
<1>9. ASSUME NEW i \in 1..Len(x) PROVE s[at2[i]] = x[i]
  <2> DEFINE h == at[i + 1]
  <2>1. h \in (k + 1)..N /\ r[h] = x[i]
    BY <1>2, <1>6
  <2>2. at2[i] = h - k
    OBVIOUS
  <2> HIDE DEF h, at2
  <2>3. h - k \in 1..(N - k) /\ k + (h - k) = h
    BY <2>1, <1>1, <1>7
  <2>4. s[h - k] = r[h]
    BY <2>3, <1>3
  <2>5. QED
    BY <2>1, <2>2, <2>4
<1>10. ASSUME NEW i \in 1..Len(x), NEW j \in 1..Len(x), i < j PROVE at2[i] < at2[j]
  <2>1. i + 1 \in 1..Len(y) /\ j + 1 \in 1..Len(y) /\ i + 1 < j + 1
    BY <1>2, <1>10
  <2>2. at[i + 1] < at[j + 1] /\ at[i + 1] \in 1..N /\ at[j + 1] \in 1..N
    BY <2>1, <1>4
  <2>3. at[i + 1] - k < at[j + 1] - k
    BY <2>2, <1>1, <1>7
  <2>4. QED
    BY <2>3
<1> HIDE DEF at2
<1>11. Embeds(x, s)
  BY <1>2, <1>3, <1>8, <1>9, <1>10, EmbedsBy
<1>12. QED
  BY <1>11 DEF x, s, N

-----------------------------------------------------------------------------
(* InFlightListed is inductive, given IInv, when no timer expires early.      *)

LEMMA InFlightEmbeds ==
    InFlightListed <=> \A p \in Paths : Embeds(acks[p] \o data[p], outstanding[p])
BY DEF InFlightListed, Embeds

(* A path with nothing in flight and nothing listed.                          *)
LEMMA SilentEmbeds == Embeds(<<>> \o <<>>, <<>>)
<1>1. <<>> \in Seq(Entry) /\ Len(<<>>) = 0
  BY EmptySeq
<1> DEFINE q == <<>> \o <<>>
<1>2. q \in Seq(Entry) /\ Len(q) = 0
  BY <1>1, ConcatProperties
<1> DEFINE at == [i \in 1..Len(q) |-> i]
<1> HIDE DEF q
<1>3. 1..Len(q) = {}
  BY <1>2
<1>4. at \in [1..Len(q) -> 1..Len(<<>>)]
  BY <1>3
<1>5. /\ \A i \in 1..Len(q) : (<<>>)[at[i]] = q[i]
      /\ \A i, j \in 1..Len(q) : i < j => at[i] < at[j]
  BY <1>3
<1> HIDE DEF at
<1>6. Embeds(q, <<>>)
  BY <1>1, <1>2, <1>4, <1>5, EmbedsBy
<1>7. QED
  BY <1>6 DEF q

LEMMA NothingMoves ==
    ASSUME InFlightListed, UNCHANGED <<acks, data, outstanding>>
    PROVE  InFlightListed'
<1>1. ASSUME NEW q \in Paths PROVE Embeds(acks'[q] \o data'[q], outstanding'[q])
  <2>1. Embeds(acks[q] \o data[q], outstanding[q])
    BY InFlightEmbeds
  <2>2. acks'[q] = acks[q] /\ data'[q] = data[q] /\ outstanding'[q] = outstanding[q]
    OBVIOUS
  <2>3. QED
    BY <2>1, <2>2
<1>2. QED
  BY <1>1 DEF InFlightListed, Embeds

LEMMA InitInFlight == Init => InFlightListed
<1> SUFFICES ASSUME Init, NEW p \in Paths
             PROVE  Embeds(acks[p] \o data[p], outstanding[p])
  BY InFlightEmbeds
<1>1. acks[p] = <<>> /\ data[p] = <<>> /\ outstanding[p] = <<>>
  BY DEF Init
<1>2. QED
  BY <1>1, SilentEmbeds

LEMMA TransmitInFlight ==
    ASSUME TypeOK, InFlightListed, NEW f \in Flows, NEW p \in Paths, NEW s \in Nat,
           Transmit(f, p, s)
    PROVE  InFlightListed'
<1> DEFINE e == [flow |-> f, seq |-> s]
<1>1. e \in Entry
  BY DEF Entry
<1>2. /\ outstanding' = [outstanding EXCEPT ![p] = Append(outstanding[p], e)]
      /\ data' = [data EXCEPT ![p] = Append(data[p], e)]
      /\ acks' = acks
  BY DEF Transmit
<1> HIDE DEF e
<1>3. ASSUME NEW q \in Paths PROVE Embeds(acks'[q] \o data'[q], outstanding'[q])
  <2>1. acks[q] \in Seq(Entry) /\ data[q] \in Seq(Entry) /\ outstanding[q] \in Seq(Entry)
    BY DEF TypeOK
  <2>2. Embeds(acks[q] \o data[q], outstanding[q])
    BY InFlightEmbeds
  <2>3. CASE q = p
    <3> DEFINE x == acks[q] \o Append(data[q], e)
               y == Append(acks[q] \o data[q], e)
               z == Append(outstanding[q], e)
    <3>1. acks[q] \o data[q] \in Seq(Entry)
      BY <2>1, ConcatPlaces
    <3>2. Append(data[q], e) \in Seq(Entry) /\ z \in Seq(Entry) /\ y \in Seq(Entry)
      BY <1>1, <2>1, <3>1, AppendPlaces
    <3>3. x \in Seq(Entry)
      BY <2>1, <3>2, ConcatPlaces
    <3>4. Embeds(x, y)
      BY <1>1, <2>1, SendEmbeds
    <3>5. Embeds(y, z)
      BY <1>1, <2>1, <2>2, <3>1, EmbedsAppend
    <3> HIDE DEF x, y, z
    <3>6. Embeds(x, z)
      BY <3>2, <3>3, <3>4, <3>5, EmbedsTransitive
    <3>7. /\ acks'[q] \o data'[q] = x /\ outstanding'[q] = z
      BY <1>2, <2>3 DEF x, z, TypeOK
    <3>8. QED
      BY <3>6, <3>7
  <2>4. CASE q # p
    <3>1. acks'[q] = acks[q] /\ data'[q] = data[q] /\ outstanding'[q] = outstanding[q]
      BY <1>2, <2>4 DEF TypeOK
    <3>2. QED
      BY <2>2, <3>1
  <2>5. QED
    BY <2>3, <2>4
<1>4. QED
  BY <1>3 DEF InFlightListed, Embeds

(* A step that replaces what is in flight on a path by an ordered part of it.  *)
LEMMA ChannelStep ==
    ASSUME TypeOK, TypeOK', InFlightListed, outstanding' = outstanding, NEW p \in Paths,
           Embeds(acks'[p] \o data'[p], acks[p] \o data[p]),
           \A q \in Paths : q # p => acks'[q] = acks[q] /\ data'[q] = data[q]
    PROVE  InFlightListed'
<1>1. ASSUME NEW q \in Paths PROVE Embeds(acks'[q] \o data'[q], outstanding'[q])
  <2>1. Embeds(acks[q] \o data[q], outstanding[q])
    BY InFlightEmbeds
  <2>2. CASE q = p
    <3> DEFINE x == acks'[p] \o data'[p]
               y == acks[p] \o data[p]
               z == outstanding[p]
    <3>1. y \in Seq(Entry)
      <4>1. acks[p] \in Seq(Entry) /\ data[p] \in Seq(Entry)
        BY DEF TypeOK
      <4>2. QED
        BY <4>1, ConcatPlaces
    <3>2. x \in Seq(Entry)
      <4>1. acks'[p] \in Seq(Entry) /\ data'[p] \in Seq(Entry)
        BY DEF TypeOK
      <4>2. QED
        BY <4>1, ConcatPlaces
    <3>3. z \in Seq(Entry)
      BY DEF TypeOK
    <3>4. Embeds(x, y) /\ Embeds(y, z)
      BY <2>1, <2>2
    <3> HIDE DEF x, y, z
    <3>5. Embeds(x, z)
      BY <3>1, <3>2, <3>3, <3>4, EmbedsTransitive
    <3>6. QED
      BY <3>5, <2>2 DEF x, z
  <2>3. CASE q # p
    BY <2>1, <2>3
  <2>4. QED
    BY <2>2, <2>3
<1>2. QED
  BY <1>1 DEF InFlightListed, Embeds

LEMMA ReceiveAckInFlight ==
    ASSUME IInv, InFlightListed, NEW p \in Paths, ReceiveAck(p)
    PROVE  InFlightListed'
<1>1. TypeOK /\ AccountedOnce
  BY DEF IInv
<1> DEFINE r == outstanding[p]
           a == acks[p]
<1>2. r \in Seq(Entry) /\ a \in Seq(Entry) /\ data[p] \in Seq(Entry) /\ a # <<>>
  BY <1>1 DEF TypeOK, ReceiveAck
<1>3. PICK k \in DOMAIN r :
        /\ r[k] = Head(a)
        /\ acks' = [acks EXCEPT ![p] = Tail(a)]
        /\ outstanding' = [outstanding EXCEPT ![p] = SubSeq(r, k + 1, Len(r))]
        /\ data' = data
  BY DEF ReceiveAck
<1>4. k \in 1..Len(r)
  BY <1>2, SeqDomain
<1>5. \A j \in 1..Len(r) : r[j] = r[k] => j = k
  BY <1>1, <1>4 DEF AccountedOnce, ListedAtMostOnce
<1>6. Embeds(a \o data[p], r)
  BY InFlightEmbeds
<1>7. Embeds(Tail(a) \o data[p], SubSeq(r, k + 1, Len(r)))
  <2> HIDE DEF a, r
  <2>1. QED
    BY <1>2, <1>3, <1>4, <1>5, <1>6, AckEmbeds
<1>8. ASSUME NEW q \in Paths PROVE Embeds(acks'[q] \o data'[q], outstanding'[q])
  <2>1. CASE q = p
    BY <2>1, <1>1, <1>3, <1>7 DEF TypeOK
  <2>2. CASE q # p
    <3>1. acks'[q] = acks[q] /\ data'[q] = data[q] /\ outstanding'[q] = outstanding[q]
      BY <2>2, <1>1, <1>3 DEF TypeOK
    <3>2. QED
      BY <3>1, InFlightEmbeds
  <2>3. QED
    BY <2>1, <2>2
<1>9. QED
  BY <1>8 DEF InFlightListed, Embeds

LEMMA NextInFlight ==
    ASSUME MaxEarly = 0
    PROVE  IInv /\ InFlightListed /\ [Next]_vars => InFlightListed'
<1> SUFFICES ASSUME IInv, InFlightListed, [Next]_vars PROVE InFlightListed'
  OBVIOUS
<1>0. TypeOK /\ TypeOK' /\ AccountedOnce
  BY NextKeeps DEF IInv
<1>1. ASSUME NEW f \in Flows, StartFlow(f) PROVE InFlightListed'
  BY <1>1, NothingMoves DEF StartFlow, networkVars
<1>2. ASSUME NEW f \in Flows, NEW p \in PathsOf[f], SendNew(f, p) PROVE InFlightListed'
  <2>1. p \in Paths /\ maxNext[f] \in Nat /\ Transmit(f, p, maxNext[f])
    BY <1>0, <1>2, PathsAssumption DEF SendNew, TypeOK
  <2>2. QED
    BY <2>1, <1>0, TransmitInFlight
<1>3. ASSUME NEW f \in Flows, NEW p \in PathsOf[f], Resend(f, p) PROVE InFlightListed'
  <2> DEFINE s == lossy[NextLossy(f)].seq
  <2>1. p \in Paths /\ Transmit(f, p, s)
    BY <1>3, PathsAssumption DEF Resend
  <2>2. s \in Nat
    <3>1. NextLossy(f) \in 1..Len(lossy)
      BY <1>0, <1>3, NextLossyExists DEF Resend, TypeOK
    <3>2. lossy[NextLossy(f)] \in Entry
      BY <3>1, <1>0, ElementOfSeq DEF TypeOK
    <3>3. QED
      BY <3>2 DEF Entry
  <2> HIDE DEF s
  <2>3. QED
    BY <2>1, <2>2, <1>0, TransmitInFlight
<1>4. ASSUME NEW p \in Paths, LoseData(p) \/ ReceiveUdpFinished(p) PROVE InFlightListed'
  <2>1. /\ data[p] # <<>> /\ data' = [data EXCEPT ![p] = Tail(data[p])]
        /\ UNCHANGED <<acks, outstanding>>
    BY <1>4 DEF LoseData, ReceiveUdpFinished, senderVars
  <2>2. acks[p] \in Seq(Entry) /\ data[p] \in Seq(Entry)
    BY <1>0 DEF TypeOK
  <2>3. Embeds(acks[p] \o Tail(data[p]), acks[p] \o data[p])
    BY <2>1, <2>2, DataLeaves
  <2>4. /\ acks'[p] = acks[p] /\ data'[p] = Tail(data[p])
        /\ \A q \in Paths : q # p => acks'[q] = acks[q] /\ data'[q] = data[q]
    BY <2>1, <1>0 DEF TypeOK
  <2>5. Embeds(acks'[p] \o data'[p], acks[p] \o data[p])
    BY <2>3, <2>4
  <2>6. QED
    BY <2>1, <2>4, <2>5, <1>0, ChannelStep
<1>5. ASSUME NEW p \in Paths, LoseAck(p) \/ ReceiveAckFinished(p) PROVE InFlightListed'
  <2>1. /\ acks[p] # <<>> /\ acks' = [acks EXCEPT ![p] = Tail(acks[p])]
        /\ UNCHANGED <<data, outstanding>>
    BY <1>5 DEF LoseAck, ReceiveAckFinished, senderVars
  <2>2. acks[p] \in Seq(Entry) /\ data[p] \in Seq(Entry)
    BY <1>0 DEF TypeOK
  <2>3. Embeds(Tail(acks[p]) \o data[p], acks[p] \o data[p])
    BY <2>1, <2>2, AckLeaves
  <2>4. /\ acks'[p] = Tail(acks[p]) /\ data'[p] = data[p]
        /\ \A q \in Paths : q # p => acks'[q] = acks[q] /\ data'[q] = data[q]
    BY <2>1, <1>0 DEF TypeOK
  <2>5. Embeds(acks'[p] \o data'[p], acks[p] \o data[p])
    BY <2>3, <2>4
  <2>6. QED
    BY <2>1, <2>4, <2>5, <1>0, ChannelStep
<1>6. ASSUME NEW p \in Paths, ReceiveUdp(p) PROVE InFlightListed'
  <2>1. /\ data[p] # <<>> /\ data' = [data EXCEPT ![p] = Tail(data[p])]
        /\ acks' = [acks EXCEPT ![p] = Append(acks[p], Head(data[p]))]
        /\ outstanding' = outstanding
    BY <1>6 DEF ReceiveUdp, senderVars
  <2>2. acks[p] \in Seq(Entry) /\ data[p] \in Seq(Entry)
    BY <1>0 DEF TypeOK
  <2>3. Embeds(Append(acks[p], Head(data[p])) \o Tail(data[p]), acks[p] \o data[p])
    BY <2>1, <2>2, ReceiveEmbeds
  <2>4. /\ acks'[p] = Append(acks[p], Head(data[p])) /\ data'[p] = Tail(data[p])
        /\ \A q \in Paths : q # p => acks'[q] = acks[q] /\ data'[q] = data[q]
    BY <2>1, <1>0 DEF TypeOK
  <2>5. Embeds(acks'[p] \o data'[p], acks[p] \o data[p])
    BY <2>3, <2>4
  <2>6. QED
    BY <2>1, <2>4, <2>5, <1>0, ChannelStep
<1>7. ASSUME NEW p \in Paths, ReceiveAck(p) PROVE InFlightListed'
  BY <1>7, ReceiveAckInFlight
<1>8. ASSUME NEW p \in Paths, Timeout(p) PROVE InFlightListed'
  <2>1. /\ data[p] = <<>> /\ acks[p] = <<>> /\ UNCHANGED <<data, acks>>
        /\ outstanding' = [outstanding EXCEPT ![p] = <<>>]
    BY <1>8 DEF Timeout, Expire
  <2>2. ASSUME NEW q \in Paths PROVE Embeds(acks'[q] \o data'[q], outstanding'[q])
    <3>1. CASE q = p
      <4>1. acks'[q] = <<>> /\ data'[q] = <<>> /\ outstanding'[q] = <<>>
        BY <2>1, <3>1, <1>0 DEF TypeOK
      <4>2. QED
        BY <4>1, SilentEmbeds
    <3>2. CASE q # p
      <4>1. acks'[q] = acks[q] /\ data'[q] = data[q] /\ outstanding'[q] = outstanding[q]
        BY <2>1, <3>2, <1>0 DEF TypeOK
      <4>2. QED
        BY <4>1, InFlightEmbeds
    <3>3. QED
      BY <3>1, <3>2
  <2>3. QED
    BY <2>2 DEF InFlightListed, Embeds
<1>9. ASSUME NEW p \in Paths, EarlyTimeout(p) PROVE FALSE
  BY <1>0, <1>9 DEF EarlyTimeout, TypeOK
<1>10. CASE UNCHANGED vars
  BY <1>10, NothingMoves DEF vars, senderVars, networkVars
<1>11. QED
  BY <1>1, <1>2, <1>3, <1>4, <1>5, <1>6, <1>7, <1>8, <1>9, <1>10 DEF Next

LEMMA InFlightInvariant ==
    ASSUME MaxEarly = 0
    PROVE  Spec => [](IInv /\ DeliveryInv /\ InFlightListed)
<1>1. Init => InFlightListed
  BY InitInFlight
<1>2. IInv /\ InFlightListed /\ [Next]_vars => InFlightListed'
  BY NextInFlight
<1>3. QED
  BY <1>1, <1>2, DeliveryInvariant, PTL DEF Spec

-----------------------------------------------------------------------------
(* Without early timeouts, what is in flight on a path (its ACKs, then its    *)
(* data) is an ordered part of the path's outstanding list.                   *)
THEOREM InFlightOrdered ==
    ASSUME MaxEarly = 0
    PROVE  Spec => []InFlightListed
BY InFlightInvariant, PTL

(* A packet in flight is outstanding on its path.                             *)
LEMMA InFlightOutstanding ==
    ASSUME TypeOK, InFlightListed, NEW p \in Paths,
           NEW e \in Elems(data[p]) \cup Elems(acks[p])
    PROVE  \E i \in 1..Len(outstanding[p]) : outstanding[p][i] = e
<1> DEFINE a == acks[p]
           b == data[p]
           q == a \o b
<1>0. e \in Elems(b) \cup Elems(a)
  OBVIOUS
<1>1. a \in Seq(Entry) /\ b \in Seq(Entry) /\ outstanding[p] \in Seq(Entry)
  BY DEF TypeOK
<1>2. /\ q \in Seq(Entry)
      /\ Len(a) \in Nat /\ Len(b) \in Nat
      /\ Len(q) = Len(a) + Len(b)
      /\ \A i \in 1..Len(a) : q[i] = a[i]
      /\ \A i \in 1..Len(b) : q[Len(a) + i] = b[i]
  BY <1>1, ConcatPlaces
<1>3. Embeds(q, outstanding[p])
  BY InFlightEmbeds
<1> HIDE DEF q, a, b
<1>4. PICK i \in 1..Len(q) : q[i] = e
  <2>1. CASE e \in Elems(a)
    <3>1. PICK i \in 1..Len(a) : a[i] = e
      BY <2>1, <1>1, SeqDomain DEF Elems
    <3>2. i \in 1..Len(q) /\ q[i] = e
      BY <3>1, <1>2
    <3>3. QED
      BY <3>2
  <2>2. CASE e \in Elems(b)
    <3>1. PICK i \in 1..Len(b) : b[i] = e
      BY <2>2, <1>1, SeqDomain DEF Elems
    <3>2. Len(a) + i \in 1..Len(q) /\ q[Len(a) + i] = e
      BY <3>1, <1>2
    <3>3. QED
      BY <3>2
  <2>3. QED
    BY <1>0, <2>1, <2>2
<1>5. DOMAIN q = 1..Len(q) /\ DOMAIN outstanding[p] = 1..Len(outstanding[p])
  BY <1>1, <1>2, SeqDomain
<1>6. PICK at \in [DOMAIN q -> DOMAIN outstanding[p]] :
        \A j \in DOMAIN q : outstanding[p][at[j]] = q[j]
  BY <1>3 DEF Embeds
<1>7. at[i] \in 1..Len(outstanding[p]) /\ outstanding[p][at[i]] = e
  BY <1>4, <1>5, <1>6
<1>8. QED
  BY <1>7

(* A packet the sender takes for lost has left the network: nothing is resent *)
(* while a copy of it, or the ACK of a copy, is still on its way.             *)
THEOREM LossesAreReal ==
    ASSUME MaxEarly = 0
    PROVE  Spec => []NoFalseLoss
<1>1. IInv /\ InFlightListed => NoFalseLoss
  <2> SUFFICES ASSUME IInv, InFlightListed, NEW e \in Elems(lossy), e \in InFlight
               PROVE  FALSE
    BY DEF NoFalseLoss
  <2>1. TypeOK /\ AccountedOnce
    BY DEF IInv
  <2>2. PICK p \in Paths : e \in Elems(data[p]) \cup Elems(acks[p])
    BY DEF InFlight
  <2>3. PICK i \in 1..Len(outstanding[p]) : outstanding[p][i] = e
    BY <2>1, <2>2, InFlightOutstanding
  <2>4. PICK j \in 1..Len(lossy) : lossy[j] = e
    BY <2>1, SeqDomain DEF Elems, TypeOK
  <2>5. QED
    BY <2>1, <2>3, <2>4 DEF AccountedOnce, ListedAtMostOnce
<1>2. QED
  BY <1>1, InFlightInvariant, PTL

(* A completed flow leaves nothing behind: no packet, no ACK, no list entry.  *)
THEOREM DoneIsQuiescent ==
    ASSUME MaxEarly = 0
    PROVE  Spec => []QuiescentWhenDone
<1>1. IInv /\ DeliveryInv /\ InFlightListed => QuiescentWhenDone
  <2> SUFFICES ASSUME IInv, DeliveryInv, InFlightListed,
                      NEW f \in Flows, qp[f] = "done",
                      NEW e \in InFlight \cup Listed \cup Elems(lossy), e.flow = f
               PROVE  FALSE
    BY DEF QuiescentWhenDone
  <2>1. TypeOK /\ Ranges /\ AccountedOnce
    BY DEF IInv
  <2>2. Unacked(f) = {}
    <3>1. una[f] = Size[f] /\ maxNext[f] <= Size[f]
      BY <2>1 DEF DeliveryInv, Ranges
    <3>2. maxNext[f] \in Nat /\ Size[f] \in Nat
      BY <2>1, SizeAssumption DEF TypeOK
    <3>3. una[f]..(maxNext[f] - 1) = {}
      BY <3>1, <3>2
    <3>4. QED
      BY <3>3 DEF Unacked
  <2>3. ~IsUnacked(e)
    BY <2>2 DEF IsUnacked
  <2>4. ASSUME NEW p \in Paths, NEW i \in 1..Len(outstanding[p]), outstanding[p][i] = e
        PROVE  FALSE
    BY <2>1, <2>3, <2>4 DEF AccountedOnce, OnlyUnackedListed
  <2>5. CASE e \in InFlight
    <3>1. PICK p \in Paths : e \in Elems(data[p]) \cup Elems(acks[p])
      BY <2>5 DEF InFlight
    <3>2. QED
      BY <3>1, <2>1, <2>4, InFlightOutstanding
  <2>6. CASE e \in Listed
    <3>1. PICK p \in Paths : e \in Elems(outstanding[p])
      BY <2>6 DEF Listed
    <3>2. outstanding[p] \in Seq(Entry)
      BY <2>1 DEF TypeOK
    <3>3. PICK i \in 1..Len(outstanding[p]) : outstanding[p][i] = e
      BY <3>1, <3>2, SeqDomain DEF Elems
    <3>4. QED
      BY <3>3, <2>4
  <2>7. CASE e \in Elems(lossy)
    <3>1. PICK j \in 1..Len(lossy) : lossy[j] = e
      BY <2>1, <2>7, SeqDomain DEF Elems, TypeOK
    <3>2. QED
      BY <3>1, <2>1, <2>3 DEF AccountedOnce, OnlyUnackedListed
  <2>8. QED
    BY <2>5, <2>6, <2>7
<1>2. QED
  BY <1>1, InFlightInvariant, PTL

(* ReceiveAckForLaps finds the packet an ACK names outstanding on the ACK's   *)
(* path ("Invalid outstanding data"), as long as no timer expires early.      *)
THEOREM AckIsExpected ==
    ASSUME MaxEarly = 0
    PROVE  Spec => []AckFindsEntry
<1>1. IInv /\ InFlightListed => AckFindsEntry
  <2> SUFFICES ASSUME IInv, InFlightListed, NEW p \in Paths, acks[p] # <<>>
               PROVE  Head(acks[p]) \in Elems(outstanding[p])
    BY DEF AckFindsEntry
  <2>1. TypeOK
    BY DEF IInv
  <2>2. acks[p] \in Seq(Entry) /\ outstanding[p] \in Seq(Entry)
    BY <2>1 DEF TypeOK
  <2>3. Head(acks[p]) \in Elems(acks[p])
    BY <2>2, TailElems
  <2>4. PICK i \in 1..Len(outstanding[p]) : outstanding[p][i] = Head(acks[p])
    BY <2>1, <2>3, InFlightOutstanding
  <2>5. QED
    BY <2>2, <2>4, SeqDomain DEF Elems
<1>2. QED
  BY <1>1, InFlightInvariant, PTL

-----------------------------------------------------------------------------
(* The block list (IrnSackManager): what LapsTransport keeps as the set sacked *)
(* is a list of blocks, and the list is that set, for every length of the flow *)
(* and every order in which packets are acknowledged.                          *)

(* Left folds.                                                                 *)

(* A nonempty set of positions has a maximum.                                  *)
LEMMA MaxIn ==
    ASSUME NEW k \in Nat, NEW s \in SUBSET (1..k), s # {}
    PROVE  Max(s) \in s /\ \A y \in s : y <= Max(s)
<1> DEFINE T == {k - x : x \in s}
<1>1. T \in SUBSET Nat /\ T # {}
  <2>1. \A x \in s : k - x \in Nat
    OBVIOUS
  <2>2. QED
    BY <2>1
<1>2. PICK m \in T : \A n \in T : m <= n
  <2> HIDE DEF T
  <2>1. QED
    BY <1>1, LeastNat
<1>3. PICK x \in s : m = k - x
  BY <1>2
<1>4. \A y \in s : y <= x
  <2> SUFFICES ASSUME NEW y \in s PROVE y <= x
    OBVIOUS
  <2>1. k - y \in T
    OBVIOUS
  <2>2. m <= k - y
    BY <1>2, <2>1
  <2>3. x \in Nat /\ y \in Nat
    OBVIOUS
  <2> HIDE DEF T
  <2>4. QED
    BY <1>3, <2>2, <2>3
<1>5. \E z \in s : \A y \in s : z >= y
  BY <1>4
<1>6. Max(s) \in s /\ \A y \in s : Max(s) >= y
  BY <1>5 DEF Max
<1>7. QED
  BY <1>6

(* The last of the first k positions.                                          *)
LEMMA MaxPrefix ==
    ASSUME NEW k \in Nat \ {0}
    PROVE  Max(1..k) = k /\ (1..k) \ {Max(1..k)} = 1..(k - 1)
<1>1. Max(1..k) \in 1..k /\ \A y \in 1..k : y <= Max(1..k)
  <2>1. 1..k \in SUBSET (1..k) /\ 1..k # {} /\ k \in Nat
    OBVIOUS
  <2>2. QED
    BY <2>1, MaxIn
<1>2. Max(1..k) = k
  BY <1>1
<1>3. (1..k) \ {k} = 1..(k - 1)
  OBVIOUS
<1>4. QED
  BY <1>2, <1>3

Folds(h, n, T, base, F) ==
    /\ h \in [SUBSET (1..n) -> T]
    /\ \A s \in SUBSET (1..n) :
          h[s] = IF s = {} THEN base ELSE F[<<h[s \ {Max(s)}], Max(s)>>]

(* The function that a left fold builds over the sets of positions exists, for *)
(* an operation F of the value so far and the position.                        *)
LEMMA FoldExists ==
    ASSUME NEW n \in Nat, NEW T, NEW base \in T, NEW F \in [T \X (1..n) -> T]
    PROVE  \E h : Folds(h, n, T, base, F)
<1> DEFINE Rec(h, s) == IF s = {} THEN base ELSE F[<<h[s \ {Max(s)}], Max(s)>>]
           Fits(h, k) == h \in [SUBSET (1..k) -> T] /\ \A s \in SUBSET (1..k) : h[s] = Rec(h, s)
           Bad == {k \in Nat : k <= n /\ ~(\E h : Fits(h, k))}
<1>1. ASSUME NEW k \in Nat, k <= n, k = 0 \/ k - 1 \notin Bad
      PROVE  \E h : Fits(h, k)
  <2>1. CASE k = 0
    <3> DEFINE h == [s \in SUBSET (1..k) |-> base]
    <3>1. \A s \in SUBSET (1..k) : s = {}
      BY <2>1
    <3>2. Fits(h, k)
      BY <3>1
    <3> HIDE DEF h, Fits
    <3>3. QED
      BY <3>2
  <2>2. CASE k # 0
    <3>1. k - 1 \in Nat /\ k - 1 <= n
      BY <1>1, <2>2
    <3>2. PICK g : Fits(g, k - 1)
      <4> HIDE DEF Fits
      <4>1. QED
        BY <1>1, <2>2, <3>1
    <3> DEFINE h == [s \in SUBSET (1..k) |-> Rec(g, s)]
    <3>3. ASSUME NEW s \in SUBSET (1..k) PROVE h[s] = Rec(h, s) /\ h[s] \in T
      <4>1. CASE s = {}
        BY <4>1
      <4>2. CASE s # {}
        <5> DEFINE t == s \ {Max(s)}
        <5>1. Max(s) \in s /\ (\A y \in s : y <= Max(s)) /\ Max(s) \in 1..k
          BY <4>2, MaxIn
        <5>2. t \in SUBSET (1..(k - 1))
          <6> SUFFICES ASSUME NEW y \in t PROVE y \in 1..(k - 1)
            OBVIOUS
          <6>1. y \in 1..k /\ y <= Max(s) /\ y # Max(s)
            BY <5>1
          <6>2. QED
            BY <5>1, <6>1
        <5>3. g[t] = Rec(g, t) /\ g[t] \in T
          BY <3>2, <5>2
        <5>4. t \in SUBSET (1..k)
          BY <3>3
        <5>5. h[t] = Rec(g, t)
          BY <5>4
        <5>6. h[s] = F[<<g[t], Max(s)>>]
          BY <4>2
        <5>7. Rec(h, s) = F[<<h[t], Max(s)>>]
          BY <4>2
        <5>8. Max(s) \in 1..n
          BY <1>1, <5>1
        <5> HIDE DEF h, Rec, t
        <5>9. QED
          BY <5>3, <5>5, <5>6, <5>7, <5>8
      <4>3. QED
        BY <4>1, <4>2
    <3>4. h \in [SUBSET (1..k) -> T]
      BY <3>3
    <3>5. Fits(h, k)
      BY <3>3, <3>4
    <3> HIDE DEF h, Fits
    <3>6. QED
      BY <3>5
  <2>3. QED
    BY <2>1, <2>2
<1>2. Bad = {}
  <2>1. SUFFICES ASSUME Bad # {} PROVE FALSE
    OBVIOUS
  <2>2. Bad \in SUBSET Nat /\ \A k \in Bad : k <= n
    OBVIOUS
  <2>3. \A k \in Bad : ~(\E h : Fits(h, k))
    OBVIOUS
  <2> HIDE DEF Bad, Fits
  <2>4. PICK k \in Bad : \A m \in Bad : k <= m
    BY <2>1, <2>2, LeastNat
  <2>5. k \in Nat /\ k <= n /\ k - 1 \notin Bad
    BY <2>2, <2>4
  <2>6. \E h : Fits(h, k)
    BY <1>1, <2>5
  <2>7. QED
    BY <2>3, <2>4, <2>6
<1>3. PICK h : Fits(h, n)
  <2> HIDE DEF Fits
  <2>1. QED
    BY <1>2
<1>4. QED
  BY <1>3 DEF Folds

-----------------------------------------------------------------------------
(* Lists of blocks.                                                            *)

Blocks == [first : Int, len : Int]

\* n is in one of the first k blocks of a list.
InFirst(list, k, n) == \E j \in 1..k : list[j].first <= n /\ n < End(list[j])
In(list, n) == InFirst(list, Len(list), n)

\* Blocks in order, not empty, not overlapping; Gapped: nor adjacent.
InOrder(list) ==
    /\ \A j \in 1..Len(list) : list[j].len > 0
    /\ \A i, j \in 1..Len(list) : i < j => End(list[i]) <= list[j].first
Gapped(list) ==
    /\ \A j \in 1..Len(list) : list[j].len > 0
    /\ \A i, j \in 1..Len(list) : i < j => End(list[i]) < list[j].first

\* What a turn of the insertion loop starts and ends with.
States == [seq : Int, sz : Int, out : Seq(Blocks), over : BOOLEAN, merge : BOOLEAN]

LEMMA BlockFacts ==
    /\ \A f, l \in Int : /\ Block(f, l) \in Blocks /\ Block(f, l).first = f
                         /\ Block(f, l).len = l /\ End(Block(f, l)) = f + l
    /\ \A b \in Blocks : b.first \in Int /\ b.len \in Int /\ End(b) \in Int
                         /\ End(b) = b.first + b.len
BY DEF Block, End, Blocks

(* A block at the end of a list.                                               *)
LEMMA AppendBlock ==
    ASSUME NEW s \in Seq(Blocks), NEW b \in Blocks, b.len > 0,
           \A j \in 1..Len(s) : End(s[j]) <= b.first
    PROVE  /\ Append(s, b) \in Seq(Blocks)
           /\ InOrder(s) => InOrder(Append(s, b))
           /\ Gapped(s) /\ (\A j \in 1..Len(s) : End(s[j]) < b.first) => Gapped(Append(s, b))
           /\ \A n \in Int : In(Append(s, b), n) <=> In(s, n) \/ (b.first <= n /\ n < End(b))
           /\ \A j \in 1..Len(Append(s, b)) : End(Append(s, b)[j]) <= End(b)
<1> DEFINE t == Append(s, b)
           m == Len(s)
<1>1. /\ t \in Seq(Blocks) /\ Len(t) = m + 1 /\ t[m + 1] = b /\ m \in Nat
      /\ \A j \in 1..m : t[j] = s[j] /\ s[j] \in Blocks
  BY AppendProperties, LenProperties, ElementOfSeq
<1> HIDE DEF t, m
<1>2. \A j \in 1..(m + 1) : j \in 1..m \/ j = m + 1
  BY <1>1
<1>3. \A j \in 1..m : j \in 1..(m + 1) /\ j < m + 1
  BY <1>1
<1>4. /\ b.first \in Int /\ End(b) \in Int /\ b.first < End(b)
      /\ \A j \in 1..m : End(s[j]) \in Int /\ End(s[j]) <= b.first
  <2>1. b.first \in Int /\ End(b) \in Int /\ End(b) = b.first + b.len /\ b.len \in Int
    BY BlockFacts
  <2>2. \A j \in 1..m : End(s[j]) \in Int
    BY <1>1, BlockFacts
  <2>3. \A j \in 1..m : End(s[j]) <= b.first
    BY DEF m
  <2>4. QED
    BY <2>1, <2>2, <2>3
<1>5. \A i, j \in 1..(m + 1) : i < j => i \in 1..m
  BY <1>1
<1>6. ASSUME InOrder(s) PROVE InOrder(t)
  <2>1. \A j \in 1..Len(t) : t[j].len > 0
    BY <1>1, <1>2, <1>6 DEF InOrder, m
  <2>2. ASSUME NEW i \in 1..Len(t), NEW j \in 1..Len(t), i < j
        PROVE  End(t[i]) <= t[j].first
    BY <1>1, <1>2, <1>4, <1>5, <1>6, <2>2 DEF InOrder, m
  <2>3. QED
    BY <2>1, <2>2 DEF InOrder
<1>7. ASSUME Gapped(s), \A j \in 1..m : End(s[j]) < b.first PROVE Gapped(t)
  <2>1. \A j \in 1..Len(t) : t[j].len > 0
    BY <1>1, <1>2, <1>7 DEF Gapped, m
  <2>2. ASSUME NEW i \in 1..Len(t), NEW j \in 1..Len(t), i < j
        PROVE  End(t[i]) < t[j].first
    BY <1>1, <1>2, <1>4, <1>5, <1>7, <2>2 DEF Gapped, m
  <2>3. QED
    BY <2>1, <2>2 DEF Gapped
<1>8. ASSUME NEW n \in Int
      PROVE  In(t, n) <=> In(s, n) \/ (b.first <= n /\ n < End(b))
  <2>1. ASSUME In(t, n) PROVE In(s, n) \/ (b.first <= n /\ n < End(b))
    <3>1. PICK j \in 1..(m + 1) : t[j].first <= n /\ n < End(t[j])
      BY <2>1, <1>1 DEF In, InFirst
    <3>2. QED
      BY <3>1, <1>1, <1>2 DEF In, InFirst, m
  <2>2. ASSUME In(s, n) PROVE In(t, n)
    <3>1. PICK j \in 1..m : s[j].first <= n /\ n < End(s[j])
      BY <2>2 DEF In, InFirst, m
    <3>2. QED
      BY <3>1, <1>1, <1>3 DEF In, InFirst
  <2>3. ASSUME b.first <= n, n < End(b) PROVE In(t, n)
    <3>1. m + 1 \in 1..Len(t)
      BY <1>1
    <3>2. QED
      BY <3>1, <2>3, <1>1 DEF In, InFirst
  <2>4. QED
    BY <2>1, <2>2, <2>3
<1>9. ASSUME NEW j \in 1..Len(t) PROVE End(t[j]) <= End(b)
  BY <1>1, <1>2, <1>4
<1>10. QED
  BY <1>1, <1>6, <1>7, <1>8, <1>9 DEF t, m

(* One block, and two, added by concatenation.                                 *)
LEMMA ConcatBlocks ==
    ASSUME NEW s \in Seq(Blocks), NEW a \in Blocks, NEW b \in Blocks
    PROVE  s \o <<a>> = Append(s, a) /\ s \o <<a, b>> = Append(Append(s, a), b)
<1>1. s \o <<a>> = Append(s, a)
  BY AppendIsConcat
<1>2. Append(s, a) \in Seq(Blocks) /\ <<a>> \in Seq(Blocks) /\ <<b>> \in Seq(Blocks)
  BY AppendProperties
<1>3. Append(Append(s, a), b) = (s \o <<a>>) \o <<b>>
  BY <1>1, <1>2, AppendIsConcat
<1>4. (s \o <<a>>) \o <<b>> = s \o (<<a>> \o <<b>>)
  BY <1>2, ConcatAssociative
<1>5. <<a>> \o <<b>> = <<a, b>>
  <2> DEFINE u == <<a>> \o <<b>>
  <2>1. Len(<<a>>) = 1 /\ Len(<<b>>) = 1 /\ <<a>>[1] = a /\ <<b>>[1] = b
    OBVIOUS
  <2>2. /\ u \in Seq(Blocks) /\ Len(u) = Len(<<a>>) + Len(<<b>>)
        /\ \A i \in 1..(Len(<<a>>) + Len(<<b>>)) :
              u[i] = IF i <= Len(<<a>>) THEN <<a>>[i] ELSE <<b>>[i - Len(<<a>>)]
    BY <1>2, ConcatProperties
  <2> HIDE DEF u
  <2>3. Len(u) = 2 /\ u[1] = a /\ u[2] = b
    BY <2>1, <2>2
  <2>4. <<a, b>> \in Seq(Blocks) /\ Len(<<a, b>>) = 2
        /\ \A i \in 1..2 : u[i] = <<a, b>>[i]
    BY <2>3
  <2>5. u = <<a, b>>
    BY <2>2, <2>3, <2>4, SeqEqual
  <2>6. QED
    BY <2>5 DEF u
<1>6. QED
  BY <1>1, <1>3, <1>4, <1>5

(* What a turn of the insertion loop does.                                     *)
Puts(st, r, b) ==
    /\ r.out = Append(st.out, b) /\ r.seq = st.seq /\ r.sz = st.sz
    /\ r.over = st.over /\ r.merge = st.merge
Goes(st, r, b) ==
    /\ r.seq = End(b) /\ r.sz = (st.seq + st.sz) - End(b) /\ r.sz > 0
    /\ r.over = st.over /\ r.merge = st.merge
Leaves(st, r) == r.seq = st.seq /\ r.sz = 0 /\ r.over

Outcome(st, r, b) ==
    LET seqEnd == st.seq + st.sz
        one == Append(st.out, b)
        two == Append(Append(st.out, Block(st.seq, b.first - st.seq)), b)
        all == Append(Append(st.out, Block(st.seq, st.sz)), b)
    IN
    \/ st.over /\ Puts(st, r, b)
    \/ /\ ~st.over /\ b.first <= st.seq /\ seqEnd <= End(b)
       /\ Leaves(st, r) /\ ~r.merge /\ r.out = one
    \/ /\ ~st.over /\ st.seq < b.first /\ End(b) < seqEnd
       /\ Goes(st, r, b) /\ r.out = two
    \/ /\ ~st.over /\ st.seq < b.first /\ seqEnd <= b.first
       /\ Leaves(st, r) /\ r.merge /\ r.out = all
    \/ /\ ~st.over /\ b.first <= st.seq /\ st.seq <= End(b)
       /\ Goes(st, r, b) /\ r.out = one
    \/ /\ ~st.over /\ st.seq < b.first /\ b.first < seqEnd /\ seqEnd <= End(b)
       /\ Leaves(st, r) /\ r.merge /\ r.out = two
    \/ ~st.over /\ b.first <= st.seq /\ End(b) < st.seq /\ Puts(st, r, b)

GoOn(st, o, a, z) == [st EXCEPT !.out = o, !.seq = a, !.sz = z]
LeaveInside(st, o) == [st EXCEPT !.out = o, !.sz = 0, !.over = TRUE, !.merge = FALSE]
LeaveToMerge(st, o) == [st EXCEPT !.out = o, !.sz = 0, !.over = TRUE, !.merge = TRUE]

LEMMA GoesOn ==
    ASSUME NEW st \in States, NEW o \in Seq(Blocks), NEW a \in Int, NEW z \in Int,
           NEW r, r = GoOn(st, o, a, z)
    PROVE  /\ r \in States /\ r.out = o /\ r.seq = a /\ r.sz = z
           /\ r.over = st.over /\ r.merge = st.merge
<1> DEFINE r1 == [st EXCEPT !.out = o]
           r2 == [r1 EXCEPT !.seq = a]
           r3 == [r2 EXCEPT !.sz = z]
<1>1. /\ r1 \in States /\ r1.out = o /\ r1.over = st.over /\ r1.merge = st.merge
  BY DEF States
<1> HIDE DEF r1
<1>2. /\ r2 \in States /\ r2.out = o /\ r2.seq = a
      /\ r2.over = st.over /\ r2.merge = st.merge
  BY <1>1 DEF States
<1> HIDE DEF r2
<1>3. /\ r3 \in States /\ r3.out = o /\ r3.seq = a /\ r3.sz = z
      /\ r3.over = st.over /\ r3.merge = st.merge
  BY <1>2 DEF States
<1>4. r = r3
  BY DEF r1, r2, GoOn
<1>5. QED
  BY <1>3, <1>4

LEMMA Left ==
    ASSUME NEW st \in States, NEW o \in Seq(Blocks), NEW r,
           r = LeaveInside(st, o) \/ r = LeaveToMerge(st, o)
    PROVE  /\ r \in States /\ r.out = o /\ Leaves(st, r)
           /\ r = LeaveInside(st, o) => ~r.merge
           /\ r = LeaveToMerge(st, o) => r.merge
<1> DEFINE r1 == [st EXCEPT !.out = o]
           r2 == [r1 EXCEPT !.sz = 0]
           r3 == [r2 EXCEPT !.over = TRUE]
           inside == [r3 EXCEPT !.merge = FALSE]
           toMerge == [r3 EXCEPT !.merge = TRUE]
<1>1. r1 \in States /\ r1.out = o /\ r1.seq = st.seq
  BY DEF States
<1> HIDE DEF r1
<1>2. r2 \in States /\ r2.out = o /\ r2.seq = st.seq /\ r2.sz = 0
  BY <1>1 DEF States
<1> HIDE DEF r2
<1>3. r3 \in States /\ r3.out = o /\ r3.seq = st.seq /\ r3.sz = 0 /\ r3.over
  BY <1>2 DEF States
<1> HIDE DEF r3
<1>4. /\ inside \in States /\ inside.out = o /\ inside.seq = st.seq /\ inside.sz = 0
      /\ inside.over /\ ~inside.merge
  BY <1>3 DEF States
<1>5. /\ toMerge \in States /\ toMerge.out = o /\ toMerge.seq = st.seq /\ toMerge.sz = 0
      /\ toMerge.over /\ toMerge.merge
  BY <1>3 DEF States
<1>6. LeaveInside(st, o) = inside /\ LeaveToMerge(st, o) = toMerge
  BY DEF r1, r2, r3, LeaveInside, LeaveToMerge
<1> HIDE DEF inside, toMerge
<1>7. QED
  BY <1>4, <1>5, <1>6 DEF Leaves

LEMMA TraverseIs ==
    ASSUME NEW st \in States, NEW b \in Blocks
    PROVE  Traverse(st, b) \in States /\ Outcome(st, Traverse(st, b), b)
<1> DEFINE seqEnd == st.seq + st.sz
           before == Block(st.seq, b.first - st.seq)
           rest == Block(st.seq, st.sz)
           r == Traverse(st, b)
           one == Append(st.out, b)
           two == Append(Append(st.out, before), b)
           all == Append(Append(st.out, rest), b)
           e == End(b)
           f == b.first
<1>1. /\ st.seq \in Int /\ st.sz \in Int /\ st.out \in Seq(Blocks)
      /\ st.over \in BOOLEAN /\ st.merge \in BOOLEAN
      /\ e \in Int /\ f \in Int /\ seqEnd \in Int
  BY BlockFacts DEF States
<1>2. before \in Blocks /\ rest \in Blocks
  <2>1. f - st.seq \in Int
    BY <1>1
  <2>2. QED
    BY <1>1, <2>1, BlockFacts
<1>3. /\ st.out \o <<b>> = one /\ st.out \o <<before, b>> = two
      /\ st.out \o <<rest, b>> = all
  BY <1>1, <1>2, ConcatBlocks
<1>4. one \in Seq(Blocks) /\ two \in Seq(Blocks) /\ all \in Seq(Blocks)
  BY <1>1, <1>2, AppendProperties
<1>5. r = IF st.over THEN [st EXCEPT !.out = one]
          ELSE IF f <= st.seq /\ seqEnd <= e
               THEN LeaveInside(st, one)
          ELSE IF st.seq < f /\ e < seqEnd
               THEN GoOn(st, two, e, seqEnd - e)
          ELSE IF st.seq < f /\ seqEnd <= f
               THEN LeaveToMerge(st, all)
          ELSE IF f <= st.seq /\ st.seq <= e
               THEN GoOn(st, one, e, seqEnd - e)
          ELSE IF st.seq < f
               THEN LeaveToMerge(st, two)
          ELSE [st EXCEPT !.out = one]
  <2> HIDE DEF one, two, all
  <2>1. QED
    BY <1>3 DEF Traverse, GoOn, LeaveInside, LeaveToMerge
<1> HIDE DEF r, one, two, all, before, rest, e, f, seqEnd
<1>6. ASSUME st.over
      PROVE  r \in States /\ Outcome(st, r, b)
  <2>1. r = [st EXCEPT !.out = one]
    BY <1>5, <1>6
  <2>2. r \in States /\ Puts(st, r, b)
    BY <1>1, <1>4, <2>1 DEF States, Puts, one
  <2>3. QED
    BY <1>6, <2>2 DEF Outcome
<1>7. ASSUME ~st.over /\ f <= st.seq /\ seqEnd <= e
      PROVE  r \in States /\ Outcome(st, r, b)
  <2>1. r = LeaveInside(st, one)
    BY <1>5, <1>7
  <2>2. r \in States /\ Leaves(st, r) /\ ~r.merge /\ r.out = one
    BY <1>4, <2>1, Left
  <2>3. QED
    BY <1>7, <2>2 DEF Outcome, f, e, seqEnd, one
<1>8. ASSUME ~st.over /\ st.seq < f /\ e < seqEnd
      PROVE  r \in States /\ Outcome(st, r, b)
  <2>1. r = GoOn(st, two, e, seqEnd - e)
    <3>1. ~(f <= st.seq /\ seqEnd <= e)
      BY <1>1, <1>8
    <3>2. QED
      BY <1>5, <1>8, <3>1, Zenon
  <2>2. r \in States /\ Goes(st, r, b) /\ r.out = two
    <3>1. seqEnd - e \in Int /\ seqEnd - e > 0
      BY <1>1, <1>8
    <3>2. r \in States /\ r.seq = e /\ r.sz = seqEnd - e /\ r.out = two
          /\ r.over = st.over /\ r.merge = st.merge
      BY <1>1, <1>4, <2>1, <3>1, GoesOn
    <3>3. QED
      BY <3>1, <3>2 DEF Goes, e, seqEnd
  <2>3. QED
    BY <1>8, <2>2 DEF Outcome, f, e, seqEnd, two, before
<1>9. ASSUME ~st.over /\ ~(e < seqEnd) /\ st.seq < f /\ seqEnd <= f
      PROVE  r \in States /\ Outcome(st, r, b)
  <2>1. r = LeaveToMerge(st, all)
    <3>1. /\ ~(f <= st.seq /\ seqEnd <= e)
          /\ ~(st.seq < f /\ e < seqEnd)
      BY <1>1, <1>9
    <3>2. QED
      BY <1>5, <1>9, <3>1, Zenon
  <2>2. r \in States /\ Leaves(st, r) /\ r.merge /\ r.out = all
    BY <1>4, <2>1, Left
  <2>3. QED
    BY <1>9, <2>2 DEF Outcome, f, e, seqEnd, all, rest
<1>10. ASSUME ~st.over /\ f <= st.seq /\ e < seqEnd /\ st.seq <= e
      PROVE  r \in States /\ Outcome(st, r, b)
  <2>1. r = GoOn(st, one, e, seqEnd - e)
    <3>1. /\ ~(f <= st.seq /\ seqEnd <= e)
          /\ ~(st.seq < f /\ e < seqEnd)
          /\ ~(st.seq < f /\ seqEnd <= f)
      BY <1>1, <1>10
    <3>2. QED
      BY <1>5, <1>10, <3>1, Zenon
  <2>2. r \in States /\ Goes(st, r, b) /\ r.out = one
    <3>1. seqEnd - e \in Int /\ seqEnd - e > 0
      BY <1>1, <1>10
    <3>2. r \in States /\ r.seq = e /\ r.sz = seqEnd - e /\ r.out = one
          /\ r.over = st.over /\ r.merge = st.merge
      BY <1>1, <1>4, <2>1, <3>1, GoesOn
    <3>3. QED
      BY <3>1, <3>2 DEF Goes, e, seqEnd
  <2>3. QED
    BY <1>10, <2>2 DEF Outcome, f, e, seqEnd, one
<1>11. ASSUME ~st.over /\ st.seq < f /\ f < seqEnd /\ seqEnd <= e
      PROVE  r \in States /\ Outcome(st, r, b)
  <2>1. r = LeaveToMerge(st, two)
    <3>1. /\ ~(f <= st.seq /\ seqEnd <= e)
          /\ ~(st.seq < f /\ e < seqEnd)
          /\ ~(st.seq < f /\ seqEnd <= f)
          /\ ~(f <= st.seq /\ st.seq <= e)
      BY <1>1, <1>11
    <3>2. QED
      BY <1>5, <1>11, <3>1, Zenon
  <2>2. r \in States /\ Leaves(st, r) /\ r.merge /\ r.out = two
    BY <1>4, <2>1, Left
  <2>3. QED
    BY <1>11, <2>2 DEF Outcome, f, e, seqEnd, two, before
<1>12. ASSUME ~st.over /\ f <= st.seq /\ e < st.seq /\ e < seqEnd
      PROVE  r \in States /\ Outcome(st, r, b)
  <2>1. r = [st EXCEPT !.out = one]
    <3>1. /\ ~(f <= st.seq /\ seqEnd <= e)
          /\ ~(st.seq < f /\ e < seqEnd)
          /\ ~(st.seq < f /\ seqEnd <= f)
          /\ ~(f <= st.seq /\ st.seq <= e)
          /\ ~(st.seq < f)
      BY <1>1, <1>12
    <3>2. QED
      BY <1>5, <1>12, <3>1, Zenon
  <2>2. r \in States /\ Puts(st, r, b)
    BY <1>1, <1>4, <2>1 DEF States, Puts, one
  <2>3. QED
    BY <1>12, <2>2 DEF Outcome, e, f
<1>13. r \in States /\ Outcome(st, r, b)
  BY <1>1, <1>6, <1>7, <1>8, <1>9, <1>10, <1>11, <1>12
<1>14. QED
  BY <1>13 DEF r

LEMMA TraverseType ==
    ASSUME NEW st \in States, NEW b \in Blocks
    PROVE  Traverse(st, b) \in States
BY TraverseIs

(* The insertion loop, turn by turn.                                           *)
LEMMA TraverseFold ==
    ASSUME NEW list \in Seq(Blocks), NEW init \in States
    PROVE  \E w : /\ w[0] = init /\ w[Len(list)] = FoldLeft(Traverse, init, list)
                  /\ \A k \in 1..Len(list) : w[k] = Traverse(w[k - 1], list[k])
<1> DEFINE n == Len(list)
           F == [p \in States \X (1..n) |-> Traverse(p[1], list[p[2]])]
           IsFold(h) == h = [s \in SUBSET (DOMAIN list) |->
                               IF s = {} THEN init
                               ELSE Traverse(h[s \ {Max(s)}], list[Max(s)])]
           g == CHOOSE h : IsFold(h)
<1>1. n \in Nat /\ DOMAIN list = 1..n /\ \A k \in 1..n : list[k] \in Blocks
  BY LenProperties, ElementOfSeq
<1>2. F \in [States \X (1..n) -> States]
  BY <1>1, TraverseType
<1>3. \E h : IsFold(h)
  <2> HIDE DEF F
  <2>0. PICK h : Folds(h, n, States, init, F)
    <3>1. n \in Nat /\ init \in States
      BY <1>1
    <3> HIDE DEF n
    <3>2. QED
      BY ONLY <3>1, <1>2, FoldExists
  <2>1. /\ h \in [SUBSET (1..n) -> States]
        /\ \A s \in SUBSET (1..n) :
              h[s] = IF s = {} THEN init ELSE F[<<h[s \ {Max(s)}], Max(s)>>]
    BY <2>0 DEF Folds
  <2>2. ASSUME NEW s \in SUBSET (1..n), s # {}
        PROVE  F[<<h[s \ {Max(s)}], Max(s)>>] = Traverse(h[s \ {Max(s)}], list[Max(s)])
    <3>1. Max(s) \in 1..n
      BY <2>2, <1>1, MaxIn
    <3>2. h[s \ {Max(s)}] \in States
      BY <2>1
    <3>3. QED
      BY <3>1, <3>2 DEF F
  <2>3. h = [s \in SUBSET (1..n) |->
               IF s = {} THEN init ELSE Traverse(h[s \ {Max(s)}], list[Max(s)])]
    BY <2>1, <2>2
  <2>4. IsFold(h)
    BY <2>3, <1>1
  <2>5. QED
    BY <2>4
<1>4. IsFold(g)
  <2> HIDE DEF IsFold
  <2>1. QED
    BY <1>3
<1>5. FoldLeft(Traverse, init, list) = g[1..n]
  BY <1>1 DEF FoldLeft, MapThenFoldSet
<1> HIDE DEF g
<1> DEFINE w == [k \in 0..n |-> g[1..k]]
<1>6. \A s \in SUBSET (1..n) :
         g[s] = IF s = {} THEN init ELSE Traverse(g[s \ {Max(s)}], list[Max(s)])
  BY <1>1, <1>4
<1>7. w[0] = init
  <2>1. 1..0 = {} /\ {} \in SUBSET (1..n) /\ 0 \in 0..n
    BY <1>1
  <2> HIDE DEF IsFold
  <2>2. g[{}] = init
    BY <1>6, <2>1
  <2>3. QED
    BY <2>1, <2>2
<1>8. ASSUME NEW k \in 1..n PROVE w[k] = Traverse(w[k - 1], list[k])
  <2>1. Max(1..k) = k /\ (1..k) \ {Max(1..k)} = 1..(k - 1) /\ 1..k # {}
    BY <1>1, MaxPrefix
  <2>2. 1..k \in SUBSET (1..n) /\ k - 1 \in 0..n /\ k \in 0..n
    BY <1>1
  <2> HIDE DEF IsFold
  <2>3. g[1..k] = Traverse(g[1..(k - 1)], list[k])
    BY <1>6, <2>1, <2>2
  <2>4. QED
    BY <2>2, <2>3
<1>9. w[n] = g[1..n]
  BY <1>1
<1> HIDE DEF w
<1>10. QED
  BY <1>5, <1>7, <1>8, <1>9

(* The loop after k blocks of c, inserting [s0, e0): what has been put out is   *)
(* in order and holds the first k blocks and the part of the new one passed.   *)
Walked(c, s0, e0, st, k) ==
    /\ st \in States /\ InOrder(st.out)
    /\ \A n \in Int : In(st.out, n) <=>
          InFirst(c, k, n) \/ (s0 <= n /\ n < (IF st.over THEN e0 ELSE st.seq))
    /\ \A j \in 1..Len(st.out) : k # 0 /\ End(st.out[j]) <= End(c[k])
    /\ ~st.over => /\ st.sz > 0 /\ st.seq + st.sz = e0 /\ s0 <= st.seq /\ st.merge
                   /\ k # 0 => End(c[k]) <= st.seq
                   /\ (k # 0 => End(c[k]) < st.seq) => Gapped(st.out)
    /\ st.over => st.sz = 0 /\ (~st.merge => Gapped(st.out))

LEMMA WalkStep ==
    ASSUME NEW c \in Seq(Blocks), Gapped(c), NEW s0 \in Int, NEW e0 \in Int,
           NEW k \in 1..Len(c), NEW st, Walked(c, s0, e0, st, k - 1),
           NEW r \in States, Outcome(st, r, c[k])
    PROVE  Walked(c, s0, e0, r, k)
<1> DEFINE b == c[k]
           f == b.first
           e == End(b)
           out == st.out
<1>1. /\ b \in Blocks /\ f \in Int /\ e \in Int /\ f < e /\ b.len > 0
      /\ k \in Nat /\ k # 0 /\ k - 1 \in Nat
  <2>1. b \in Blocks /\ b.len > 0
    BY ElementOfSeq DEF Gapped
  <2>2. b.first \in Int /\ End(b) \in Int /\ b.len \in Int /\ End(b) = b.first + b.len
    BY <2>1, BlockFacts
  <2>3. k \in Nat /\ k # 0 /\ k - 1 \in Nat
    BY LenProperties
  <2> HIDE DEF b
  <2>4. QED
    BY <2>1, <2>2, <2>3
<1>2. /\ st \in States /\ st.seq \in Int /\ st.sz \in Int /\ out \in Seq(Blocks)
      /\ st.over \in BOOLEAN /\ st.merge \in BOOLEAN /\ InOrder(out)
      /\ r.seq \in Int /\ r.sz \in Int
  BY DEF Walked, States
<1>3. \A j \in 1..Len(out) : out[j] \in Blocks /\ End(out[j]) \in Int
  BY <1>2, BlockFacts, ElementOfSeq
<1>4. k - 1 # 0 => End(c[k - 1]) \in Int /\ End(c[k - 1]) < f
  <2> SUFFICES ASSUME k - 1 # 0 PROVE End(c[k - 1]) \in Int /\ End(c[k - 1]) < f
    OBVIOUS
  <2>1. k - 1 \in 1..Len(c) /\ k - 1 < k
    BY <1>1
  <2>2. QED
    BY <2>1, ElementOfSeq, BlockFacts DEF Gapped
<1>5. \A j \in 1..Len(out) : End(out[j]) < f
  BY <1>1, <1>3, <1>4 DEF Walked
<1>6. ~st.over => \A j \in 1..Len(out) : End(out[j]) <= st.seq
  BY <1>1, <1>2, <1>3, <1>4 DEF Walked
<1>7. ~st.over /\ f <= st.seq => Gapped(out)
  BY <1>1, <1>2, <1>4 DEF Walked
<1>8. \A n \in Int : InFirst(c, k, n) <=> InFirst(c, k - 1, n) \/ (f <= n /\ n < e)
  <2>1. \A j \in 1..k : j \in 1..(k - 1) \/ j = k
    BY <1>1
  <2>2. \A j \in 1..(k - 1) : j \in 1..k
    BY <1>1
  <2>3. k \in 1..k
    BY <1>1
  <2>4. QED
    BY <2>1, <2>2, <2>3 DEF InFirst
<1>9. /\ ~st.over => \A n \in Int : In(out, n) <=> InFirst(c, k - 1, n) \/ (s0 <= n /\ n < st.seq)
      /\ st.over => \A n \in Int : In(out, n) <=> InFirst(c, k - 1, n) \/ (s0 <= n /\ n < e0)
  BY DEF Walked
<1>10. ~st.over => st.sz > 0 /\ st.seq + st.sz = e0 /\ s0 <= st.seq /\ st.merge
  BY DEF Walked
<1>11. st.over => st.sz = 0 /\ (~st.merge => Gapped(out))
  BY DEF Walked
<1> DEFINE one == Append(out, b)
           X == Block(st.seq, f - st.seq)
           two == Append(Append(out, X), b)
           Y == Block(st.seq, st.sz)
           all == Append(Append(out, Y), b)
<1>12. /\ one \in Seq(Blocks) /\ InOrder(one)
       /\ Gapped(out) => Gapped(one)
       /\ \A n \in Int : In(one, n) <=> In(out, n) \/ (f <= n /\ n < e)
       /\ \A j \in 1..Len(one) : End(one[j]) <= e
  <2>1. \A j \in 1..Len(out) : End(out[j]) <= f
    BY <1>1, <1>3, <1>5
  <2>2. QED
    BY <1>1, <1>2, <1>5, <2>1, AppendBlock
<1>13. ASSUME NEW l \in Int, l > 0, st.seq + l <= f, ~st.over
       PROVE  LET t == Append(Append(out, Block(st.seq, l)), b) IN
              /\ t \in Seq(Blocks) /\ InOrder(t)
              /\ \A n \in Int : In(t, n) <=>
                    In(out, n) \/ (st.seq <= n /\ n < st.seq + l) \/ (f <= n /\ n < e)
              /\ \A j \in 1..Len(t) : End(t[j]) <= e
  <2> DEFINE Z == Block(st.seq, l)
             u == Append(out, Z)
             t == Append(u, b)
  <2>1. Z \in Blocks /\ Z.first = st.seq /\ Z.len = l /\ End(Z) = st.seq + l
    BY <1>2, BlockFacts
  <2> HIDE DEF Z
  <2>2. \A j \in 1..Len(out) : End(out[j]) <= Z.first
    BY <1>6, <1>13, <2>1
  <2>3. Z.len > 0
    BY <1>13, <2>1
  <2>4. /\ u \in Seq(Blocks) /\ InOrder(u)
        /\ \A n \in Int : In(u, n) <=> In(out, n) \/ (st.seq <= n /\ n < st.seq + l)
        /\ \A j \in 1..Len(u) : End(u[j]) <= End(Z)
    <3> HIDE DEF out, u
    <3>0. out \in Seq(Blocks) /\ InOrder(out)
      BY <1>2
    <3>1. /\ Append(out, Z) \in Seq(Blocks) /\ (InOrder(out) => InOrder(Append(out, Z)))
          /\ \A n \in Int : In(Append(out, Z), n) <=> In(out, n) \/ (Z.first <= n /\ n < End(Z))
          /\ \A j \in 1..Len(Append(out, Z)) : End(Append(out, Z)[j]) <= End(Z)
      BY ONLY <3>0, <2>1, <2>2, <2>3, AppendBlock
    <3>2. u = Append(out, Z)
      BY DEF u
    <3>3. QED
      BY ONLY <2>1, <3>0, <3>1, <3>2
  <2> HIDE DEF u
  <2>5. \A j \in 1..Len(u) : End(u[j]) <= f
    <3>1. \A j \in 1..Len(u) : End(u[j]) \in Int
      BY <2>4, BlockFacts, ElementOfSeq
    <3>2. End(Z) \in Int /\ End(Z) <= f
      BY <1>1, <1>2, <1>13, <2>1
    <3>3. QED
      BY ONLY <1>1, <2>4, <3>1, <3>2
  <2>6. /\ t \in Seq(Blocks) /\ InOrder(t)
        /\ \A n \in Int : In(t, n) <=> In(u, n) \/ (f <= n /\ n < e)
        /\ \A j \in 1..Len(t) : End(t[j]) <= e
    BY <1>1, <2>4, <2>5, AppendBlock
  <2>7. QED
    BY <2>4, <2>6 DEF u, Z
<1>14. r.out \in Seq(Blocks) /\ r.over \in BOOLEAN /\ r.merge \in BOOLEAN
  BY DEF States
<1>15. Outcome(st, r, b)
  OBVIOUS
<1> HIDE DEF b, f, e, out, one, two, all, X, Y
<1>16. CASE st.over /\ Puts(st, r, b)
  <2>1. r.out = one /\ r.over = st.over /\ r.sz = st.sz /\ r.merge = st.merge
    BY <1>16 DEF Puts, one, out
  <2>2. \A n \in Int : In(r.out, n) <=> InFirst(c, k, n) \/ (s0 <= n /\ n < e0)
    BY <1>8, <1>9, <1>12, <1>16, <2>1
  <2>3. r.over /\ r.sz = 0 /\ (~r.merge => Gapped(r.out))
    BY <1>11, <1>12, <1>16, <2>1
  <2>4. QED
    BY <1>1, <1>12, <2>1, <2>2, <2>3 DEF Walked, b, e
<1>17. CASE ~st.over /\ f <= st.seq /\ st.seq + st.sz <= e /\ Leaves(st, r) /\ ~r.merge /\ r.out = one
  <2>1. r.over /\ r.sz = 0
    BY <1>17 DEF Leaves
  <2>2. \A n \in Int : In(r.out, n) <=> InFirst(c, k, n) \/ (s0 <= n /\ n < e0)
    <3> SUFFICES ASSUME NEW n \in Int
                 PROVE  In(r.out, n) <=> InFirst(c, k, n) \/ (s0 <= n /\ n < e0)
      OBVIOUS
    <3>1. In(r.out, n) <=> In(out, n) \/ (f <= n /\ n < e)
      BY <1>12, <1>17
    <3>2. In(out, n) <=> InFirst(c, k - 1, n) \/ (s0 <= n /\ n < st.seq)
      BY <1>9, <1>17
    <3>3. InFirst(c, k, n) <=> InFirst(c, k - 1, n) \/ (f <= n /\ n < e)
      BY <1>8
    <3>4. QED
      BY ONLY <1>1, <1>2, <1>10, <1>17, <3>1, <3>2, <3>3, s0 \in Int, e0 \in Int, n \in Int
  <2>3. Gapped(r.out)
    BY <1>7, <1>12, <1>17
  <2>4. QED
    BY <1>1, <1>12, <1>17, <2>1, <2>2, <2>3 DEF Walked, b, e
<1>18. CASE ~st.over /\ st.seq < f /\ e < st.seq + st.sz /\ Goes(st, r, b) /\ r.out = two
  <2>1. ~r.over /\ r.seq = e /\ r.sz = (st.seq + st.sz) - e /\ r.sz > 0 /\ r.merge
    BY <1>10, <1>18 DEF Goes, e
  <2> DEFINE x == f - st.seq
  <2>2. x \in Int /\ x > 0 /\ st.seq + x = f /\ st.seq + x <= f
    BY ONLY <1>1, <1>2, <1>18
  <2>3. /\ two \in Seq(Blocks) /\ InOrder(two)
        /\ \A n \in Int : In(two, n) <=>
              In(out, n) \/ (st.seq <= n /\ n < f) \/ (f <= n /\ n < e)
        /\ \A j \in 1..Len(two) : End(two[j]) <= e
    <3>1. two = Append(Append(out, Block(st.seq, x)), b) /\ ~st.over
      BY <1>18 DEF two, X
    <3> HIDE DEF x
    <3>2. QED
      BY ONLY <1>13, <2>2, <3>1
  <2>4. \A n \in Int : In(r.out, n) <=> InFirst(c, k, n) \/ (s0 <= n /\ n < r.seq)
    <3> SUFFICES ASSUME NEW n \in Int
                 PROVE  In(r.out, n) <=> InFirst(c, k, n) \/ (s0 <= n /\ n < r.seq)
      OBVIOUS
    <3>1. In(r.out, n) <=> In(out, n) \/ (st.seq <= n /\ n < f) \/ (f <= n /\ n < e)
      BY <2>3, <1>18
    <3>2. In(out, n) <=> InFirst(c, k - 1, n) \/ (s0 <= n /\ n < st.seq)
      BY <1>9, <1>18
    <3>3. InFirst(c, k, n) <=> InFirst(c, k - 1, n) \/ (f <= n /\ n < e)
      BY <1>8
    <3>4. QED
      BY ONLY <1>1, <1>2, <1>10, <1>18, <2>1, <3>1, <3>2, <3>3, s0 \in Int, e0 \in Int, n \in Int
  <2>5. r.seq + r.sz = e0 /\ s0 <= r.seq /\ ~(End(c[k]) < r.seq) /\ End(c[k]) <= r.seq
    <3>1. e = End(c[k])
      BY DEF e, b
    <3>2. /\ r.seq = e /\ r.sz = (st.seq + st.sz) - e /\ st.seq + st.sz = e0 /\ s0 <= st.seq
          /\ e \in Int /\ st.seq \in Int /\ st.seq <= e
      <4>1. st.seq <= e
        BY ONLY <1>1, <1>2, <1>18
      <4>2. QED
        BY ONLY <1>1, <1>2, <1>10, <1>18, <2>1, <4>1
    <3>3. r.sz = e0 - e
      BY ONLY <3>2
    <3>4. e + (e0 - e) = e0 /\ s0 <= e /\ ~(e < e) /\ e <= e
      BY ONLY <3>2, e0 \in Int, s0 \in Int
    <3>5. QED
      BY ONLY <3>1, <3>2, <3>3, <3>4, Zenon
  <2>6. QED
    BY <1>1, <1>18, <2>1, <2>3, <2>4, <2>5 DEF Walked, b, e
<1>19. CASE ~st.over /\ st.seq < f /\ st.seq + st.sz <= f /\ Leaves(st, r) /\ r.merge /\ r.out = all
  <2>1. r.over /\ r.sz = 0
    BY <1>19 DEF Leaves
  <2>3. /\ all \in Seq(Blocks) /\ InOrder(all)
        /\ \A n \in Int : In(all, n) <=>
              In(out, n) \/ (st.seq <= n /\ n < st.seq + st.sz) \/ (f <= n /\ n < e)
        /\ \A j \in 1..Len(all) : End(all[j]) <= e
    <3>1. all = Append(Append(out, Block(st.seq, st.sz)), b)
      BY DEF all, Y
    <3>2. QED
      BY ONLY <1>2, <1>10, <1>13, <1>19, <3>1
  <2>4. \A n \in Int : In(r.out, n) <=> InFirst(c, k, n) \/ (s0 <= n /\ n < e0)
    <3> SUFFICES ASSUME NEW n \in Int
                 PROVE  In(r.out, n) <=> InFirst(c, k, n) \/ (s0 <= n /\ n < e0)
      OBVIOUS
    <3>1. In(r.out, n) <=> In(out, n) \/ (st.seq <= n /\ n < st.seq + st.sz) \/ (f <= n /\ n < e)
      BY <2>3, <1>19
    <3>2. In(out, n) <=> InFirst(c, k - 1, n) \/ (s0 <= n /\ n < st.seq)
      BY <1>9, <1>19
    <3>3. InFirst(c, k, n) <=> InFirst(c, k - 1, n) \/ (f <= n /\ n < e)
      BY <1>8
    <3>4. QED
      BY ONLY <1>1, <1>2, <1>10, <1>19, <3>1, <3>2, <3>3, s0 \in Int, e0 \in Int, n \in Int
  <2>6. QED
    BY <1>1, <1>19, <2>1, <2>3, <2>4 DEF Walked, b, e
<1>20. CASE ~st.over /\ f <= st.seq /\ st.seq <= e /\ Goes(st, r, b) /\ r.out = one
  <2>1. ~r.over /\ r.seq = e /\ r.sz = (st.seq + st.sz) - e /\ r.sz > 0 /\ r.merge
    BY <1>10, <1>20 DEF Goes, e
  <2>4. \A n \in Int : In(r.out, n) <=> InFirst(c, k, n) \/ (s0 <= n /\ n < r.seq)
    <3> SUFFICES ASSUME NEW n \in Int
                 PROVE  In(r.out, n) <=> InFirst(c, k, n) \/ (s0 <= n /\ n < r.seq)
      OBVIOUS
    <3>1. In(r.out, n) <=> In(out, n) \/ (f <= n /\ n < e)
      BY <1>12, <1>20
    <3>2. In(out, n) <=> InFirst(c, k - 1, n) \/ (s0 <= n /\ n < st.seq)
      BY <1>9, <1>20
    <3>3. InFirst(c, k, n) <=> InFirst(c, k - 1, n) \/ (f <= n /\ n < e)
      BY <1>8
    <3>4. QED
      BY ONLY <1>1, <1>2, <1>10, <1>20, <2>1, <3>1, <3>2, <3>3, s0 \in Int, e0 \in Int, n \in Int
  <2>5. r.seq + r.sz = e0 /\ s0 <= r.seq /\ ~(End(c[k]) < r.seq) /\ End(c[k]) <= r.seq
    <3>1. e = End(c[k])
      BY DEF e, b
    <3>2. /\ r.seq = e /\ r.sz = (st.seq + st.sz) - e /\ st.seq + st.sz = e0 /\ s0 <= st.seq
          /\ e \in Int /\ st.seq \in Int /\ st.seq <= e
      <4>1. st.seq <= e
        BY ONLY <1>1, <1>2, <1>20
      <4>2. QED
        BY ONLY <1>1, <1>2, <1>10, <1>20, <2>1, <4>1
    <3>3. r.sz = e0 - e
      BY ONLY <3>2
    <3>4. e + (e0 - e) = e0 /\ s0 <= e /\ ~(e < e) /\ e <= e
      BY ONLY <3>2, e0 \in Int, s0 \in Int
    <3>5. QED
      BY ONLY <3>1, <3>2, <3>3, <3>4, Zenon
  <2>6. QED
    BY <1>1, <1>12, <1>20, <2>1, <2>4, <2>5 DEF Walked, b, e
<1>21. CASE ~st.over /\ st.seq < f /\ f < st.seq + st.sz /\ st.seq + st.sz <= e /\ Leaves(st, r) /\ r.merge /\ r.out = two
  <2>1. r.over /\ r.sz = 0
    BY <1>21 DEF Leaves
  <2> DEFINE x == f - st.seq
  <2>2. x \in Int /\ x > 0 /\ st.seq + x = f /\ st.seq + x <= f
    BY ONLY <1>1, <1>2, <1>21
  <2>3. /\ two \in Seq(Blocks) /\ InOrder(two)
        /\ \A n \in Int : In(two, n) <=>
              In(out, n) \/ (st.seq <= n /\ n < f) \/ (f <= n /\ n < e)
        /\ \A j \in 1..Len(two) : End(two[j]) <= e
    <3>1. two = Append(Append(out, Block(st.seq, x)), b) /\ ~st.over
      BY <1>21 DEF two, X
    <3> HIDE DEF x
    <3>2. QED
      BY ONLY <1>13, <2>2, <3>1
  <2>4. \A n \in Int : In(r.out, n) <=> InFirst(c, k, n) \/ (s0 <= n /\ n < e0)
    <3> SUFFICES ASSUME NEW n \in Int
                 PROVE  In(r.out, n) <=> InFirst(c, k, n) \/ (s0 <= n /\ n < e0)
      OBVIOUS
    <3>1. In(r.out, n) <=> In(out, n) \/ (st.seq <= n /\ n < f) \/ (f <= n /\ n < e)
      BY <2>3, <1>21
    <3>2. In(out, n) <=> InFirst(c, k - 1, n) \/ (s0 <= n /\ n < st.seq)
      BY <1>9, <1>21
    <3>3. InFirst(c, k, n) <=> InFirst(c, k - 1, n) \/ (f <= n /\ n < e)
      BY <1>8
    <3>4. QED
      BY ONLY <1>1, <1>2, <1>10, <1>21, <3>1, <3>2, <3>3, s0 \in Int, e0 \in Int, n \in Int
  <2>6. QED
    BY <1>1, <1>21, <2>1, <2>3, <2>4 DEF Walked, b, e
<1>22. CASE ~st.over /\ f <= st.seq /\ e < st.seq /\ Puts(st, r, b)
  <2>1. r.out = one /\ r.over = st.over /\ r.sz = st.sz /\ r.merge = st.merge /\ r.seq = st.seq
    BY <1>22 DEF Puts, one, out
  <2>2. \A n \in Int : In(r.out, n) <=> InFirst(c, k, n) \/ (s0 <= n /\ n < r.seq)
    <3> SUFFICES ASSUME NEW n \in Int
                 PROVE  In(r.out, n) <=> InFirst(c, k, n) \/ (s0 <= n /\ n < r.seq)
      OBVIOUS
    <3>1. In(r.out, n) <=> In(out, n) \/ (f <= n /\ n < e)
      BY <1>12, <1>22, <2>1
    <3>2. In(out, n) <=> InFirst(c, k - 1, n) \/ (s0 <= n /\ n < st.seq)
      BY <1>9, <1>22
    <3>3. InFirst(c, k, n) <=> InFirst(c, k - 1, n) \/ (f <= n /\ n < e)
      BY <1>8
    <3>4. QED
      BY ONLY <1>1, <1>2, <1>10, <1>22, <2>1, <3>1, <3>2, <3>3, s0 \in Int, e0 \in Int, n \in Int
  <2>3. Gapped(r.out) /\ End(c[k]) <= r.seq
    <3>1. e = End(c[k])
      BY DEF e, b
    <3>2. QED
      BY ONLY <1>1, <1>2, <1>7, <1>12, <1>22, <2>1, <3>1
  <2>4. QED
    BY <1>1, <1>10, <1>12, <1>22, <2>1, <2>2, <2>3 DEF Walked, b, e
<1>23. QED
  BY <1>15, <1>16, <1>17, <1>18, <1>19, <1>20, <1>21, <1>22
     DEF Outcome, b, f, e, out, one, two, all, X, Y

(* The whole loop: what comes out of it, before the merging pass.              *)
LEMMA LoopEnds ==
    ASSUME NEW c \in Seq(Blocks), Gapped(c), NEW s0 \in Int, NEW z0 \in Int, z0 > 0,
           NEW init, init = [seq |-> s0, sz |-> z0, out |-> <<>>, over |-> FALSE,
                             merge |-> TRUE]
    PROVE  Walked(c, s0, s0 + z0, FoldLeft(Traverse, init, c), Len(c))
<1> DEFINE e0 == s0 + z0
<1>1. init \in States /\ Len(c) \in Nat
  BY EmptySeq, LenProperties DEF States
<1>2. PICK w : /\ w[0] = init /\ w[Len(c)] = FoldLeft(Traverse, init, c)
               /\ \A k \in 1..Len(c) : w[k] = Traverse(w[k - 1], c[k])
  BY <1>1, TraverseFold
<1>3. Walked(c, s0, e0, w[0], 0)
  <2>1. /\ init.out = <<>> /\ ~init.over /\ init.seq = s0 /\ init.sz = z0 /\ init.merge
        /\ Len(init.out) = 0
    OBVIOUS
  <2>2. InOrder(init.out) /\ Gapped(init.out)
    BY <2>1 DEF InOrder, Gapped
  <2>3. \A n \in Int : ~In(init.out, n) /\ ~InFirst(c, 0, n) /\ ~(s0 <= n /\ n < s0)
    BY <2>1 DEF In, InFirst
  <2>4. init.seq + init.sz = e0 /\ s0 <= init.seq /\ init.sz > 0
    BY <2>1
  <2>5. QED
    BY <1>1, <1>2, <2>1, <2>2, <2>3, <2>4 DEF Walked
<1> DEFINE Bad == {k \in 1..Len(c) : ~Walked(c, s0, e0, w[k], k)}
<1>4. Bad = {}
  <2>1. SUFFICES ASSUME Bad # {} PROVE FALSE
    OBVIOUS
  <2>2. Bad \in SUBSET Nat
    BY <1>1
  <2>3. \A k \in 1..Len(c) : k \notin Bad => Walked(c, s0, e0, w[k], k)
    OBVIOUS
  <2>4. \A k \in Bad : k \in 1..Len(c) /\ ~Walked(c, s0, e0, w[k], k)
    OBVIOUS
  <2> HIDE DEF Bad
  <2>5. PICK k \in Bad : \A m \in Bad : k <= m
    BY <2>1, <2>2, LeastNat
  <2>6. k \in 1..Len(c) /\ k - 1 \notin Bad /\ (k - 1 = 0 \/ k - 1 \in 1..Len(c))
    BY <1>1, <2>2, <2>4, <2>5
  <2>7. Walked(c, s0, e0, w[k - 1], k - 1)
    BY <1>3, <2>3, <2>6
  <2>8. w[k - 1] \in States /\ c[k] \in Blocks
    BY <2>6, <2>7, ElementOfSeq DEF Walked
  <2>9. w[k] \in States /\ Outcome(w[k - 1], w[k], c[k])
    BY <1>2, <2>6, <2>8, TraverseIs
  <2>10. e0 \in Int
    OBVIOUS
  <2> HIDE DEF e0
  <2>11. Walked(c, s0, e0, w[k], k)
    BY <2>6, <2>7, <2>9, <2>10, WalkStep
  <2>12. QED
    BY <2>4, <2>11
<1>5. Walked(c, s0, e0, w[Len(c)], Len(c))
  <2>1. Len(c) = 0 \/ Len(c) \in 1..Len(c)
    BY <1>1
  <2>2. \A k \in 1..Len(c) : Walked(c, s0, e0, w[k], k)
    BY <1>4
  <2> HIDE DEF Bad, e0
  <2>3. QED
    BY <1>3, <2>1, <2>2
<1>6. QED
  BY <1>2, <1>5

LEMMA InsertedIs ==
    ASSUME NEW c \in Seq(Blocks), Gapped(c), NEW s0 \in Int, NEW z0 \in Int, z0 > 0
    PROVE  LET r == Inserted(c, s0, z0) IN
           /\ r.out \in Seq(Blocks) /\ InOrder(r.out)
           /\ \A n \in Int : In(r.out, n) <=> In(c, n) \/ (s0 <= n /\ n < s0 + z0)
           /\ ~r.merge => Gapped(r.out)
<1> DEFINE init == [seq |-> s0, sz |-> z0, out |-> <<>>, over |-> FALSE, merge |-> TRUE]
           st == FoldLeft(Traverse, init, c)
           Y == Block(st.seq, st.sz)
           o == IF st.sz # 0 THEN Append(st.out, Y) ELSE st.out
           r == [st EXCEPT !.out = o]
           e0 == s0 + z0
           k == Len(c)
<1>1. Walked(c, s0, e0, st, k)
  <2> HIDE DEF st
  <2>1. QED
    BY LoopEnds DEF st
<1>2. Inserted(c, s0, z0) = r
  BY DEF Inserted
<1>3. e0 \in Int /\ k \in Nat /\ (k # 0 => End(c[k]) \in Int)
  <2>1. k # 0 => k \in 1..Len(c)
    BY LenProperties
  <2>2. QED
    BY <2>1, LenProperties, ElementOfSeq, BlockFacts
<1> HIDE DEF st, e0
<1>4. /\ st \in States /\ st.seq \in Int /\ st.sz \in Int /\ st.out \in Seq(Blocks)
      /\ st.over \in BOOLEAN /\ st.merge \in BOOLEAN
  BY <1>1 DEF Walked, States
<1>5. r.out = o /\ r.merge = st.merge
  BY <1>4 DEF States
<1> HIDE DEF r, init
<1>6. CASE st.sz = 0
  <2>1. st.over /\ o = st.out
    BY <1>1, <1>6 DEF Walked
  <2>2. \A n \in Int : In(o, n) <=> In(c, n) \/ (s0 <= n /\ n < e0)
    BY <1>1, <2>1 DEF Walked, In
  <2>3. InOrder(o) /\ (~st.merge => Gapped(o))
    BY <1>1, <2>1 DEF Walked
  <2> HIDE DEF o
  <2>4. QED
    BY <1>2, <1>4, <1>5, <2>1, <2>2, <2>3 DEF e0
<1>7. CASE st.sz # 0
  <2>1. /\ ~st.over /\ st.sz > 0 /\ st.seq + st.sz = e0 /\ s0 <= st.seq /\ st.merge
        /\ InOrder(st.out)
        /\ \A n \in Int : In(st.out, n) <=> In(c, n) \/ (s0 <= n /\ n < st.seq)
    BY <1>1, <1>7 DEF Walked, In
  <2>2. \A j \in 1..Len(st.out) : End(st.out[j]) <= st.seq
    <3>1. \A j \in 1..Len(st.out) : End(st.out[j]) \in Int
      BY <1>4, ElementOfSeq, BlockFacts
    <3>2. \A j \in 1..Len(st.out) : k # 0 /\ End(st.out[j]) <= End(c[k])
      BY <1>1 DEF Walked
    <3>3. k # 0 => End(c[k]) <= st.seq
      BY <1>1, <2>1 DEF Walked
    <3> HIDE DEF k
    <3>4. QED
      BY <1>3, <1>4, <3>1, <3>2, <3>3
  <2>3. Y \in Blocks /\ Y.first = st.seq /\ Y.len = st.sz /\ End(Y) = e0
    BY <1>4, <2>1, BlockFacts
  <2>4. o = Append(st.out, Y)
    BY <1>7
  <2>5. Y.len > 0 /\ (\A j \in 1..Len(st.out) : End(st.out[j]) <= Y.first)
    BY <2>1, <2>2, <2>3
  <2> HIDE DEF Y, o
  <2>6. /\ o \in Seq(Blocks) /\ InOrder(o)
        /\ \A n \in Int : In(o, n) <=> In(st.out, n) \/ (Y.first <= n /\ n < End(Y))
    BY <1>4, <2>1, <2>3, <2>4, <2>5, AppendBlock
  <2>7. \A n \in Int : In(o, n) <=> In(c, n) \/ (s0 <= n /\ n < e0)
    BY <1>3, <1>4, <2>1, <2>3, <2>6
  <2>8. QED
    BY <1>2, <1>5, <2>1, <2>6, <2>7 DEF e0
<1>8. QED
  BY <1>6, <1>7

(* A list taken apart at its last block.                                       *)
LEMMA FrontLast ==
    ASSUME NEW m \in Seq(Blocks), m # <<>>
    PROVE  /\ Front(m) \in Seq(Blocks) /\ Last(m) \in Blocks
           /\ m = Append(Front(m), Last(m))
           /\ Len(m) \in Nat \ {0} /\ Len(Front(m)) = Len(m) - 1
           /\ \A j \in 1..(Len(m) - 1) : Front(m)[j] = m[j]
<1> DEFINE n == Len(m)
           p == Front(m)
           x == Last(m)
<1>1. n \in Nat /\ n # 0 /\ \A j \in 1..n : m[j] \in Blocks
  BY EmptySeq, LenProperties, ElementOfSeq
<1>2. n - 1 \in Int /\ 1 \in Int /\ \A j \in 1..(n - 1) : m[j] \in Blocks
  BY <1>1
<1>3. p = SubSeq(m, 1, n - 1) /\ x = m[n]
  BY DEF Front, Last
<1>4. /\ p \in Seq(Blocks) /\ Len(p) = (IF 1 <= n - 1 THEN (n - 1) - 1 + 1 ELSE 0)
      /\ \A j \in 1..((n - 1) - 1 + 1) : p[j] = m[1 + j - 1]
  <2> HIDE DEF n, p
  <2>1. QED
    BY ONLY <1>2, <1>3, SubSeqProperties
<1> HIDE DEF p, x, n
<1>5. Len(p) = n - 1 /\ \A j \in 1..(n - 1) : p[j] = m[j]
  BY <1>1, <1>4
<1>6. x \in Blocks
  BY <1>1, <1>3
<1>7. /\ Append(p, x) \in Seq(Blocks) /\ Len(Append(p, x)) = n
      /\ (\A j \in 1..(n - 1) : Append(p, x)[j] = m[j]) /\ Append(p, x)[n] = m[n]
  <2>1. /\ Append(p, x) \in Seq(Blocks) /\ Len(Append(p, x)) = Len(p) + 1
        /\ \A i \in 1..Len(p) : Append(p, x)[i] = p[i]
        /\ Append(p, x)[Len(p) + 1] = x
    BY ONLY <1>4, <1>6, AppendProperties
  <2>2. QED
    BY ONLY <2>1, <1>1, <1>3, <1>5
<1>8. m = Append(p, x)
  <2>1. \A j \in 1..n : j \in 1..(n - 1) \/ j = n
    BY <1>1
  <2>2. \A j \in 1..n : Append(p, x)[j] = m[j]
    BY <1>7, <2>1
  <2>3. n = Len(m)
    BY DEF n
  <2>4. QED
    BY <1>7, <2>2, <2>3, SeqEqual
<1>9. QED
  BY <1>1, <1>4, <1>5, <1>6, <1>8 DEF n, p, x

(* A block that begins no earlier than the list ends, merged into it.          *)
LEMMA MergeStep ==
    ASSUME NEW m \in Seq(Blocks), Gapped(m), NEW b \in Blocks, b.len > 0,
           \A j \in 1..Len(m) : End(m[j]) <= b.first
    PROVE  /\ Merge(m, b) \in Seq(Blocks) /\ Gapped(Merge(m, b))
           /\ \A n \in Int : In(Merge(m, b), n) <=> In(m, n) \/ (b.first <= n /\ n < End(b))
           /\ \A j \in 1..Len(Merge(m, b)) : End(Merge(m, b)[j]) <= End(b)
<1> DEFINE x == Last(m)
           p == Front(m)
           l == x.len + b.len
           J == Block(x.first, l)
<1>1. b.first \in Int /\ b.len \in Int /\ End(b) \in Int /\ End(b) = b.first + b.len
  BY BlockFacts
<1>2. \A j \in 1..Len(m) : m[j] \in Blocks /\ End(m[j]) \in Int
  BY ElementOfSeq, BlockFacts
<1>3. CASE m # <<>> /\ End(x) = b.first
  <2>1. Merge(m, b) = Append(p, J)
    BY <1>3 DEF Merge
  <2>2. /\ p \in Seq(Blocks) /\ x \in Blocks /\ m = Append(p, x)
        /\ Len(m) \in Nat \ {0} /\ Len(p) = Len(m) - 1
        /\ \A j \in 1..(Len(m) - 1) : p[j] = m[j]
    BY <1>3, FrontLast
  <2>3. x = m[Len(m)]
    BY DEF Last
  <2> HIDE DEF x, p, l, J
  <2>4. x.first \in Int /\ x.len \in Int /\ End(x) = x.first + x.len
    BY <2>2, BlockFacts
  <2>5. l \in Int /\ l = x.len + b.len
    BY <1>1, <2>4 DEF l
  <2>6. J \in Blocks /\ J.first = x.first /\ J.len = l /\ End(J) = x.first + l
    BY <2>4, <2>5, BlockFacts DEF J
  <2>7. End(J) = End(b)
    BY <1>1, <1>3, <2>4, <2>5, <2>6
  <2>8. x.len > 0
    <3>1. Len(m) \in 1..Len(m)
      BY <2>2
    <3>2. QED
      BY <2>3, <3>1 DEF Gapped
  <2>9. J.len > 0
    BY <1>1, <2>4, <2>5, <2>6, <2>8
  <2>10. \A j \in 1..Len(p) : End(p[j]) < x.first
    <3> SUFFICES ASSUME NEW j \in 1..Len(p) PROVE End(p[j]) < x.first
      OBVIOUS
    <3>1. j \in 1..Len(m) /\ Len(m) \in 1..Len(m) /\ j < Len(m) /\ p[j] = m[j]
      BY <2>2
    <3>2. QED
      BY <2>3, <3>1 DEF Gapped
  <2>11. \A j \in 1..Len(p) : End(p[j]) \in Int
    BY <2>2, ElementOfSeq, BlockFacts
  <2>12. Gapped(p)
    <3>1. \A j \in 1..Len(p) : j \in 1..Len(m) /\ p[j] = m[j]
      BY <2>2
    <3>2. QED
      BY <3>1 DEF Gapped
  <2>13. \A j \in 1..Len(p) : End(p[j]) <= J.first /\ End(p[j]) < J.first
    BY <2>4, <2>6, <2>10, <2>11
  <2>14. \A j \in 1..Len(p) : End(p[j]) <= x.first
    BY <2>4, <2>10, <2>11
  <2>15. /\ Append(p, J) \in Seq(Blocks) /\ Gapped(Append(p, J))
         /\ \A n \in Int : In(Append(p, J), n) <=> In(p, n) \/ (J.first <= n /\ n < End(J))
         /\ \A j \in 1..Len(Append(p, J)) : End(Append(p, J)[j]) <= End(J)
    <3>1. \A j \in 1..Len(p) : End(p[j]) <= J.first
      BY <2>13
    <3>2. /\ Append(p, J) \in Seq(Blocks)
          /\ (Gapped(p) /\ (\A j \in 1..Len(p) : End(p[j]) < J.first)) => Gapped(Append(p, J))
          /\ \A n \in Int : In(Append(p, J), n) <=> In(p, n) \/ (J.first <= n /\ n < End(J))
          /\ \A j \in 1..Len(Append(p, J)) : End(Append(p, J)[j]) <= End(J)
      BY ONLY <2>2, <2>6, <2>9, <3>1, AppendBlock
    <3>3. QED
      BY <2>12, <2>13, <3>2
  <2>16. \A n \in Int : In(m, n) <=> In(p, n) \/ (x.first <= n /\ n < End(x))
    BY <2>2, <2>8, <2>14, AppendBlock
  <2>17. End(b) >= b.first
    BY <1>1
  <2>18. \A n \in Int : In(Append(p, J), n) <=> In(m, n) \/ (b.first <= n /\ n < End(b))
    BY <1>1, <1>3, <2>4, <2>6, <2>7, <2>8, <2>15, <2>16
  <2>19. QED
    BY <2>1, <2>7, <2>15, <2>18
<1>4. CASE ~(m # <<>> /\ End(x) = b.first)
  <2>1. Merge(m, b) = Append(m, b)
    BY <1>4 DEF Merge
  <2>2. \A j \in 1..Len(m) : End(m[j]) < b.first
    <3> SUFFICES ASSUME NEW j \in 1..Len(m) PROVE End(m[j]) < b.first
      OBVIOUS
    <3>1. m # <<>>
      OBVIOUS
    <3>2. x \in Blocks /\ x = m[Len(m)] /\ Len(m) \in 1..Len(m)
      BY <3>1, FrontLast DEF Last
    <3>3. End(x) < b.first
      BY <1>1, <1>2, <1>4, <3>1, <3>2
    <3>4. CASE j = Len(m)
      BY <3>2, <3>3, <3>4
    <3>5. CASE j # Len(m)
      <4>1. j < Len(m)
        BY <3>2, <3>5
      <4>2. End(m[j]) < x.first /\ x.len > 0
        BY <3>2, <4>1 DEF Gapped
      <4>3. x.first \in Int /\ x.len \in Int /\ End(x) = x.first + x.len
        BY <3>2, BlockFacts
      <4> HIDE DEF x
      <4>4. QED
        BY <1>1, <1>2, <3>3, <4>2, <4>3
    <3>6. QED
      BY <3>4, <3>5
  <2>3. QED
    BY <2>1, <2>2, AppendBlock
<1>5. QED
  BY <1>3, <1>4

LEMMA MergeType ==
    ASSUME NEW m \in Seq(Blocks), NEW b \in Blocks
    PROVE  Merge(m, b) \in Seq(Blocks)
<1>1. CASE m # <<>> /\ End(Last(m)) = b.first
  <2>1. Front(m) \in Seq(Blocks) /\ Last(m) \in Blocks
    BY <1>1, FrontLast
  <2>2. Last(m).first \in Int /\ Last(m).len \in Int /\ b.len \in Int
    BY <2>1, BlockFacts
  <2>3. Block(Last(m).first, Last(m).len + b.len) \in Blocks
    <3>1. Last(m).len + b.len \in Int
      BY <2>2
    <3>2. QED
      BY <2>2, <3>1, BlockFacts
  <2>4. Append(Front(m), Block(Last(m).first, Last(m).len + b.len)) \in Seq(Blocks)
    BY <2>1, <2>3, AppendProperties
  <2>5. QED
    BY <1>1, <2>4 DEF Merge
<1>2. CASE ~(m # <<>> /\ End(Last(m)) = b.first)
  BY <1>2, AppendProperties DEF Merge
<1>3. QED
  BY <1>1, <1>2

(* The merging pass, block by block.                                           *)
LEMMA MergeFold ==
    ASSUME NEW list \in Seq(Blocks), NEW init \in Seq(Blocks)
    PROVE  \E w : /\ w[0] = init /\ w[Len(list)] = FoldLeft(Merge, init, list)
                  /\ \A k \in 1..Len(list) : w[k] = Merge(w[k - 1], list[k])
<1> DEFINE n == Len(list)
           F == [p \in Seq(Blocks) \X (1..n) |-> Merge(p[1], list[p[2]])]
           IsFold(h) == h = [s \in SUBSET (DOMAIN list) |->
                               IF s = {} THEN init
                               ELSE Merge(h[s \ {Max(s)}], list[Max(s)])]
           g == CHOOSE h : IsFold(h)
<1>1. n \in Nat /\ DOMAIN list = 1..n /\ \A k \in 1..n : list[k] \in Blocks
  BY LenProperties, ElementOfSeq
<1>2. F \in [Seq(Blocks) \X (1..n) -> Seq(Blocks)]
  BY <1>1, MergeType
<1>3. \E h : IsFold(h)
  <2> HIDE DEF F
  <2>0. PICK h : Folds(h, n, Seq(Blocks), init, F)
    <3>1. n \in Nat /\ init \in Seq(Blocks)
      BY <1>1
    <3> HIDE DEF n
    <3>2. QED
      BY ONLY <3>1, <1>2, FoldExists
  <2>1. /\ h \in [SUBSET (1..n) -> Seq(Blocks)]
        /\ \A s \in SUBSET (1..n) :
              h[s] = IF s = {} THEN init ELSE F[<<h[s \ {Max(s)}], Max(s)>>]
    BY <2>0 DEF Folds
  <2>2. ASSUME NEW s \in SUBSET (1..n), s # {}
        PROVE  F[<<h[s \ {Max(s)}], Max(s)>>] = Merge(h[s \ {Max(s)}], list[Max(s)])
    <3>1. Max(s) \in 1..n
      BY <2>2, <1>1, MaxIn
    <3>2. h[s \ {Max(s)}] \in Seq(Blocks)
      BY <2>1
    <3>3. QED
      BY <3>1, <3>2 DEF F
  <2>3. h = [s \in SUBSET (1..n) |->
               IF s = {} THEN init ELSE Merge(h[s \ {Max(s)}], list[Max(s)])]
    BY <2>1, <2>2
  <2>4. IsFold(h)
    BY <2>3, <1>1
  <2>5. QED
    BY <2>4
<1>4. IsFold(g)
  <2> HIDE DEF IsFold
  <2>1. QED
    BY <1>3
<1>5. FoldLeft(Merge, init, list) = g[1..n]
  BY <1>1 DEF FoldLeft, MapThenFoldSet
<1> HIDE DEF g
<1> DEFINE w == [k \in 0..n |-> g[1..k]]
<1>6. \A s \in SUBSET (1..n) :
         g[s] = IF s = {} THEN init ELSE Merge(g[s \ {Max(s)}], list[Max(s)])
  BY <1>1, <1>4
<1>7. w[0] = init
  <2>1. 1..0 = {} /\ {} \in SUBSET (1..n) /\ 0 \in 0..n
    BY <1>1
  <2> HIDE DEF IsFold
  <2>2. g[{}] = init
    BY <1>6, <2>1
  <2>3. QED
    BY <2>1, <2>2
<1>8. ASSUME NEW k \in 1..n PROVE w[k] = Merge(w[k - 1], list[k])
  <2>1. Max(1..k) = k /\ (1..k) \ {Max(1..k)} = 1..(k - 1) /\ 1..k # {}
    BY <1>1, MaxPrefix
  <2>2. 1..k \in SUBSET (1..n) /\ k - 1 \in 0..n /\ k \in 0..n
    BY <1>1
  <2> HIDE DEF IsFold
  <2>3. g[1..k] = Merge(g[1..(k - 1)], list[k])
    BY <1>6, <2>1, <2>2
  <2>4. QED
    BY <2>2, <2>3
<1>9. w[n] = g[1..n]
  BY <1>1
<1> HIDE DEF w
<1>10. QED
  BY <1>5, <1>7, <1>8, <1>9

(* The list after k blocks of s have been merged.                              *)
Joined(s, m, k) ==
    /\ m \in Seq(Blocks) /\ Gapped(m)
    /\ \A n \in Int : In(m, n) <=> InFirst(s, k, n)
    /\ \A j \in 1..Len(m) : k # 0 /\ End(m[j]) <= End(s[k])

LEMMA MergedIs ==
    ASSUME NEW s \in Seq(Blocks), InOrder(s)
    PROVE  LET r == FoldLeft(Merge, <<>>, s) IN
           /\ r \in Seq(Blocks) /\ Gapped(r)
           /\ \A n \in Int : In(r, n) <=> In(s, n)
<1>1. Len(s) \in Nat /\ <<>> \in Seq(Blocks) /\ \A k \in 1..Len(s) : s[k] \in Blocks
  BY EmptySeq, LenProperties, ElementOfSeq
<1>2. PICK w : /\ w[0] = <<>> /\ w[Len(s)] = FoldLeft(Merge, <<>>, s)
               /\ \A k \in 1..Len(s) : w[k] = Merge(w[k - 1], s[k])
  BY <1>1, MergeFold
<1>3. Joined(s, w[0], 0)
  <2>1. Len(<<>>) = 0
    OBVIOUS
  <2>2. QED
    BY <1>1, <1>2, <2>1 DEF Joined, Gapped, In, InFirst
<1>4. ASSUME NEW k \in 1..Len(s), Joined(s, w[k - 1], k - 1)
      PROVE  Joined(s, w[k], k)
  <2> DEFINE m == w[k - 1]
             b == s[k]
  <2>1. /\ b \in Blocks /\ b.len > 0 /\ b.first \in Int /\ End(b) \in Int
    BY <1>1, BlockFacts DEF InOrder
  <2>2. m \in Seq(Blocks) /\ Gapped(m) /\ \A j \in 1..Len(m) : End(m[j]) \in Int
    BY <1>4, ElementOfSeq, BlockFacts DEF Joined
  <2>3. k - 1 # 0 => End(s[k - 1]) \in Int /\ End(s[k - 1]) <= b.first
    <3> SUFFICES ASSUME k - 1 # 0 PROVE End(s[k - 1]) \in Int /\ End(s[k - 1]) <= b.first
      OBVIOUS
    <3>1. k - 1 \in 1..Len(s) /\ k - 1 < k
      BY <1>1
    <3>2. QED
      BY <1>1, <3>1, BlockFacts DEF InOrder
  <2>4. \A j \in 1..Len(m) : k - 1 # 0 /\ End(m[j]) <= End(s[k - 1])
    BY <1>4 DEF Joined
  <2>5. w[k] = Merge(m, b) /\ k # 0 /\ k \in Nat
    BY <1>1, <1>2
  <2>6. \A n \in Int : In(m, n) <=> InFirst(s, k - 1, n)
    BY <1>4 DEF Joined
  <2> HIDE DEF m
  <2>7. \A j \in 1..Len(m) : End(m[j]) <= b.first
    <3> HIDE DEF b
    <3>1. QED
      BY <2>1, <2>2, <2>3, <2>4
  <2>8. /\ w[k] \in Seq(Blocks) /\ Gapped(w[k])
        /\ \A n \in Int : In(w[k], n) <=> In(m, n) \/ (b.first <= n /\ n < End(b))
        /\ \A j \in 1..Len(w[k]) : End(w[k][j]) <= End(b)
    <3> HIDE DEF b
    <3>1. QED
      BY <2>1, <2>2, <2>5, <2>7, MergeStep
  <2>9. \A n \in Int : InFirst(s, k, n) <=> InFirst(s, k - 1, n) \/ (b.first <= n /\ n < End(b))
    <3>1. \A j \in 1..k : j \in 1..(k - 1) \/ j = k
      BY <1>1
    <3>2. k \in 1..k /\ \A j \in 1..(k - 1) : j \in 1..k
      BY <1>1
    <3>3. QED
      BY <3>1, <3>2 DEF InFirst
  <2>10. QED
    BY <2>5, <2>6, <2>8, <2>9 DEF Joined
<1> DEFINE Bad == {k \in 1..Len(s) : ~Joined(s, w[k], k)}
<1>5. Bad = {}
  <2>1. SUFFICES ASSUME Bad # {} PROVE FALSE
    OBVIOUS
  <2>2. Bad \in SUBSET Nat
    BY <1>1
  <2>3. /\ \A k \in 1..Len(s) : k \notin Bad => Joined(s, w[k], k)
        /\ \A k \in Bad : k \in 1..Len(s) /\ ~Joined(s, w[k], k)
    OBVIOUS
  <2> HIDE DEF Bad
  <2>4. PICK k \in Bad : \A i \in Bad : k <= i
    BY <2>1, <2>2, LeastNat
  <2>5. k \in 1..Len(s) /\ k - 1 \notin Bad /\ (k - 1 = 0 \/ k - 1 \in 1..Len(s))
    BY <1>1, <2>2, <2>3, <2>4
  <2>6. Joined(s, w[k - 1], k - 1)
    BY <1>3, <2>3, <2>5
  <2>7. QED
    BY <1>4, <2>3, <2>5, <2>6
<1>6. Joined(s, w[Len(s)], Len(s))
  <2>1. Len(s) = 0 \/ Len(s) \in 1..Len(s)
    BY <1>1
  <2>2. \A k \in 1..Len(s) : Joined(s, w[k], k)
    BY <1>5
  <2> HIDE DEF Bad
  <2>3. QED
    BY <1>3, <2>1, <2>2
<1> DEFINE r == FoldLeft(Merge, <<>>, s)
<1>7. Joined(s, r, Len(s))
  BY <1>2, <1>6
<1> HIDE DEF r
<1>8. QED
  BY <1>7 DEF Joined, In, r

(* sack(seq, sz): the maximal runs of what the list held and the new block.     *)
LEMMA SackIs ==
    ASSUME NEW c \in Seq(Blocks), Gapped(c), NEW s0 \in Int, NEW z0 \in Nat
    PROVE  LET r == Sack(c, s0, z0) IN
           /\ r \in Seq(Blocks) /\ Gapped(r)
           /\ \A n \in Int : In(r, n) <=> In(c, n) \/ (s0 <= n /\ n < s0 + z0)
<1> DEFINE st == Inserted(c, s0, z0)
           r == Sack(c, s0, z0)
<1>1. CASE z0 = 0
  <2>1. r = c
    BY <1>1 DEF Sack
  <2>2. \A n \in Int : ~(s0 <= n /\ n < s0 + z0)
    BY <1>1
  <2> HIDE DEF r
  <2>3. QED
    BY <2>1, <2>2 DEF r
<1>2. CASE z0 # 0
  <2>1. /\ st.out \in Seq(Blocks) /\ InOrder(st.out)
        /\ \A n \in Int : In(st.out, n) <=> In(c, n) \/ (s0 <= n /\ n < s0 + z0)
        /\ ~st.merge => Gapped(st.out)
    BY <1>2, InsertedIs
  <2> DEFINE f == FoldLeft(Merge, <<>>, st.out)
  <2>2. f \in Seq(Blocks) /\ Gapped(f) /\ \A n \in Int : In(f, n) <=> In(st.out, n)
    BY <2>1, MergedIs
  <2>3. r = IF st.merge THEN f ELSE st.out
    BY <1>2 DEF Sack
  <2> HIDE DEF st, f, r
  <2>4. QED
    BY <2>1, <2>2, <2>3 DEF r
<1>3. QED
  BY <1>1, <1>2

(* The byte after a block is in no block.                                      *)
LEMMA GapAfter ==
    ASSUME NEW c \in Seq(Blocks), Gapped(c), NEW k \in 1..Len(c)
    PROVE  ~In(c, End(c[k]))
<1> SUFFICES ASSUME NEW j \in 1..Len(c), c[j].first <= End(c[k]), End(c[k]) < End(c[j])
             PROVE  FALSE
  BY DEF In, InFirst
<1>1. /\ c[j].first \in Int /\ End(c[j]) \in Int /\ c[k].first \in Int /\ End(c[k]) \in Int
      /\ c[k].first < End(c[k]) /\ c[j].first < End(c[j])
  <2>1. c[j] \in Blocks /\ c[k] \in Blocks /\ c[j].len > 0 /\ c[k].len > 0
    BY ElementOfSeq DEF Gapped
  <2>2. /\ c[j].first \in Int /\ c[j].len \in Int /\ End(c[j]) = c[j].first + c[j].len
        /\ c[k].first \in Int /\ c[k].len \in Int /\ End(c[k]) = c[k].first + c[k].len
        /\ End(c[j]) \in Int /\ End(c[k]) \in Int
    BY <2>1, BlockFacts
  <2>3. QED
    BY <2>1, <2>2
<1>2. j \in Int /\ k \in Int /\ (j < k \/ j = k \/ k < j)
  BY LenProperties
<1>3. j < k => End(c[j]) < c[k].first
  BY DEF Gapped
<1>4. k < j => End(c[k]) < c[j].first
  BY DEF Gapped
<1>5. j # k
  BY <1>1
<1>6. QED
  BY <1>1, <1>2, <1>3, <1>4, <1>5

(* A nonempty set of naturals has a minimum.                                   *)
LEMMA MinIn ==
    ASSUME NEW s \in SUBSET Nat, s # {}
    PROVE  Min(s) \in s /\ \A y \in s : Min(s) <= y
<1>1. \E x \in s : \A y \in s : x <= y
  BY LeastNat
<1>2. QED
  BY <1>1 DEF Min

(* The first block of those discardUpTo keeps, and the others.                 *)
LEMMA KeptIs ==
    ASSUME NEW c \in Seq(Blocks), Gapped(c), NEW u \in Int
    PROVE  \E p \in 1..(Len(c) + 1) :
              /\ \A j \in 1..Len(c) : j < p => End(c[j]) <= u
              /\ p <= Len(c) => u < End(c[p])
              /\ Kept(c, u) = SubSeq(c, p, Len(c))
<1> DEFINE L == Len(c)
           s == {k \in 1..(L + 1) : k <= L => End(c[k]) > u}
           p == Min(s)
<1>1. L \in Nat /\ \A j \in 1..L : End(c[j]) \in Int
  BY LenProperties, ElementOfSeq, BlockFacts
<1>2. s \in SUBSET Nat /\ s # {}
  <2>1. L + 1 \in s
    BY <1>1
  <2>2. QED
    BY <1>1, <2>1
<1>3. Kept(c, u) = SubSeq(c, p, L)
  BY DEF Kept
<1>4. p \in s /\ \A y \in s : p <= y
  <2> HIDE DEF s
  <2>1. QED
    BY <1>2, MinIn
<1> HIDE DEF p
<1>5. p \in 1..(L + 1) /\ (p <= L => u < End(c[p]))
  BY <1>1, <1>4
<1>6. ASSUME NEW j \in 1..L, j < p PROVE End(c[j]) <= u
  <2>1. j \notin s
    <3> HIDE DEF s
    <3>1. p \in Int /\ j \in Int
      BY <1>1, <1>5
    <3>2. QED
      BY <1>4, <1>6, <3>1
  <2>2. ~(End(c[j]) > u)
    BY <1>1, <2>1
  <2>3. QED
    BY <1>1, <2>2
<1>7. QED
  BY <1>3, <1>5, <1>6

(* discardUpTo(u): the bytes from u on, in the same blocks.                    *)
LEMMA DiscardIs ==
    ASSUME NEW c \in Seq(Blocks), Gapped(c), NEW u \in Int
    PROVE  LET d == DiscardUpTo(c, u) IN
           /\ d \in Seq(Blocks) /\ Gapped(d)
           /\ \A j \in 1..Len(d) : d[j].first >= u
           /\ \A n \in Int : In(d, n) <=> In(c, n) /\ u <= n
<1> DEFINE L == Len(c)
           kept == Kept(c, u)
           d == DiscardUpTo(c, u)
           B == Block(u, End(Head(kept)) - u)
<1>1. /\ L \in Nat
      /\ \A j \in 1..L : c[j] \in Blocks /\ c[j].first \in Int /\ End(c[j]) \in Int
                         /\ c[j].first < End(c[j])
  <2>1. \A j \in 1..L : c[j] \in Blocks /\ c[j].len > 0
    BY ElementOfSeq DEF Gapped
  <2>2. \A b \in Blocks : /\ b.first \in Int /\ b.len \in Int /\ End(b) \in Int
                          /\ End(b) = b.first + b.len
    BY BlockFacts
  <2>3. \A b \in Blocks : b.len > 0 => b.first < End(b)
    BY <2>2
  <2>4. QED
    BY <2>1, <2>2, <2>3, LenProperties
<1>2. PICK p \in 1..(L + 1) : /\ \A j \in 1..L : j < p => End(c[j]) <= u
                              /\ p <= L => u < End(c[p])
                              /\ kept = SubSeq(c, p, L)
  BY KeptIs
<1>3. p \in Int /\ p >= 1 /\ p <= L + 1
  BY <1>1
<1> DEFINE q == (L - p) + 1
<1>4. q \in Nat /\ (q = 0 <=> p = L + 1)
  BY <1>1, <1>3
<1>5. kept \in Seq(Blocks) /\ Len(kept) = q /\ \A i \in 1..q : kept[i] = c[(p + i) - 1]
  <2>1. \A i \in p..L : c[i] \in Blocks
    BY <1>1, <1>3
  <2>2. /\ kept \in Seq(Blocks) /\ Len(kept) = (IF p <= L THEN L - p + 1 ELSE 0)
        /\ \A i \in 1..(L - p + 1) : kept[i] = c[p + i - 1]
    <3> HIDE DEF kept, L
    <3>1. QED
      BY ONLY <1>1, <1>2, <1>3, <2>1, SubSeqProperties
  <2>3. QED
    BY <1>1, <1>3, <2>2
<1> DEFINE Result(r) ==
       /\ r \in Seq(Blocks) /\ Len(r) = q
       /\ \A i \in 1..q : i # 1 => r[i] = c[(p + i) - 1]
       /\ q # 0 => /\ r[1].first = (IF c[p].first < u THEN u ELSE c[p].first)
                   /\ End(r[1]) = End(c[p])
<1>6. Result(d)
  <2>1. CASE kept # <<>> /\ Head(kept).first < u
    <3>1. q # 0 /\ p \in 1..L /\ 1 \in 1..q /\ (p + 1) - 1 = p
      <4>1. q # 0
        BY <1>5, <2>1, EmptySeq
      <4>2. QED
        BY <1>1, <1>3, <1>4, <4>1
    <3>2. Head(kept) = c[p]
      <4>1. Head(kept) = kept[1]
        BY <2>1, <1>5
      <4>2. QED
        BY <1>5, <3>1, <4>1
    <3> DEFINE t == Tail(kept)
    <3>3. t \in Seq(Blocks) /\ Len(t) = q - 1 /\ \A i \in 1..(q - 1) : t[i] = kept[i + 1]
      BY <1>5, <2>1, HeadTailProperties
    <3>4. B \in Blocks /\ B.first = u /\ End(B) = End(c[p])
      <4>1. End(c[p]) - u \in Int /\ u + (End(c[p]) - u) = End(c[p])
        BY <1>1, <3>1
      <4>2. B = Block(u, End(c[p]) - u)
        BY <3>2
      <4> HIDE DEF B
      <4>3. QED
        BY <4>1, <4>2, BlockFacts
    <3>5. d = <<B>> \o t
      BY <2>1 DEF DiscardUpTo
    <3> HIDE DEF B, t, q, kept
    <3>6. <<B>> \in Seq(Blocks) /\ Len(<<B>>) = 1 /\ <<B>>[1] = B
      BY <3>4
    <3>7. /\ d \in Seq(Blocks) /\ Len(d) = 1 + (q - 1)
          /\ \A i \in 1..(1 + (q - 1)) : d[i] = IF i <= 1 THEN <<B>>[i] ELSE t[i - 1]
      <4> DEFINE o == <<B>>
      <4> HIDE DEF o
      <4>1. /\ o \o t \in Seq(Blocks) /\ Len(o \o t) = Len(o) + Len(t)
            /\ \A i \in 1..(Len(o) + Len(t)) :
                  (o \o t)[i] = IF i <= Len(o) THEN o[i] ELSE t[i - Len(o)]
        BY <3>3, <3>6, ConcatProperties DEF o
      <4>2. d = o \o t /\ Len(o) = 1
        BY <3>5, <3>6 DEF o
      <4>3. QED
        BY <3>3, <4>1, <4>2 DEF o
    <3>8. Len(d) = q /\ d[1] = B /\ \A i \in 1..q : i # 1 => d[i] = kept[i]
      <4>1. 1 + (q - 1) = q /\ 1 \in 1..q
        BY <1>4, <3>1
      <4>2. d[1] = B
        BY <3>6, <3>7, <4>1
      <4>3. ASSUME NEW i \in 1..q, i # 1 PROVE d[i] = kept[i]
        <5>1. i - 1 \in 1..(q - 1) /\ (i - 1) + 1 = i /\ ~(i <= 1)
          BY <1>4, <4>3
        <5>2. d[i] = t[i - 1]
          BY <3>7, <4>1, <5>1
        <5>3. t[i - 1] = kept[(i - 1) + 1]
          BY <3>3, <5>1
        <5>4. QED
          BY <5>1, <5>2, <5>3
      <4>4. QED
        BY <3>7, <4>1, <4>2, <4>3
    <3>9. c[p].first < u
      BY <2>1, <3>2
    <3>10. QED
      BY <1>5, <3>1, <3>4, <3>7, <3>8, <3>9
  <2>2. CASE ~(kept # <<>> /\ Head(kept).first < u)
    <3>1. d = kept
      BY <2>2 DEF DiscardUpTo
    <3>2. ASSUME q # 0 PROVE d[1] = c[p] /\ ~(c[p].first < u)
      <4>1. 1 \in 1..q /\ (p + 1) - 1 = p
        BY <1>3, <1>4, <3>2
      <4>2. kept[1] = c[p]
        BY <1>5, <4>1
      <4>3. kept # <<>>
        BY <1>5, <3>2, EmptySeq
      <4>4. Head(kept) = c[p]
        BY <1>5, <4>2, <4>3
      <4>5. QED
        BY <2>2, <3>1, <4>2, <4>3, <4>4
    <3> HIDE DEF kept, d, q
    <3>3. QED
      BY <1>5, <3>1, <3>2
  <2>3. QED
    BY <2>1, <2>2
<1> HIDE DEF kept, d, B
<1>7. /\ d \in Seq(Blocks) /\ Len(d) = q
      /\ \A i \in 1..q : d[i] \in Blocks /\ d[i].first \in Int /\ d[i].len \in Int
                         /\ End(d[i]) \in Int /\ End(d[i]) = d[i].first + d[i].len
  BY <1>6, ElementOfSeq, BlockFacts
<1> DEFINE at(i) == (p + i) - 1
<1>8. ASSUME NEW i \in 1..q
      PROVE  /\ at(i) \in 1..L /\ at(i) >= p /\ (i # 1 => at(i) > p) /\ p \in 1..L
             /\ End(d[i]) = End(c[at(i)])
             /\ d[i].first >= u /\ d[i].first >= c[at(i)].first /\ d[i].first < End(d[i])
             /\ d[i].first = c[at(i)].first \/ d[i].first = u
  <2>1. at(i) \in 1..L /\ at(i) >= p /\ (i # 1 => at(i) > p) /\ p \in 1..L /\ (i = 1 => at(i) = p)
    BY <1>1, <1>3, <1>4
  <2>2. CASE i = 1
    <3>1. at(i) = p /\ q # 0
      BY <1>4, <2>1, <2>2
    <3>2. u < End(c[p])
      BY <1>2, <2>1, <1>1
    <3>3. /\ d[1].first = (IF c[p].first < u THEN u ELSE c[p].first)
          /\ End(d[1]) = End(c[p])
      BY <1>6, <3>1
    <3> HIDE DEF q, at, L
    <3>4. QED
      BY <1>1, <2>1, <2>2, <3>1, <3>2, <3>3
  <2>3. CASE i # 1
    <3>1. d[i] = c[at(i)]
      BY <1>6, <2>3
    <3>2. u < End(c[p]) /\ End(c[p]) < c[at(i)].first
      BY <1>1, <1>2, <2>1, <2>3 DEF Gapped
    <3> HIDE DEF q, at, L
    <3>3. QED
      BY <1>1, <2>1, <2>3, <3>1, <3>2
  <2>4. QED
    BY <2>2, <2>3
<1>9. Gapped(d)
  <2>1. \A i \in 1..Len(d) : d[i].len > 0
    <3> SUFFICES ASSUME NEW i \in 1..q PROVE d[i].len > 0
      BY <1>7
    <3>1. d[i].first < End(d[i])
      BY <1>8
    <3> HIDE DEF q
    <3>2. QED
      BY <1>7, <3>1
  <2>2. ASSUME NEW i \in 1..q, NEW j \in 1..q, i < j PROVE End(d[i]) < d[j].first
    <3>1. at(i) \in 1..L /\ at(j) \in 1..L /\ at(i) < at(j)
      BY <1>3, <1>4, <1>8, <2>2
    <3>2. End(c[at(i)]) < c[at(j)].first
      BY <3>1 DEF Gapped
    <3>3. End(d[i]) = End(c[at(i)]) /\ d[j].first >= c[at(j)].first
      BY <1>8
    <3> HIDE DEF q, at, L
    <3>4. c[at(j)].first \in Int /\ End(c[at(i)]) \in Int /\ d[j].first \in Int
      BY <1>1, <1>7, <3>1
    <3>5. QED
      BY ONLY <3>2, <3>3, <3>4
  <2>3. QED
    BY <1>7, <2>1, <2>2 DEF Gapped
<1>10. \A j \in 1..Len(d) : d[j].first >= u
  BY <1>7, <1>8
<1>11. ASSUME NEW n \in Int PROVE In(d, n) <=> In(c, n) /\ u <= n
  <2>1. ASSUME In(d, n) PROVE In(c, n) /\ u <= n
    <3>1. PICK i \in 1..q : d[i].first <= n /\ n < End(d[i])
      BY <1>7, <2>1 DEF In, InFirst
    <3>2. /\ at(i) \in 1..L /\ End(d[i]) = End(c[at(i)])
          /\ d[i].first >= u /\ d[i].first >= c[at(i)].first
      BY <1>8
    <3> HIDE DEF q, at
    <3>3. c[at(i)].first <= n /\ n < End(c[at(i)]) /\ u <= n
      BY <1>1, <1>7, <3>1, <3>2
    <3>4. QED
      BY <3>2, <3>3 DEF In, InFirst
  <2>2. ASSUME In(c, n), u <= n PROVE In(d, n)
    <3>1. PICK j \in 1..L : c[j].first <= n /\ n < End(c[j])
      BY <2>2 DEF In, InFirst
    <3>2. ~(j < p)
      BY <1>1, <1>2, <2>2, <3>1
    <3> DEFINE i == (j - p) + 1
    <3>3. i \in 1..q /\ at(i) = j
      BY <1>1, <1>3, <3>2
    <3> HIDE DEF i
    <3>4. /\ End(d[i]) = End(c[j])
          /\ d[i].first = c[j].first \/ d[i].first = u
      BY <1>8, <3>3
    <3> HIDE DEF q, at
    <3>5. d[i].first <= n /\ n < End(d[i])
      BY <2>2, <3>1, <3>4
    <3>6. QED
      BY <1>7, <3>3, <3>5 DEF In, InFirst
  <2>3. QED
    BY <2>1, <2>2
<1>12. QED
  BY <1>7, <1>9, <1>10, <1>11 DEF d

(* Where snd_una goes: over what is held from there on without a gap.          *)
LEMMA NextUnaIs ==
    ASSUME NEW c \in Seq(Blocks), Gapped(c), NEW start \in Int,
           (\A n \in Int : In(c, n) => start <= n) \/ ~In(c, start)
    PROVE  LET u == NextUna(start, c) IN
           /\ u \in Int /\ start <= u /\ ~In(c, u)
           /\ \A n \in Int : start <= n /\ n < u => In(c, n)
<1> DEFINE u == NextUna(start, c)
<1>1. \A j \in 1..Len(c) : /\ c[j] \in Blocks /\ c[j].first \in Int /\ End(c[j]) \in Int
                           /\ c[j].first < End(c[j])
  <2>1. \A j \in 1..Len(c) : c[j] \in Blocks /\ c[j].len > 0
    BY ElementOfSeq DEF Gapped
  <2>2. \A b \in Blocks : /\ b.first \in Int /\ b.len \in Int /\ End(b) \in Int
                          /\ End(b) = b.first + b.len
    BY BlockFacts
  <2>3. \A b \in Blocks : b.len > 0 => b.first < End(b)
    BY <2>2
  <2>4. QED
    BY <2>1, <2>2, <2>3
<1>2. c # <<>> => 1 \in 1..Len(c) /\ Head(c) = c[1]
  <2>1. c # <<>> => Len(c) \in Nat /\ Len(c) # 0
    BY EmptySeq, LenProperties
  <2>2. QED
    BY <2>1
<1>3. CASE c # <<>> /\ Head(c).first = start
  <2>1. u = End(c[1]) /\ c[1].first = start /\ 1 \in 1..Len(c)
    BY <1>2, <1>3 DEF NextUna
  <2>2. ~In(c, End(c[1]))
    BY <2>1, GapAfter
  <2>3. \A n \in Int : start <= n /\ n < u => In(c, n)
    BY <2>1 DEF In, InFirst
  <2> HIDE DEF u
  <2>4. u \in Int /\ start <= u
    BY <1>1, <2>1
  <2>5. QED
    BY <2>1, <2>2, <2>3, <2>4 DEF u
<1>4. CASE ~(c # <<>> /\ Head(c).first = start)
  <2>1. u = start
    BY <1>4 DEF NextUna
  <2>2. ~In(c, start)
    <3>1. SUFFICES ASSUME In(c, start) PROVE FALSE
      OBVIOUS
    <3>2. \A n \in Int : In(c, n) => start <= n
      BY <3>1
    <3>3. PICK j \in 1..Len(c) : c[j].first <= start /\ start < End(c[j])
      BY <3>1 DEF In, InFirst
    <3>4. c # <<>>
      BY <3>3
    <3>5. c[1].first # start /\ 1 \in 1..Len(c)
      BY <1>2, <1>4, <3>4
    <3>6. In(c, c[1].first) /\ c[1].first \in Int
      BY <1>1, <3>5 DEF In, InFirst
    <3>7. start < c[1].first
      BY <3>2, <3>5, <3>6
    <3>8. j = 1 \/ 1 < j
      BY <3>3
    <3>9. c[1].first <= c[j].first
      <4>1. CASE j = 1
        BY <1>1, <3>5, <4>1
      <4>2. CASE 1 < j
        <5>1. End(c[1]) < c[j].first
          BY <3>3, <3>5, <4>2 DEF Gapped
        <5>2. QED
          BY <1>1, <3>3, <3>5, <5>1
      <4>3. QED
        BY <3>8, <4>1, <4>2
    <3>10. c[j].first \in Int /\ c[1].first \in Int
      BY <1>1, <3>3, <3>5
    <3>11. QED
      BY ONLY <3>3, <3>7, <3>9, <3>10, start \in Int
  <2>3. \A n \in Int : ~(start <= n /\ n < start)
    OBVIOUS
  <2> HIDE DEF u
  <2>4. QED
    BY <2>1, <2>2, <2>3 DEF u
<1>5. QED
  BY <1>3, <1>4

-----------------------------------------------------------------------------
(* The inductive invariant: the list is gapped, lies after snd_una and holds   *)
(* the acknowledged bytes.                                                     *)
SackInv ==
    /\ m_data \in Seq(Blocks) /\ Gapped(m_data)
    /\ \A k \in 1..Len(m_data) : m_data[k].first > snd_una
    /\ snd_una \in 0..MaxSeq /\ bytes \in SUBSET (0..(MaxSeq - 1))
    /\ \A n \in Int : In(m_data, n) <=> n \in bytes

LEMMA HoldIs ==
    ASSUME NEW start \in Int, NEW all, NEW u \in start..(MaxSeq + 1), u \notin all,
           start..(u - 1) \subseteq all, MaxSeq \in Nat, Hold(start, all)
    PROVE  bytes' = {s \in all : s >= u}
<1> DEFINE IsNext(s) == s \in start..(MaxSeq + 1) /\ s \notin all /\ start..(s - 1) \subseteq all
           next == CHOOSE s \in start..(MaxSeq + 1) : s \notin all /\ start..(s - 1) \subseteq all
<1>1. IsNext(u)
  OBVIOUS
<1>2. IsNext(next)
  BY <1>1
<1>3. next = u
  <2> HIDE DEF next
  <2>1. next < u => next \in start..(u - 1)
    BY <1>2
  <2>2. u < next => u \in start..(next - 1)
    BY <1>2
  <2>3. QED
    BY <1>1, <1>2, <2>1, <2>2
<1>4. QED
  BY <1>3 DEF Hold

(* What both handlers do once the block is in the list: list holds the bytes   *)
(* of held, of which those from start on are kept.                               *)
LEMMA Settles ==
    ASSUME MaxSeq \in Nat,
           NEW list \in Seq(Blocks), Gapped(list), NEW start \in 0..MaxSeq,
           NEW held \in SUBSET (0..(MaxSeq - 1)),
           \A n \in Int : In(list, n) <=> n \in held,
           (\A n \in held : start <= n) \/ start \notin held,
           snd_una' = NextUna(start, list),
           m_data' = DiscardUpTo(list, snd_una'),
           Hold(start, {s \in held : s >= start})
    PROVE  SackInv'
<1> DEFINE u == NextUna(start, list)
           all == {s \in held : s >= start}
           d == DiscardUpTo(list, u)
<1>1. /\ u \in Int /\ start <= u /\ ~In(list, u)
      /\ \A n \in Int : start <= n /\ n < u => In(list, n)
  <2>1. (\A n \in Int : In(list, n) => start <= n) \/ ~In(list, start)
    OBVIOUS
  <2>2. start \in Int
    OBVIOUS
  <2>3. QED
    BY <2>1, <2>2, NextUnaIs
<1>2. /\ d \in Seq(Blocks) /\ Gapped(d)
      /\ \A j \in 1..Len(d) : d[j].first >= u
      /\ \A n \in Int : In(d, n) <=> In(list, n) /\ u <= n
  <2> HIDE DEF u
  <2>1. QED
    BY <1>1, DiscardIs
<1>3. snd_una' = u /\ m_data' = d
  OBVIOUS
<1> HIDE DEF u, d
<1>4. u \in 0..MaxSeq
  <2>1. CASE u = start
    BY <2>1
  <2>2. CASE u # start
    <3>1. u - 1 \in Int /\ start <= u - 1 /\ u - 1 < u
      BY <1>1, <2>2
    <3>2. u - 1 \in held
      BY <1>1, <3>1
    <3>3. QED
      BY <1>1, <3>2
  <2>3. QED
    BY <2>1, <2>2
<1>5. bytes' = {s \in all : s >= u}
  <2>1. start \in Int /\ u \in start..(MaxSeq + 1)
    BY <1>1, <1>4
  <2>2. u \notin all
    BY <1>1
  <2>3. start..(u - 1) \subseteq all
    <3> SUFFICES ASSUME NEW n \in start..(u - 1) PROVE n \in all
      OBVIOUS
    <3>1. n \in Int /\ start <= n /\ n < u
      BY <1>1
    <3>2. QED
      BY <1>1, <3>1
  <2>4. Hold(start, all)
    OBVIOUS
  <2> HIDE DEF all
  <2>5. QED
    BY <2>1, <2>2, <2>3, <2>4, HoldIs
<1>6. \A n \in Int : In(d, n) <=> n \in bytes'
  BY <1>1, <1>2, <1>5
<1>7. \A k \in 1..Len(d) : d[k].first > u
  <2> SUFFICES ASSUME NEW k \in 1..Len(d) PROVE d[k].first > u
    OBVIOUS
  <2>1. d[k] \in Blocks /\ d[k].len > 0
    BY <1>2, ElementOfSeq DEF Gapped
  <2>2. /\ d[k].first \in Int /\ d[k].len \in Int /\ End(d[k]) = d[k].first + d[k].len
    BY <2>1, BlockFacts
  <2>3. In(d, d[k].first)
    BY <2>1, <2>2 DEF In, InFirst
  <2>4. d[k].first # u
    BY <1>1, <1>2, <2>3
  <2>5. d[k].first >= u
    BY <1>2
  <2>6. QED
    BY ONLY <1>1, <2>2, <2>4, <2>5
<1>8. bytes' \in SUBSET (0..(MaxSeq - 1))
  BY <1>5
<1>9. QED
  BY <1>2, <1>3, <1>4, <1>6, <1>7, <1>8 DEF SackInv

(* A packet added to the list.                                                 *)
LEMMA SackAdds ==
    ASSUME SackInv, MaxSeq \in Nat, NEW seq \in 0..MaxSeq, NEW sz \in 0..(MaxSeq - seq)
    PROVE  LET list == Sack(m_data, seq, sz) IN
           /\ list \in Seq(Blocks) /\ Gapped(list)
           /\ bytes \cup Range2(seq, sz) \in SUBSET (0..(MaxSeq - 1))
           /\ \A n \in Int : In(list, n) <=> n \in bytes \cup Range2(seq, sz)
<1> DEFINE list == Sack(m_data, seq, sz)
<1>1. seq \in Int /\ sz \in Nat /\ seq + sz <= MaxSeq
  OBVIOUS
<1>2. m_data \in Seq(Blocks) /\ Gapped(m_data) /\ bytes \in SUBSET (0..(MaxSeq - 1))
      /\ \A n \in Int : In(m_data, n) <=> n \in bytes
  BY DEF SackInv
<1>3. /\ list \in Seq(Blocks) /\ Gapped(list)
      /\ \A n \in Int : In(list, n) <=> In(m_data, n) \/ (seq <= n /\ n < seq + sz)
  BY <1>1, <1>2, SackIs
<1>4. \A n \in Int : n \in Range2(seq, sz) <=> seq <= n /\ n < seq + sz
  BY <1>1 DEF Range2
<1>5. Range2(seq, sz) \in SUBSET (0..(MaxSeq - 1))
  BY <1>1 DEF Range2
<1> HIDE DEF list
<1>6. QED
  BY <1>2, <1>3, <1>4, <1>5 DEF list

LEMMA SackInvInit ==
    ASSUME SackInit
    PROVE  SackInv
<1>1. m_data = <<>> /\ snd_una = 0 /\ bytes = {} /\ MaxSeq \in Nat
  BY MaxSeqAssumption DEF SackInit
<1>2. m_data \in Seq(Blocks) /\ Len(m_data) = 0
  BY <1>1, EmptySeq
<1>3. QED
  BY <1>1, <1>2 DEF SackInv, Gapped, In, InFirst

(* What is held lies after snd_una.                                            *)
LEMMA HeldAfter ==
    ASSUME SackInv, MaxSeq \in Nat
    PROVE  /\ snd_una \in 0..MaxSeq /\ bytes \in SUBSET (0..(MaxSeq - 1))
           /\ \A n \in bytes : snd_una < n /\ snd_una <= n
<1>1. /\ m_data \in Seq(Blocks) /\ \A k \in 1..Len(m_data) : m_data[k].first > snd_una
      /\ snd_una \in 0..MaxSeq /\ bytes \in SUBSET (0..(MaxSeq - 1))
      /\ \A n \in Int : In(m_data, n) <=> n \in bytes
  BY DEF SackInv
<1>2. \A k \in 1..Len(m_data) : m_data[k] \in Blocks
  BY <1>1, ElementOfSeq
<1>3. \A k \in 1..Len(m_data) : m_data[k].first \in Int
  BY <1>2 DEF Blocks
<1>4. snd_una \in Int /\ \A n \in bytes : n \in Int
  BY <1>1
<1>5. ASSUME NEW n \in bytes PROVE snd_una < n /\ snd_una <= n
  <2>1. PICK j \in 1..Len(m_data) : m_data[j].first <= n
    BY <1>1, <1>4 DEF In, InFirst
  <2>2. m_data[j].first > snd_una /\ m_data[j].first \in Int
    BY <1>1, <1>3
  <2>3. QED
    BY ONLY <1>4, <2>1, <2>2
<1>6. QED
  BY <1>1, <1>5

LEMMA SackInvStep ==
    ASSUME SackInv, [SackNext]_sackVars
    PROVE  SackInv'
<1> USE MaxSeqAssumption
<1>1. CASE UNCHANGED sackVars
  BY <1>1 DEF SackInv, sackVars, Gapped, In, InFirst
<1>2. ASSUME NEW seq \in 0..MaxSeq, NEW sz \in 0..(MaxSeq - seq), AcknowledgeForLaps(seq, sz)
      PROVE  SackInv'
  <2> DEFINE list == Sack(m_data, seq, sz)
             held == bytes \cup Range2(seq, sz)
  <2>1. /\ list \in Seq(Blocks) /\ Gapped(list) /\ held \in SUBSET (0..(MaxSeq - 1))
        /\ \A n \in Int : In(list, n) <=> n \in held
    BY SackAdds
  <2>2. /\ snd_una <= seq /\ snd_una' = NextUna(snd_una, list)
        /\ m_data' = DiscardUpTo(list, snd_una') /\ Hold(snd_una, held)
    BY <1>2 DEF AcknowledgeForLaps
  <2> HIDE DEF list
  <2>3. snd_una \in 0..MaxSeq /\ \A n \in bytes : snd_una <= n
    BY HeldAfter
  <2>4. \A n \in held : snd_una <= n
    BY <2>2, <2>3 DEF Range2
  <2>5. {s \in held : s >= snd_una} = held
    BY <2>1, <2>3, <2>4
  <2> HIDE DEF held
  <2>6. QED
    BY <2>1, <2>2, <2>3, <2>4, <2>5, Settles
<1>3. ASSUME NEW seq \in 0..MaxSeq, NEW sz \in 0..(MaxSeq - seq), NEW ack \in 0..MaxSeq,
             ReceiveAckIrn(ack, seq, sz)
      PROVE  SackInv'
  <2> DEFINE start == IF ack > snd_una THEN ack ELSE snd_una
             list == Sack(m_data, seq, sz)
             held == bytes \cup Range2(seq, sz)
  <2>1. /\ list \in Seq(Blocks) /\ Gapped(list) /\ held \in SUBSET (0..(MaxSeq - 1))
        /\ \A n \in Int : In(list, n) <=> n \in held
    BY SackAdds
  <2>2. /\ ack \notin bytes
        /\ sz > 0 => ack < seq /\ (start <= seq \/ seq + sz <= start)
        /\ snd_una' = NextUna(start, list)
        /\ m_data' = DiscardUpTo(list, snd_una')
        /\ Hold(start, {s \in held : s >= start})
    BY <1>3 DEF ReceiveAckIrn
  <2> HIDE DEF list
  <2>3. /\ snd_una \in 0..MaxSeq /\ (\A n \in bytes : snd_una < n)
        /\ bytes \in SUBSET (0..(MaxSeq - 1))
    BY HeldAfter
  <2>4. start \in 0..MaxSeq
    BY <2>3
  <2>5. (\A n \in held : start <= n) \/ start \notin held
    <3>1. seq \in Int /\ sz \in Int /\ sz >= 0 /\ ack \in Int /\ start \in Int
      BY <2>4
    <3>2. start = ack \/ start = snd_una
      OBVIOUS
    <3>3. start \notin bytes
      BY <2>2, <2>3, <3>2
    <3>4. ack > snd_una => start = ack
      OBVIOUS
    <3>5. ~(ack > snd_una) => start = snd_una
      OBVIOUS
    <3>6. \A n : n \in Range2(seq, sz) <=> n \in Int /\ seq <= n /\ n < seq + sz
      BY <3>1 DEF Range2
    <3> HIDE DEF start
    <3>7. CASE ack > snd_una \/ sz = 0 \/ seq + sz <= start
      <4>1. start \notin Range2(seq, sz)
        BY <2>2, <3>1, <3>4, <3>6, <3>7
      <4>2. QED
        BY <3>3, <4>1
    <3>8. CASE ~(ack > snd_una) /\ sz # 0 /\ ~(seq + sz <= start)
      <4>1. start <= seq /\ start = snd_una
        BY <2>2, <3>1, <3>5, <3>8
      <4>2. \A n \in Range2(seq, sz) : start <= n
        BY <3>1, <3>6, <4>1
      <4>3. \A n \in bytes : start <= n
        BY <2>3, <4>1
      <4>4. QED
        BY <4>2, <4>3
    <3>9. QED
      BY <3>7, <3>8
  <2> HIDE DEF held, start
  <2>6. QED
    BY <2>1, <2>2, <2>4, <2>5, Settles
<1>4. QED
  BY <1>1, <1>2, <1>3 DEF SackNext

LEMMA SackInvariant == SackSpec => []SackInv
<1>1. SackInit => SackInv
  BY SackInvInit
<1>2. SackInv /\ [SackNext]_sackVars => SackInv'
  BY SackInvStep
<1>3. QED
  BY <1>1, <1>2, PTL DEF SackSpec

(* The blocks are the maximal runs of acknowledged bytes after snd_una, in     *)
(* order, whatever packets are named in whatever order.                        *)
THEOREM BlocksCanonical == SackSpec => []Canonical
<1>1. SackInv => Canonical
  <2> SUFFICES ASSUME SackInv PROVE Canonical
    OBVIOUS
  <2>1. DOMAIN m_data = 1..Len(m_data) /\ Len(m_data) \in Nat
    BY LenProperties DEF SackInv
  <2>2. \A k \in DOMAIN m_data : m_data[k].len > 0 /\ m_data[k].first > snd_una
    BY <2>1 DEF SackInv, Gapped
  <2>3. ASSUME NEW k \in DOMAIN m_data \ {1} PROVE End(m_data[k - 1]) < m_data[k].first
    <3>1. k - 1 \in 1..Len(m_data) /\ k \in 1..Len(m_data) /\ k - 1 < k
      BY <2>1
    <3>2. QED
      BY <3>1 DEF SackInv, Gapped
  <2>4. QED
    BY <2>2, <2>3 DEF Canonical
<1>2. QED
  BY <1>1, SackInvariant, PTL

Plus(n, b) == n + b.len

LEMMA CountType ==
    ASSUME NEW n \in Int, NEW b \in Blocks
    PROVE  Plus(n, b) \in Int
<1>1. b.len \in Int
  BY BlockFacts
<1>2. QED
  BY <1>1 DEF Plus

(* The bytes of the first k blocks of a list, k by k.                          *)
LEMMA CountFold ==
    ASSUME NEW list \in Seq(Blocks), NEW init \in Int
    PROVE  \E w : /\ w[0] = init /\ w[Len(list)] = FoldLeft(LAMBDA x, y : x + y.len, init, list)
                  /\ \A k \in 1..Len(list) : w[k] = Plus(w[k - 1], list[k])
<1> DEFINE n == Len(list)
           F == [p \in Int \X (1..n) |-> Plus(p[1], list[p[2]])]
           IsFold(h) == h = [s \in SUBSET (DOMAIN list) |->
                               IF s = {} THEN init
                               ELSE Plus(h[s \ {Max(s)}], list[Max(s)])]
           g == CHOOSE h : IsFold(h)
<1>1. n \in Nat /\ DOMAIN list = 1..n /\ \A k \in 1..n : list[k] \in Blocks
  BY LenProperties, ElementOfSeq
<1>2. F \in [Int \X (1..n) -> Int]
  BY <1>1, CountType
<1>3. \E h : IsFold(h)
  <2> HIDE DEF F
  <2>0. PICK h : Folds(h, n, Int, init, F)
    <3>1. n \in Nat /\ init \in Int
      BY <1>1
    <3> HIDE DEF n
    <3>2. QED
      BY ONLY <3>1, <1>2, FoldExists
  <2>1. /\ h \in [SUBSET (1..n) -> Int]
        /\ \A s \in SUBSET (1..n) :
              h[s] = IF s = {} THEN init ELSE F[<<h[s \ {Max(s)}], Max(s)>>]
    BY <2>0 DEF Folds
  <2>2. ASSUME NEW s \in SUBSET (1..n), s # {}
        PROVE  F[<<h[s \ {Max(s)}], Max(s)>>] = Plus(h[s \ {Max(s)}], list[Max(s)])
    <3>1. Max(s) \in 1..n
      BY <2>2, <1>1, MaxIn
    <3>2. h[s \ {Max(s)}] \in Int
      BY <2>1
    <3>3. QED
      BY <3>1, <3>2 DEF F
  <2>3. h = [s \in SUBSET (1..n) |->
               IF s = {} THEN init ELSE Plus(h[s \ {Max(s)}], list[Max(s)])]
    BY <2>1, <2>2
  <2>4. IsFold(h)
    BY <2>3, <1>1
  <2>5. QED
    BY <2>4
<1>4. IsFold(g)
  <2> HIDE DEF IsFold
  <2>1. QED
    BY <1>3
<1>5. FoldLeft(LAMBDA x, y : x + y.len, init, list) = g[1..n]
  BY <1>1 DEF FoldLeft, MapThenFoldSet, Plus
<1> HIDE DEF g
<1> DEFINE w == [k \in 0..n |-> g[1..k]]
<1>6. \A s \in SUBSET (1..n) :
         g[s] = IF s = {} THEN init ELSE Plus(g[s \ {Max(s)}], list[Max(s)])
  BY <1>1, <1>4
<1>7. w[0] = init
  <2>1. 1..0 = {} /\ {} \in SUBSET (1..n) /\ 0 \in 0..n
    BY <1>1
  <2> HIDE DEF IsFold
  <2>2. g[{}] = init
    BY <1>6, <2>1
  <2>3. QED
    BY <2>1, <2>2
<1>8. ASSUME NEW k \in 1..n PROVE w[k] = Plus(w[k - 1], list[k])
  <2>1. Max(1..k) = k /\ (1..k) \ {Max(1..k)} = 1..(k - 1) /\ 1..k # {}
    BY <1>1, MaxPrefix
  <2>2. 1..k \in SUBSET (1..n) /\ k - 1 \in 0..n /\ k \in 0..n
    BY <1>1
  <2> HIDE DEF IsFold
  <2>3. g[1..k] = Plus(g[1..(k - 1)], list[k])
    BY <1>6, <2>1, <2>2
  <2>4. QED
    BY <2>2, <2>3
<1>9. w[n] = g[1..n]
  BY <1>1
<1> HIDE DEF w
<1>10. QED
  BY <1>5, <1>7, <1>8, <1>9

(* Two forms of the size of the SACK buffer: the fold, and the bytes it counts. *)
LEMMA CountIs ==
    ASSUME NEW list \in Seq(Blocks), Gapped(list), NEW held, IsFiniteSet(held),
           held \in SUBSET Int, \A n \in Int : In(list, n) <=> n \in held
    PROVE  GetSackBufferOverhead(list) = Cardinality(held)
<1> DEFINE L == Len(list)
           Pre(k) == {n \in held : InFirst(list, k, n)}
<1>1. /\ L \in Nat
      /\ \A j \in 1..L : list[j] \in Blocks /\ list[j].first \in Int /\ End(list[j]) \in Int
                         /\ list[j].len \in Int /\ list[j].len > 0
                         /\ End(list[j]) = list[j].first + list[j].len
  <2>1. \A j \in 1..L : list[j] \in Blocks /\ list[j].len > 0
    BY ElementOfSeq DEF Gapped
  <2>2. \A b \in Blocks : /\ b.first \in Int /\ b.len \in Int /\ End(b) \in Int
                          /\ End(b) = b.first + b.len
    BY BlockFacts
  <2>3. QED
    BY <2>1, <2>2, LenProperties
<1>2. PICK w : /\ w[0] = 0 /\ w[L] = FoldLeft(LAMBDA x, y : x + y.len, 0, list)
               /\ \A k \in 1..L : w[k] = Plus(w[k - 1], list[k])
  <2>1. 0 \in Int
    OBVIOUS
  <2>2. QED
    BY <2>1, CountFold
<1>3. \A k : IsFiniteSet(Pre(k)) /\ Cardinality(Pre(k)) \in Nat
  <2> TAKE k
  <2>1. Pre(k) \in SUBSET held
    OBVIOUS
  <2> HIDE DEF Pre
  <2>2. QED
    BY <2>1, FS_Subset, FS_CardinalityType
<1>4. w[0] = Cardinality(Pre(0))
  <2>1. Pre(0) = {}
    BY DEF InFirst
  <2>2. QED
    BY <1>2, <2>1, FS_EmptySet
<1>5. ASSUME NEW k \in 1..L, w[k - 1] = Cardinality(Pre(k - 1))
      PROVE  w[k] = Cardinality(Pre(k))
  <2> DEFINE I == Bytes(list[k])
             f == list[k].first
             l == list[k].len
  <2>1. f \in Int /\ l \in Int /\ l > 0 /\ End(list[k]) = f + l /\ I = f..((f + l) - 1)
    BY <1>1 DEF Bytes
  <2>2. IsFiniteSet(I) /\ Cardinality(I) = l
    <3>1. (f + l) - 1 \in Int /\ ~(f > (f + l) - 1) /\ (((f + l) - 1) - f) + 1 = l
      BY <2>1
    <3> DEFINE e == (f + l) - 1
    <3> HIDE DEF f, I, e
    <3>2. IsFiniteSet(f..e) /\ Cardinality(f..e) = IF f > e THEN 0 ELSE (e - f) + 1
      BY <2>1, <3>1, FS_Interval DEF e
    <3>3. QED
      BY <2>1, <3>1, <3>2 DEF e
  <2>3. \A n : n \in I <=> n \in Int /\ f <= n /\ n < End(list[k])
    BY <2>1
  <2>4. I \in SUBSET held
    <3> SUFFICES ASSUME NEW n \in I PROVE n \in held
      OBVIOUS
    <3>1. n \in Int /\ list[k].first <= n /\ n < End(list[k])
      BY <2>3
    <3>2. In(list, n)
      BY <3>1 DEF In, InFirst
    <3>3. QED
      BY <3>1, <3>2
  <2>5. Pre(k) = Pre(k - 1) \cup I
    <3>1. \A j \in 1..k : j \in 1..(k - 1) \/ j = k
      BY <1>1
    <3>2. k \in 1..k /\ \A j \in 1..(k - 1) : j \in 1..k
      BY <1>1
    <3>3. \A n \in Int : InFirst(list, k, n) <=>
             InFirst(list, k - 1, n) \/ (list[k].first <= n /\ n < End(list[k]))
      BY <3>1, <3>2 DEF InFirst
    <3> HIDE DEF I
    <3>4. QED
      BY <2>3, <2>4, <3>3
  <2>6. Pre(k - 1) \cap I = {}
    <3> SUFFICES ASSUME NEW n \in Int, InFirst(list, k - 1, n), f <= n PROVE FALSE
      BY <2>3
    <3>1. PICK j \in 1..(k - 1) : n < End(list[j])
      BY DEF InFirst
    <3>2. j \in 1..L /\ j < k
      BY <1>1
    <3>3. End(list[j]) < f /\ End(list[j]) \in Int
      BY <1>1, <3>2 DEF Gapped
    <3> HIDE DEF f
    <3>4. QED
      BY <2>1, <3>1, <3>3
  <2> HIDE DEF I, Pre, f
  <2>7. Cardinality(Pre(k)) = Cardinality(Pre(k - 1)) + l
    <3>1. Cardinality(Pre(k - 1) \cup I) =
             Cardinality(Pre(k - 1)) + Cardinality(I) - Cardinality(Pre(k - 1) \cap I)
      BY <1>3, <2>2, FS_Union
    <3>2. Cardinality(Pre(k - 1) \cap I) = 0
      BY <2>6, FS_EmptySet
    <3> HIDE DEF l
    <3>3. QED
      BY <1>3, <2>1, <2>2, <2>5, <3>1, <3>2
  <2>8. QED
    BY <1>2, <1>5, <2>7 DEF Plus
<1> DEFINE Bad == {k \in 1..L : w[k] # Cardinality(Pre(k))}
<1>6. Bad = {}
  <2>1. SUFFICES ASSUME Bad # {} PROVE FALSE
    OBVIOUS
  <2>2. Bad \in SUBSET Nat
    BY <1>1
  <2>3. /\ \A k \in 1..L : k \notin Bad => w[k] = Cardinality(Pre(k))
        /\ \A k \in Bad : k \in 1..L /\ w[k] # Cardinality(Pre(k))
    OBVIOUS
  <2> HIDE DEF Bad, Pre
  <2>4. PICK k \in Bad : \A i \in Bad : k <= i
    BY <2>1, <2>2, LeastNat
  <2>5. k \in 1..L /\ k - 1 \notin Bad /\ (k - 1 = 0 \/ k - 1 \in 1..L)
    BY <1>1, <2>2, <2>3, <2>4
  <2>6. w[k - 1] = Cardinality(Pre(k - 1))
    BY <1>4, <2>3, <2>5
  <2>7. QED
    BY <1>5, <2>3, <2>5, <2>6
<1>7. w[L] = Cardinality(Pre(L))
  <2>1. L = 0 \/ L \in 1..L
    BY <1>1
  <2>2. \A k \in 1..L : w[k] = Cardinality(Pre(k))
    BY <1>6
  <2> HIDE DEF Bad, Pre, L
  <2>3. QED
    BY <1>4, <2>1, <2>2
<1>8. Pre(L) = held
  BY DEF In
<1>9. GetSackBufferOverhead(list) = w[L]
  BY <1>2 DEF GetSackBufferOverhead
<1> HIDE DEF Pre
<1>10. QED
  BY <1>7, <1>8, <1>9

(* A range of bytes is held exactly when it lies in one block.                 *)
LEMMA RangeInBlock ==
    ASSUME NEW list \in Seq(Blocks), Gapped(list), NEW held \in SUBSET Int,
           \A n \in Int : In(list, n) <=> n \in held,
           NEW seq \in Int, NEW sz \in Int, sz > 0
    PROVE  BlockExists(list, seq, sz) <=> Range2(seq, sz) \subseteq held
<1>1. \A n : n \in Range2(seq, sz) <=> n \in Int /\ seq <= n /\ n < seq + sz
  BY DEF Range2
<1>2. DOMAIN list = 1..Len(list) /\ \A k \in 1..Len(list) : End(list[k]) \in Int /\ list[k].first \in Int
  BY LenProperties, ElementOfSeq, BlockFacts
<1>3. ASSUME BlockExists(list, seq, sz) PROVE Range2(seq, sz) \subseteq held
  <2>1. PICK k \in 1..Len(list) : list[k].first <= seq /\ seq + sz <= End(list[k])
    BY <1>2, <1>3 DEF BlockExists
  <2>2. ASSUME NEW n \in Range2(seq, sz) PROVE n \in held
    <3>1. n \in Int /\ list[k].first <= n /\ n < End(list[k])
      BY <1>1, <1>2, <2>1
    <3>2. In(list, n)
      BY <3>1 DEF In, InFirst
    <3>3. QED
      BY <3>1, <3>2
  <2>3. QED
    BY <2>2
<1>4. ASSUME Range2(seq, sz) \subseteq held PROVE BlockExists(list, seq, sz)
  <2>1. seq \in held
    BY <1>1, <1>4
  <2>2. PICK k \in 1..Len(list) : list[k].first <= seq /\ seq < End(list[k])
    BY <2>1 DEF In, InFirst
  <2>3. ~In(list, End(list[k]))
    BY GapAfter
  <2>4. End(list[k]) \notin Range2(seq, sz)
    BY <1>2, <1>4, <2>3
  <2>5. seq + sz <= End(list[k])
    BY <1>1, <1>2, <2>2, <2>4
  <2>6. QED
    BY <1>2, <2>2, <2>5 DEF BlockExists
<1>5. QED
  BY <1>3, <1>4

(* The list holds the acknowledged bytes, and what is asked of it is exact.    *)
THEOREM BlocksExact == SackSpec => []Exact
<1>1. SackInv => Exact
  <2> SUFFICES ASSUME SackInv PROVE Exact
    OBVIOUS
  <2>1. /\ m_data \in Seq(Blocks) /\ Gapped(m_data) /\ bytes \in SUBSET (0..(MaxSeq - 1))
        /\ \A n \in Int : In(m_data, n) <=> n \in bytes
    BY DEF SackInv
  <2>2. MaxSeq \in Nat /\ bytes \in SUBSET Int /\ DOMAIN m_data = 1..Len(m_data)
    BY <2>1, MaxSeqAssumption, LenProperties
  <2>3. IsFiniteSet(bytes)
    <3>1. IsFiniteSet(0..(MaxSeq - 1))
      BY <2>2, FS_Interval
    <3>2. QED
      BY <2>1, <3>1, FS_Subset
  <2>4. UNION {Bytes(m_data[k]) : k \in DOMAIN m_data} = bytes
    <3>1. \A k \in 1..Len(m_data) : \A n : n \in Bytes(m_data[k]) <=>
             n \in Int /\ m_data[k].first <= n /\ n < End(m_data[k])
      <4> SUFFICES ASSUME NEW k \in 1..Len(m_data)
                   PROVE  \A n : n \in Bytes(m_data[k]) <=>
                             n \in Int /\ m_data[k].first <= n /\ n < End(m_data[k])
        OBVIOUS
      <4>1. m_data[k].first \in Int /\ End(m_data[k]) \in Int
        BY <2>1, ElementOfSeq, BlockFacts
      <4>2. QED
        BY <4>1 DEF Bytes
    <3>2. \A n \in Int : In(m_data, n) <=> \E k \in 1..Len(m_data) : n \in Bytes(m_data[k])
      BY <3>1 DEF In, InFirst
    <3>3. \A k \in 1..Len(m_data) : Bytes(m_data[k]) \in SUBSET Int
      BY <3>1
    <3>4. QED
      BY <2>1, <2>2, <3>2, <3>3
  <2>5. GetSackBufferOverhead(m_data) = Cardinality(bytes)
    BY <2>1, <2>2, <2>3, CountIs
  <2>6. \A seq \in 0..MaxSeq : \A sz \in 1..(MaxSeq - seq) :
           BlockExists(m_data, seq, sz) <=> Range2(seq, sz) \subseteq bytes
    <3> SUFFICES ASSUME NEW seq \in 0..MaxSeq, NEW sz \in 1..(MaxSeq - seq)
                 PROVE  BlockExists(m_data, seq, sz) <=> Range2(seq, sz) \subseteq bytes
      OBVIOUS
    <3>1. seq \in Int /\ sz \in Int /\ sz > 0
      BY <2>2
    <3>2. QED
      BY <2>1, <2>2, <3>1, RangeInBlock
  <2>7. QED
    BY <2>4, <2>5, <2>6 DEF Exact
<1>2. QED
  BY <1>1, SackInvariant, PTL

=============================================================================
