---------------------------- MODULE PfcLinkProofs ----------------------------
(* The two ends of a PFC link agree, for any number of ports, any buffer       *)
(* configuration, any packets on the link and any number of expired pauses.    *)
EXTENDS PfcLink, SumLemmas, SequenceTheorems

(* What is proved of the accounting.                                           *)
MmuP == INSTANCE SwitchMmuProofs WITH Ports <- In \cup {Out}, Queues <- {Queue}

(* The types of what the agreement speaks of; the byte counters of the MMU may *)
(* be anything.                                                                *)
LinkTypeOK ==
    /\ upPaused \in [In -> BOOLEAN]
    /\ wire \in [In -> Seq(Sizes)]
    /\ frames \in [In -> Seq(Frame)]
    /\ fifo \in Seq([in : In, size : Sizes])
    /\ expiries \in Nat
    /\ unheeded \subseteq In
    /\ paused \in [Mmu!Classes -> BOOLEAN]

IInv == LinkTypeOK /\ PfcAgreement

(* The class of an ingress port, and PFC frames, are what they seem.           *)
LEMMA Classes ==
    /\ \A i \in In : Class(i) \in Mmu!Classes
    /\ \A i, j \in In : Class(i) = Class(j) => i = j
BY DEF Class, Mmu!Classes

LEMMA FrameType == \A type \in BOOLEAN : PFC(type) \in Frame /\ PFC(type).pause = type
BY LinkAssumption DEF PFC, Frame

-----------------------------------------------------------------------------
(* What each event does to what the upstream device has been told.            *)

(* The switch queues a frame: that is the last word.                          *)
LEMMA ToldLast ==
    ASSUME LinkTypeOK, NEW i \in In, NEW type \in BOOLEAN,
           frames' = [frames EXCEPT ![i] = Append(frames[i], PFC(type))],
           upPaused' = upPaused
    PROVE  /\ frames' \in [In -> Seq(Frame)]
           /\ Told(i)' = type
           /\ \A j \in In : j # i => Told(j)' = Told(j)
<1> DEFINE x == PFC(type)
           q == frames[i]
           r == Append(q, x)
<1>1. x \in Frame /\ x.pause = type /\ q \in Seq(Frame)
  BY FrameType DEF LinkTypeOK
<1> HIDE DEF x, q
<1>2. /\ r \in Seq(Frame) /\ Len(r) = Len(q) + 1 /\ r[Len(q) + 1] = x
      /\ Len(q) \in Nat
  BY <1>1, AppendProperties, LenProperties
<1>3. r # <<>>
  BY <1>2, EmptySeq
<1>4. frames'[i] = r /\ \A j \in In : j # i => frames'[j] = frames[j]
  BY DEF LinkTypeOK, q, x
<1> HIDE DEF r
<1>5. frames' \in [In -> Seq(Frame)]
  <2>1. frames' = [frames EXCEPT ![i] = r]
    BY DEF r, q, x
  <2>2. QED
    BY <2>1, <1>2 DEF LinkTypeOK
<1>6. Told(i)' = type
  BY <1>1, <1>2, <1>3, <1>4 DEF Told
<1>7. \A j \in In : j # i => Told(j)' = Told(j)
  BY <1>4 DEF Told
<1>8. QED
  BY <1>5, <1>6, <1>7

(* The device obeys a frame: it is told what it was about to be told.         *)
LEMMA ToldObeyed ==
    ASSUME LinkTypeOK, NEW i \in In, ReceivePfc(i)
    PROVE  /\ frames' \in [In -> Seq(Frame)]
           /\ upPaused' \in [In -> BOOLEAN]
           /\ \A j \in In : Told(j)' = Told(j)
<1> DEFINE q == frames[i]
           t == Tail(q)
<1>1. /\ q \in Seq(Frame) /\ q # <<>>
      /\ frames' = [frames EXCEPT ![i] = t]
      /\ upPaused' = [upPaused EXCEPT ![i] = Head(q).pause]
  BY DEF ReceivePfc, LinkTypeOK
<1> HIDE DEF q
<1>2. /\ t \in Seq(Frame) /\ Head(q) \in Frame /\ Head(q) = q[1]
      /\ Len(t) = Len(q) - 1 /\ Len(q) \in Nat /\ Len(q) # 0
      /\ \A k \in 1..Len(t) : t[k] = q[k + 1]
  BY <1>1, HeadTailProperties, LenProperties, EmptySeq
<1> HIDE DEF t
<1>3. Head(q).pause \in BOOLEAN
  BY <1>2 DEF Frame
<1>4. frames' \in [In -> Seq(Frame)] /\ upPaused' \in [In -> BOOLEAN]
  BY <1>1, <1>2, <1>3 DEF LinkTypeOK
<1>5. ASSUME NEW j \in In PROVE Told(j)' = Told(j)
  <2>1. CASE j = i
    <3>1. frames'[i] = t /\ upPaused'[i] = Head(q).pause /\ frames[i] = q
      BY <1>1 DEF LinkTypeOK, q
    <3>2. Told(i) = q[Len(q)].pause
      BY <1>1, <3>1 DEF Told
    <3>3. CASE t = <<>>
      <4>1. Len(t) = 0
        BY <1>2, <3>3, EmptySeq
      <4>2. Len(q) = 1
        BY <4>1, <1>2
      <4>3. Told(i)' = Head(q).pause
        BY <3>1, <3>3 DEF Told
      <4>4. QED
        BY <2>1, <3>2, <4>2, <4>3, <1>2
    <3>4. CASE t # <<>>
      <4>1. Len(t) # 0 /\ Len(t) \in Nat
        BY <1>2, <3>4, EmptySeq
      <4>2. t[Len(t)] = q[Len(q)]
        BY <4>1, <1>2
      <4>3. Told(i)' = t[Len(t)].pause
        BY <3>1, <3>4 DEF Told
      <4>4. QED
        BY <2>1, <3>2, <4>2, <4>3
    <3>5. QED
      BY <3>3, <3>4
  <2>2. CASE j # i
    <3>1. frames'[j] = frames[j] /\ upPaused'[j] = upPaused[j]
      BY <1>1, <2>2 DEF LinkTypeOK
    <3>2. QED
      BY <3>1 DEF Told
  <2>3. QED
    BY <2>1, <2>2
<1>6. QED
  BY <1>4, <1>5

(* A data packet ages the frames behind it and changes nothing they say.      *)
LEMMA ToldAged ==
    ASSUME LinkTypeOK, NEW i \in In, NEW z \in Sizes, Send(i, z)
    PROVE  /\ frames' \in [In -> Seq(Frame)]
           /\ \A j \in In : Told(j)' = Told(j)
<1> DEFINE q == frames[i]
           r == [k \in DOMAIN q |-> Older(q[k])]
<1>1. /\ q \in Seq(Frame)
      /\ frames' = [frames EXCEPT ![i] = r] /\ upPaused' = upPaused
      /\ \A k \in DOMAIN q : q[k].age < RoundTrip
  <2>1. q \in Seq(Frame)
    BY DEF LinkTypeOK
  <2>2. upPaused' = upPaused /\ \A k \in DOMAIN q : q[k].age < RoundTrip
    BY DEF Send
  <2>3. frames' = [frames EXCEPT ![i] = r]
    BY DEF Send
  <2>4. QED
    BY <2>1, <2>2, <2>3
<1> HIDE DEF q
<1>2. /\ DOMAIN q = 1..Len(q) /\ Len(q) \in Nat
      /\ \A k \in 1..Len(q) : q[k] \in Frame
  BY <1>1, LenProperties, ElementOfSeq
<1>3. ASSUME NEW k \in 1..Len(q)
      PROVE  r[k] \in Frame /\ r[k].pause = q[k].pause
  <2>1. q[k] \in Frame /\ q[k].age < RoundTrip /\ RoundTrip \in Nat
    BY <1>1, <1>2, LinkAssumption
  <2>2. r[k] = Older(q[k])
    BY <1>2
  <2> HIDE DEF r
  <2>3. QED
    BY <2>1, <2>2 DEF Frame, Older
<1>4. r \in Seq(Frame) /\ Len(r) = Len(q)
  <2>1. DOMAIN r = 1..Len(q)
    BY <1>2
  <2> HIDE DEF r
  <2>2. r \in [1..Len(q) -> Frame]
    <3>1. r = [k \in 1..Len(q) |-> r[k]]
      BY <1>2 DEF r
    <3>2. QED
      BY <3>1, <1>3
  <2>3. r \in Seq(Frame)
    BY <2>2, <1>2, IsASeq
  <2>4. QED
    BY <2>1, <2>3, <1>2, LenProperties
<1> HIDE DEF r
<1>5. frames' \in [In -> Seq(Frame)]
  BY <1>1, <1>4 DEF LinkTypeOK
<1>6. ASSUME NEW j \in In PROVE Told(j)' = Told(j)
  <2>1. CASE j = i
    <3>1. frames'[i] = r /\ frames[i] = q /\ upPaused'[i] = upPaused[i]
      BY <1>1 DEF LinkTypeOK, q
    <3>2. r = <<>> <=> q = <<>>
      BY <1>1, <1>4, EmptySeq
    <3>3. CASE q = <<>>
      BY <2>1, <3>1, <3>2, <3>3 DEF Told
    <3>4. CASE q # <<>>
      <4>1. Len(q) \in 1..Len(q)
        BY <1>1, <1>2, <3>4, EmptySeq
      <4>2. r[Len(r)].pause = q[Len(q)].pause
        BY <4>1, <1>3, <1>4
      <4>3. QED
        BY <2>1, <3>1, <3>2, <3>4, <4>2 DEF Told
    <3>5. QED
      BY <3>3, <3>4
  <2>2. CASE j # i
    <3>1. frames'[j] = frames[j] /\ upPaused'[j] = upPaused[j]
      BY <1>1, <2>2 DEF LinkTypeOK
    <3>2. QED
      BY <3>1 DEF Told
  <2>3. QED
    BY <2>1, <2>2
<1>7. QED
  BY <1>5, <1>6

-----------------------------------------------------------------------------
(* The switch changes the pause of one class and says so, or changes neither. *)
LEMMA SwitchTells ==
    ASSUME IInv, NEW i \in In, NEW ps \in BOOLEAN,
           paused' = [paused EXCEPT ![Class(i)] = ps],
           upPaused' = upPaused,
           unheeded' = IF ps THEN unheeded ELSE unheeded \ {i},
           \/ /\ frames' = [frames EXCEPT ![i] = Append(frames[i], PFC(ps))]
              /\ ps # paused[Class(i)]
           \/ frames' = frames /\ ps = paused[Class(i)]
    PROVE  /\ frames' \in [In -> Seq(Frame)]
           /\ paused' \in [Mmu!Classes -> BOOLEAN]
           /\ unheeded' \subseteq In
           /\ PfcAgreement'
<1>1. LinkTypeOK /\ PfcAgreement
  BY DEF IInv
<1>2. paused' \in [Mmu!Classes -> BOOLEAN]
  BY <1>1, Classes DEF LinkTypeOK
<1>3. /\ paused'[Class(i)] = ps
      /\ \A j \in In : j # i => paused'[Class(j)] = paused[Class(j)]
  BY <1>1, Classes DEF LinkTypeOK
<1>4. /\ unheeded' \subseteq In
      /\ i \in unheeded' => ps /\ i \in unheeded
      /\ \A j \in In : j # i => (j \in unheeded' <=> j \in unheeded)
  BY <1>1 DEF LinkTypeOK
<1>5. CASE /\ frames' = [frames EXCEPT ![i] = Append(frames[i], PFC(ps))]
           /\ ps # paused[Class(i)]
  <2>1. /\ frames' \in [In -> Seq(Frame)] /\ Told(i)' = ps
        /\ \A j \in In : j # i => Told(j)' = Told(j)
    BY <1>1, <1>5, ToldLast
  <2>2. i \notin unheeded'
    <3>1. CASE ps
      BY <3>1, <1>4, <1>1, <1>5, Classes DEF PfcAgreement, LinkTypeOK
    <3>2. CASE ~ps
      BY <3>2, <1>4
    <3>3. QED
      BY <3>1, <3>2
  <2>3. ASSUME NEW j \in In
        PROVE  /\ paused'[Class(j)] <=> Told(j)' \/ j \in unheeded'
               /\ ~(Told(j)' /\ j \in unheeded')
    <3>1. CASE j = i
      BY <3>1, <1>3, <2>1, <2>2
    <3>2. CASE j # i
      BY <3>2, <1>4, <1>1, <1>3, <2>1 DEF PfcAgreement
    <3>3. QED
      BY <3>1, <3>2
  <2>4. PfcAgreement'
    BY <2>3 DEF PfcAgreement
  <2>5. QED
    BY <1>4, <1>2, <2>1, <2>4
<1>6. CASE frames' = frames /\ ps = paused[Class(i)]
  <2>1. \A j \in In : Told(j)' = Told(j)
    BY <1>6 DEF Told
  <2>2. \A j \in In : paused'[Class(j)] = paused[Class(j)]
    BY <1>3, <1>6
  <2>3. i \in unheeded' <=> i \in unheeded
    BY <1>1, <1>6 DEF PfcAgreement
  <2>4. PfcAgreement'
    BY <1>4, <1>1, <2>1, <2>2, <2>3 DEF PfcAgreement
  <2>5. QED
    BY <1>4, <1>1, <1>2, <1>6, <2>4 DEF LinkTypeOK
<1>7. QED
  BY <1>5, <1>6

LEMMA ArriveKeeps ==
    ASSUME IInv, NEW i \in In, Arrive(i)
    PROVE  IInv'
<1>1. LinkTypeOK
  BY DEF IInv
<1> DEFINE w == wire[i]
           z == Head(w)
           c == Class(i)
           e == [in |-> i, size |-> z]
           b == ingress[c] + z
           h == hdrm[c] + Mmu!HdrmInc(c, z)
           ps == paused[c] \/ Mmu!ShouldPause(b, h)
<1>2. w \in Seq(Sizes) /\ w # <<>>
  BY <1>1 DEF LinkTypeOK, Arrive
<1>3. z \in Sizes /\ Tail(w) \in Seq(Sizes)
  BY <1>2, HeadTailProperties
<1>4. /\ wire' = [wire EXCEPT ![i] = Tail(w)]
      /\ fifo' = Append(fifo, e)
      /\ UNCHANGED <<upPaused, expiries, unheeded>>
      /\ frames' = IF paused'[c] /\ ~paused[c]
                   THEN [frames EXCEPT ![i] = Append(frames[i], PFC(TRUE))]
                   ELSE frames
  BY DEF Arrive
<1>5. paused' = [paused EXCEPT ![c] = ps]
  BY DEF Arrive, Mmu!Admit
<1>6. ps \in BOOLEAN /\ (paused[c] => ps)
  BY <1>1, Classes DEF LinkTypeOK, Mmu!ShouldPause
<1> HIDE DEF ps
<1>7. paused'[c] = ps /\ paused[c] \in BOOLEAN
  BY <1>1, <1>5, Classes DEF LinkTypeOK
<1>8. \/ frames' = [frames EXCEPT ![i] = Append(frames[i], PFC(ps))] /\ ps # paused[c]
      \/ frames' = frames /\ ps = paused[c]
  <2>1. CASE ps = TRUE /\ paused[c] = FALSE
    BY <2>1, <1>4, <1>7
  <2>2. CASE ps = paused[c]
    BY <2>2, <1>4, <1>7
  <2>3. QED
    BY <2>1, <2>2, <1>6, <1>7
<1>9. unheeded' = IF ps THEN unheeded ELSE unheeded \ {i}
  BY <1>4, <1>6, <1>7 DEF IInv, PfcAgreement
<1>10. /\ frames' \in [In -> Seq(Frame)] /\ paused' \in [Mmu!Classes -> BOOLEAN]
      /\ unheeded' \subseteq In /\ PfcAgreement'
  BY <1>4, <1>5, <1>6, <1>8, <1>9, SwitchTells
<1>11. fifo' \in Seq([in : In, size : Sizes])
  <2>1. e \in [in : In, size : Sizes] /\ fifo \in Seq([in : In, size : Sizes])
    BY <1>1, <1>3 DEF LinkTypeOK
  <2> HIDE DEF e
  <2>2. QED
    BY <2>1, <1>4, AppendProperties
<1>12. wire' \in [In -> Seq(Sizes)]
  BY <1>1, <1>3, <1>4 DEF LinkTypeOK
<1>13. LinkTypeOK'
  BY <1>1, <1>4, <1>10, <1>11, <1>12 DEF LinkTypeOK
<1>14. QED
  BY <1>10, <1>13 DEF IInv

LEMMA DequeueKeeps ==
    ASSUME IInv, Dequeue
    PROVE  IInv'
<1>1. LinkTypeOK
  BY DEF IInv
<1>2. fifo \in Seq([in : In, size : Sizes]) /\ fifo # <<>>
  BY <1>1 DEF LinkTypeOK, Dequeue
<1>3. Head(fifo) \in [in : In, size : Sizes] /\ fifo' \in Seq([in : In, size : Sizes])
  BY <1>2, HeadTailProperties DEF Dequeue
<1> DEFINE i == Head(fifo).in
           z == Head(fifo).size
           c == Class(i)
           b == Mmu!Minus(ingress[c], z)
           h == Mmu!Minus(hdrm[c], Mmu!FromHdrm(c, z))
           ps == paused[c] /\ ~Mmu!ShouldResume(b, h)
<1>4. i \in In
  BY <1>3
<1>5. /\ paused' = [paused EXCEPT ![c] = ps]
      /\ UNCHANGED <<upPaused, wire, expiries>>
      /\ unheeded' = IF paused'[c] THEN unheeded ELSE unheeded \ {i}
      /\ frames' = IF paused[c] /\ ~paused'[c]
                   THEN [frames EXCEPT ![i] = Append(frames[i], PFC(FALSE))]
                   ELSE frames
  BY DEF Dequeue, Mmu!Release
<1>6. ps \in BOOLEAN /\ (ps => paused[c])
  BY <1>1, <1>4, Classes DEF LinkTypeOK
<1> HIDE DEF ps, i
<1>7. paused'[c] = ps /\ paused[c] \in BOOLEAN
  BY <1>1, <1>4, <1>5, Classes DEF LinkTypeOK
<1>8. \/ frames' = [frames EXCEPT ![i] = Append(frames[i], PFC(ps))] /\ ps # paused[c]
      \/ frames' = frames /\ ps = paused[c]
  <2>1. CASE ps = FALSE /\ paused[c] = TRUE
    BY <2>1, <1>5, <1>7
  <2>2. CASE ps = paused[c]
    BY <2>2, <1>5, <1>7
  <2>3. QED
    BY <2>1, <2>2, <1>6, <1>7
<1>9. /\ frames' \in [In -> Seq(Frame)] /\ paused' \in [Mmu!Classes -> BOOLEAN]
      /\ unheeded' \subseteq In /\ PfcAgreement'
  BY <1>4, <1>5, <1>6, <1>7, <1>8, SwitchTells
<1>10. LinkTypeOK'
  BY <1>1, <1>3, <1>5, <1>9 DEF LinkTypeOK
<1>11. QED
  BY <1>9, <1>10 DEF IInv

(* A step that leaves the pauses of the switch and its messages alone.        *)
LEMMA ToldKeeps ==
    ASSUME IInv, LinkTypeOK', UNCHANGED <<paused, unheeded>>,
           \A j \in In : Told(j)' = Told(j)
    PROVE  IInv'
BY DEF IInv, PfcAgreement

LEMMA InitIInv == Init => IInv
<1> SUFFICES ASSUME Init PROVE IInv
  OBVIOUS
<1>1. LinkTypeOK
  BY EmptySeq DEF Init, LinkTypeOK, Mmu!Init
<1>2. PfcAgreement
  BY Classes DEF Init, Mmu!Init, PfcAgreement, Told
<1>3. QED
  BY <1>1, <1>2 DEF IInv

LEMMA NextKeeps == IInv /\ [Next]_vars => IInv'
<1> SUFFICES ASSUME IInv, [Next]_vars PROVE IInv'
  OBVIOUS
<1>0. LinkTypeOK /\ PfcAgreement
  BY DEF IInv
<1>1. ASSUME NEW i \in In, NEW z \in Sizes, Send(i, z) PROVE IInv'
  <2>1. frames' \in [In -> Seq(Frame)] /\ \A j \in In : Told(j)' = Told(j)
    BY <1>0, <1>1, ToldAged
  <2>2. wire[i] \in Seq(Sizes)
    BY <1>0 DEF LinkTypeOK
  <2>3. Append(wire[i], z) \in Seq(Sizes)
    BY <2>2, AppendProperties
  <2>4. /\ wire' = [wire EXCEPT ![i] = Append(wire[i], z)]
        /\ UNCHANGED <<upPaused, fifo, expiries, unheeded, paused>>
    BY <1>1 DEF Send, mmuVars
  <2>5. wire' \in [In -> Seq(Sizes)]
    BY <2>3, <2>4, <1>0 DEF LinkTypeOK
  <2>6. LinkTypeOK'
    BY <2>1, <2>4, <2>5, <1>0 DEF LinkTypeOK
  <2>7. QED
    BY <2>1, <2>4, <2>6, ToldKeeps
<1>2. ASSUME NEW i \in In, Arrive(i) PROVE IInv'
  BY <1>2, ArriveKeeps
<1>3. ASSUME NEW i \in In, Drop(i) PROVE IInv'
  <2>1. wire[i] \in Seq(Sizes) /\ wire[i] # <<>>
    BY <1>0, <1>3 DEF LinkTypeOK, Drop
  <2>2. Tail(wire[i]) \in Seq(Sizes)
    BY <2>1, HeadTailProperties
  <2>3. /\ wire' = [wire EXCEPT ![i] = Tail(wire[i])]
        /\ UNCHANGED <<upPaused, frames, fifo, expiries, unheeded, paused>>
    BY <1>3 DEF Drop, mmuVars
  <2>4. LinkTypeOK'
    BY <2>2, <2>3, <1>0 DEF LinkTypeOK
  <2>5. \A j \in In : Told(j)' = Told(j)
    BY <2>3 DEF Told
  <2>6. QED
    BY <2>3, <2>4, <2>5, ToldKeeps
<1>4. ASSUME NEW i \in In, ReceivePfc(i) PROVE IInv'
  <2>1. /\ frames' \in [In -> Seq(Frame)] /\ upPaused' \in [In -> BOOLEAN]
        /\ \A j \in In : Told(j)' = Told(j)
    BY <1>0, <1>4, ToldObeyed
  <2>2. UNCHANGED <<wire, fifo, expiries, unheeded, paused>>
    BY <1>4 DEF ReceivePfc, mmuVars
  <2>3. LinkTypeOK'
    BY <2>1, <2>2, <1>0 DEF LinkTypeOK
  <2>4. QED
    BY <2>1, <2>2, <2>3, ToldKeeps
<1>5. ASSUME NEW i \in In, PauseExpires(i) PROVE IInv'
  <2>1. /\ upPaused[i] /\ upPaused' = [upPaused EXCEPT ![i] = FALSE]
        /\ expiries' = expiries + 1
        /\ unheeded' = IF frames[i] = <<>> THEN unheeded \cup {i} ELSE unheeded
        /\ UNCHANGED <<wire, frames, fifo, paused>>
    BY <1>5 DEF PauseExpires, mmuVars
  <2>2. LinkTypeOK'
    BY <2>1, <1>0 DEF LinkTypeOK
  <2>3. ASSUME NEW j \in In, j # i \/ frames[i] # <<>>
        PROVE  Told(j)' = Told(j) /\ (j \in unheeded' <=> j \in unheeded)
    BY <2>1, <2>3, <1>0 DEF Told, LinkTypeOK
  <2>4. CASE frames[i] = <<>>
    <3>1. Told(i) /\ ~Told(i)' /\ i \in unheeded'
      BY <2>1, <2>4, <1>0 DEF Told, LinkTypeOK
    <3>2. PfcAgreement'
      BY <2>1, <2>3, <3>1, <1>0 DEF PfcAgreement
    <3>3. QED
      BY <2>2, <3>2 DEF IInv
  <2>5. CASE frames[i] # <<>>
    <3>1. PfcAgreement'
      BY <2>1, <2>3, <2>5, <1>0 DEF PfcAgreement
    <3>2. QED
      BY <2>2, <3>1 DEF IInv
  <2>6. QED
    BY <2>4, <2>5
<1>6. ASSUME Dequeue PROVE IInv'
  BY <1>6, DequeueKeeps
<1>7. CASE UNCHANGED vars
  <2>1. UNCHANGED <<upPaused, wire, frames, fifo, expiries, unheeded, paused>>
    BY <1>7 DEF vars, mmuVars
  <2>2. LinkTypeOK'
    BY <2>1, <1>0 DEF LinkTypeOK
  <2>3. \A j \in In : Told(j)' = Told(j)
    BY <2>1 DEF Told
  <2>4. QED
    BY <2>1, <2>2, <2>3, ToldKeeps
<1>8. QED
  BY <1>1, <1>2, <1>3, <1>4, <1>5, <1>6, <1>7 DEF Next

(* The switch has its class paused exactly while the upstream device is, or is *)
(* about to be, or its pause timed out during this very congestion.           *)
THEOREM EndsAgree == Spec => []PfcAgreement
<1>1. IInv => PfcAgreement
  BY DEF IInv
<1>2. QED
  BY <1>1, InitIInv, NextKeeps, PTL DEF Spec

-----------------------------------------------------------------------------
(* The switch uses its accounting as SwitchMmu allows, so what is proved of    *)
(* SwitchMmu holds of it.                                                      *)

(* An admission is one of SwitchMmu.                                           *)
LEMMA ArriveAdmits ==
    ASSUME LinkTypeOK, NEW i \in In, Arrive(i)
    PROVE  /\ Head(wire[i]) \in Sizes /\ Class(i) \in Mmu!Classes
           /\ Mmu!Admit(Class(i), Out, Head(wire[i]))
           /\ Mmu!Next
<1>1. wire[i] \in Seq(Sizes) /\ wire[i] # <<>>
  BY DEF LinkTypeOK, Arrive
<1>2. Head(wire[i]) \in Sizes
  BY <1>1, HeadTailProperties
<1>3. Class(i) \in Mmu!Classes /\ Mmu!Admit(Class(i), Out, Head(wire[i]))
  BY Classes DEF Arrive
<1>4. QED
  BY <1>2, <1>3 DEF Mmu!Next

(* So is a release.                                                            *)
LEMMA DequeueReleases ==
    ASSUME LinkTypeOK, Dequeue
    PROVE  \E i \in In, z \in Sizes :
               /\ i = Head(fifo).in /\ z = Head(fifo).size
               /\ Mmu!Release(Class(i), Out, z)
               /\ Mmu!Next
<1>1. fifo \in Seq([in : In, size : Sizes]) /\ fifo # <<>>
  BY DEF LinkTypeOK, Dequeue
<1>2. Head(fifo) \in [in : In, size : Sizes]
  BY <1>1, HeadTailProperties
<1> DEFINE i == Head(fifo).in
           z == Head(fifo).size
<1>3. i \in In /\ z \in Sizes
  BY <1>2
<1>4. Mmu!Release(Class(i), Out, z)
  BY DEF Dequeue
<1>5. Class(i) \in Mmu!Classes
  BY <1>3, Classes
<1> HIDE DEF i, z
<1>6. Mmu!Next
  BY <1>3, <1>4, <1>5 DEF Mmu!Next
<1>7. QED
  BY <1>3, <1>4, <1>6 DEF i, z

LEMMA MmuStep == LinkTypeOK /\ [Next]_vars => [Mmu!Next]_(Mmu!vars)
<1> SUFFICES ASSUME LinkTypeOK, [Next]_vars PROVE [Mmu!Next]_(Mmu!vars)
  OBVIOUS
<1>1. ASSUME NEW i \in In, Arrive(i) PROVE Mmu!Next
  BY <1>1, ArriveAdmits
<1>2. ASSUME Dequeue PROVE Mmu!Next
  BY <1>2, DequeueReleases
<1>3. CASE \E i \in In : \/ \E z \in Sizes : Send(i, z)
                         \/ Drop(i) \/ ReceivePfc(i) \/ PauseExpires(i)
  BY <1>3 DEF Send, Drop, ReceivePfc, PauseExpires, mmuVars, Mmu!vars
<1>4. CASE UNCHANGED vars
  BY <1>4 DEF vars, mmuVars, Mmu!vars
<1>5. QED
  BY <1>1, <1>2, <1>3, <1>4 DEF Next

(* So what is proved of SwitchMmu holds of the MMU of this switch.             *)
LEMMA DrivesMmu == Spec => Mmu!Spec
<1>1. Init => Mmu!Init
  BY DEF Init
<1>2. IInv => LinkTypeOK
  BY DEF IInv
<1>3. QED
  BY <1>1, <1>2, InitIInv, NextKeeps, MmuStep, PTL DEF Spec, Mmu!Spec

(* Both instances of SwitchMmu mean the same.                                  *)
LEMMA SameShare == MmuP!SharedBytes = Mmu!SharedBytes
<1>1. MmuP!MapThenSumSet(LAMBDA p : Headroom[p], In \cup {Out})
        = Mmu!MapThenSumSet(LAMBDA p : Headroom[p], In \cup {Out})
  BY DEF Mmu!MapThenSumSet, MmuP!MapThenSumSet, Mmu!MapThenFoldSet, MmuP!MapThenFoldSet
<1>2. MmuP!Cardinality(In \cup {Out}) = Mmu!Cardinality(In \cup {Out})
  BY DEF Mmu!Cardinality, MmuP!Cardinality
<1>3. QED
  BY <1>1, <1>2 DEF Mmu!SharedBytes, MmuP!SharedBytes

LEMMA MmuConfig == MmuP!ConfigAssumption /\ MmuP!SharedAssumption
<1>1. IsFiniteSet(In \cup {Out}) /\ IsFiniteSet({Queue})
  BY MmuAssumption, FS_AddElement, FS_Singleton
<1>2. QED
  BY <1>1, MmuAssumption, SameShare
  DEF MmuP!ConfigAssumption, MmuP!SharedAssumption, IsFiniteSet, MmuP!IsFiniteSet

LEMMA SameMmu ==
    /\ Mmu!Init => MmuP!Init
    /\ [Mmu!Next]_(Mmu!vars) => [MmuP!Next]_(MmuP!vars)
<1>1. Mmu!Init => MmuP!Init
  BY DEF Mmu!Init, MmuP!Init, Mmu!Classes, MmuP!Classes
<1>2. \A c, o, z : Mmu!Admit(c, o, z) <=> MmuP!Admit(c, o, z)
  BY SameShare
  DEF Mmu!Admit, Mmu!CheckIngressAdmission, Mmu!HdrmInc, Mmu!SharedInc, Mmu!Exceeds,
      Mmu!ShouldPause, Mmu!GetSharedUsed, Mmu!GetPfcThreshold, Mmu!Minus, Mmu!Least,
      MmuP!Admit, MmuP!CheckIngressAdmission, MmuP!HdrmInc, MmuP!SharedInc, MmuP!Exceeds,
      MmuP!ShouldPause, MmuP!GetSharedUsed, MmuP!GetPfcThreshold, MmuP!Minus, MmuP!Least
<1>3. \A c, o, z : Mmu!Release(c, o, z) <=> MmuP!Release(c, o, z)
  BY SameShare
  DEF Mmu!Release, Mmu!FromHdrm, Mmu!FromShared, Mmu!ShouldResume,
      Mmu!GetSharedUsed, Mmu!GetPfcThreshold, Mmu!Minus, Mmu!Least,
      MmuP!Release, MmuP!FromHdrm, MmuP!FromShared, MmuP!ShouldResume,
      MmuP!GetSharedUsed, MmuP!GetPfcThreshold, MmuP!Minus, MmuP!Least
<1>4. QED
  BY <1>1, <1>2, <1>3
  DEF Mmu!Next, MmuP!Next, Mmu!vars, MmuP!vars, Mmu!Classes, MmuP!Classes

(* What the data path needs to know of the counters.                           *)
MmuFacts ==
    /\ Mmu!TypeOK
    /\ Mmu!HdrmExact
    /\ Mmu!CongestedIsPaused

LEMMA MmuInvariant == Spec => []MmuFacts
<1>1. MmuP!TypeOK /\ MmuP!HdrmExact /\ MmuP!CongestedIsPaused => MmuFacts
  BY SameShare
  DEF MmuFacts, Mmu!TypeOK, Mmu!HdrmExact, Mmu!CongestedIsPaused, Mmu!Classes,
      MmuP!TypeOK, MmuP!HdrmExact, MmuP!CongestedIsPaused, MmuP!Classes
<1>2. /\ MmuP!Spec => []MmuP!TypeOK
      /\ MmuP!Spec => []MmuP!HdrmExact
      /\ MmuP!Spec => []MmuP!CongestedIsPaused
  BY MmuConfig, MmuP!TypeCorrect, MmuP!HeadroomCorrect, MmuP!PauseCorrect
<1>3. Spec => MmuP!Spec
  BY DrivesMmu, SameMmu, PTL DEF Mmu!Spec, MmuP!Spec
<1>4. QED
  BY <1>1, <1>2, <1>3, PTL

-----------------------------------------------------------------------------
(* No loss: what the link may still bring fits into the headroom.              *)

(* The largest packet is one, and none is larger.                              *)
LEMMA MaxSize ==
    ASSUME Sizes # {}
    PROVE  /\ Max(Sizes) \in Nat \ {0}
           /\ \A z \in Sizes : z \in Nat \ {0} /\ z <= Max(Sizes)
<1> DEFINE S == Mmu!SharedBytes
           R == {S - z : z \in Sizes}
<1>1. S \in Nat \ {0} /\ Sizes \subseteq 1..S
  BY MmuAssumption
<1> HIDE DEF S
<1>0. \A z \in Sizes : z \in Nat \ {0} /\ z <= S /\ S - z \in Nat
  <2>1. SUFFICES ASSUME NEW z \in Sizes PROVE z \in Nat \ {0} /\ z <= S /\ S - z \in Nat
    OBVIOUS
  <2>2. z \in 1..S
    BY <1>1
  <2>3. QED
    BY <1>1, <2>2
<1>2. R \subseteq Nat /\ R # {}
  BY <1>0
<1>3. PICK r \in R : \A t \in R : <<t, r>> \notin OpToRel(<, Nat)
  BY <1>2, WFMin, NatLessThanWellFounded
<1>4. PICK m \in Sizes : r = S - m
  BY <1>3
<1>5. ASSUME NEW z \in Sizes PROVE z <= m
  <2>1. S - z \in R /\ r \in Nat /\ S - z \in Nat
    BY <1>2, <1>3
  <2> HIDE DEF R
  <2>2. ~(S - z < r)
    BY <1>3, <2>1 DEF OpToRel
  <2>3. QED
    BY <2>1, <2>2, <1>4, <1>1, <1>0
<1> HIDE DEF R
<1>6. Max(Sizes) \in Sizes /\ \A z \in Sizes : Max(Sizes) >= z
  <2>1. \E x \in Sizes : \A y \in Sizes : x >= y
    <3>1. \A y \in Sizes : m >= y
      BY <1>5, <1>0
    <3>2. QED
      BY <3>1
  <2>2. QED
    BY <2>1 DEF Max
<1>7. QED
  <2>1. Max(Sizes) \in Nat \ {0}
    BY <1>6, <1>0
  <2>2. QED
    BY <2>1, <1>6, <1>0

(* What the upstream device may still send before the last frame on its way    *)
(* takes effect.                                                               *)
Reaction(i) ==
    IF frames[i] = <<>> THEN 0 ELSE RoundTrip - frames[i][Len(frames[i])].age

(* The link holds what it can hold; and unless the pause has timed out, the     *)
(* headroom of a paused class takes what is on the link and what the upstream  *)
(* device still sends, whatever the sizes.                                     *)
Fits(i) ==
    hdrm[Class(i)] + (Len(wire[i]) + Reaction(i)) * Max(Sizes) <= Headroom[i]

FitsAt(i) ==
    /\ Len(wire[i]) <= LinkPackets
    /\ HeadroomSuffices(i) /\ Sizes # {} /\ i \notin unheeded /\ paused[Class(i)] => Fits(i)

LinkFits == \A i \in In : FitsAt(i)

(* The last of some frames is there, and its age is that of a frame.           *)
LEMMA LastOf ==
    ASSUME NEW q \in Seq(Frame)
    PROVE  /\ Len(q) \in Nat
           /\ q # <<>> => Len(q) \in 1..Len(q) /\ q[Len(q)] \in Frame
           /\ (IF q = <<>> THEN 0 ELSE RoundTrip - q[Len(q)].age) \in 0..RoundTrip
<1>1. Len(q) \in Nat /\ (q # <<>> => Len(q) \in 1..Len(q) /\ q[Len(q)] \in Frame)
  BY LenProperties, EmptySeq, ElementOfSeq
<1>2. ASSUME NEW x \in Frame PROVE RoundTrip - x.age \in 0..RoundTrip
  BY LinkAssumption DEF Frame
<1>3. QED
  BY <1>1, <1>2, LinkAssumption

LEMMA LastFrame ==
    ASSUME LinkTypeOK, NEW i \in In
    PROVE  /\ Len(frames[i]) \in Nat
           /\ frames[i] # <<>> => /\ Len(frames[i]) \in 1..Len(frames[i])
                                 /\ frames[i][Len(frames[i])] \in Frame
           /\ Reaction(i) \in 0..RoundTrip
BY LastOf DEF LinkTypeOK, Reaction

LEMMA ReactionNext ==
    ASSUME LinkTypeOK', NEW i \in In
    PROVE  Reaction(i)' \in Nat
<1>1. frames'[i] \in Seq(Frame)
  BY DEF LinkTypeOK
<1>2. (IF frames'[i] = <<>> THEN 0 ELSE RoundTrip - frames'[i][Len(frames'[i])].age)
        \in 0..RoundTrip
  BY <1>1, LastOf
<1>3. QED
  BY <1>2, LinkAssumption DEF Reaction

(* A new frame starts a new round trip.                                        *)
LEMMA ReactionLast ==
    ASSUME LinkTypeOK, NEW i \in In, NEW type \in BOOLEAN,
           frames' = [frames EXCEPT ![i] = Append(frames[i], PFC(type))]
    PROVE  Reaction(i)' = RoundTrip
<1> DEFINE x == PFC(type)
           q == frames[i]
           r == Append(q, x)
<1>1. x \in Frame /\ x.age = 0 /\ q \in Seq(Frame)
  BY FrameType DEF LinkTypeOK, PFC
<1>2. frames'[i] = r
  BY DEF LinkTypeOK
<1> HIDE DEF x, q
<1>3. Len(r) = Len(q) + 1 /\ r[Len(q) + 1] = x /\ Len(q) \in Nat /\ r \in Seq(Frame)
  BY <1>1, AppendProperties, LenProperties
<1>4. r # <<>>
  BY <1>3, EmptySeq
<1> HIDE DEF r
<1>5. Reaction(i)' = RoundTrip - r[Len(r)].age
  BY <1>2, <1>4 DEF Reaction
<1>6. QED
  BY <1>1, <1>3, <1>5, LinkAssumption

(* A frame that is obeyed leaves no more to be sent.                           *)
LEMMA ReactionObeyed ==
    ASSUME LinkTypeOK, NEW i \in In, ReceivePfc(i)
    PROVE  Reaction(i)' <= Reaction(i) /\ Reaction(i)' \in Nat
<1> DEFINE q == frames[i]
           t == Tail(q)
<1>1. q \in Seq(Frame) /\ q # <<>> /\ frames' = [frames EXCEPT ![i] = t]
  BY DEF ReceivePfc, LinkTypeOK
<1>2. frames'[i] = t
  BY <1>1 DEF LinkTypeOK
<1>3. Reaction(i) \in 0..RoundTrip
  BY LastFrame
<1>4. Reaction(i) = RoundTrip - q[Len(q)].age
  BY <1>1 DEF Reaction
<1> HIDE DEF q
<1>5. /\ t \in Seq(Frame) /\ Len(t) = Len(q) - 1 /\ Len(q) \in Nat
      /\ \A k \in 1..Len(t) : t[k] = q[k + 1]
  BY <1>1, HeadTailProperties, LenProperties
<1> HIDE DEF t
<1>6. CASE t = <<>>
  <2>1. Reaction(i)' = 0
    BY <1>2, <1>6 DEF Reaction
  <2>2. QED
    BY <2>1, <1>3, LinkAssumption
<1>7. CASE t # <<>>
  <2>1. Len(t) # 0 /\ Len(t) \in Nat
    BY <1>5, <1>7, EmptySeq, LenProperties
  <2>2. t[Len(t)] = q[Len(q)]
    BY <2>1, <1>5
  <2>3. Reaction(i)' = RoundTrip - t[Len(t)].age
    BY <1>2, <1>7 DEF Reaction
  <2>4. Reaction(i)' = Reaction(i)
    BY <2>2, <2>3, <1>4
  <2>5. QED
    BY <2>4, <1>3, LinkAssumption
<1>8. QED
  BY <1>6, <1>7

(* A data packet uses up one of those it may still send.                       *)
LEMMA ReactionAged ==
    ASSUME LinkTypeOK, NEW i \in In, NEW z \in Sizes, Send(i, z), frames[i] # <<>>
    PROVE  Reaction(i)' = Reaction(i) - 1
<1> DEFINE q == frames[i]
           r == [k \in DOMAIN q |-> Older(q[k])]
<1>1. q \in Seq(Frame) /\ q # <<>>
  BY DEF LinkTypeOK
<1>2. frames' = [frames EXCEPT ![i] = r]
  BY DEF Send
<1>3. frames'[i] = r
  BY <1>2 DEF LinkTypeOK
<1>4. Reaction(i) = RoundTrip - q[Len(q)].age
  BY <1>1 DEF Reaction
<1> HIDE DEF q
<1>5. /\ DOMAIN q = 1..Len(q) /\ Len(q) \in Nat /\ Len(q) \in 1..Len(q)
      /\ q[Len(q)] \in Frame
  BY <1>1, LenProperties, EmptySeq, ElementOfSeq
<1>6. DOMAIN r = 1..Len(q) /\ r[Len(q)] = Older(q[Len(q)])
  BY <1>5
<1> HIDE DEF r
<1>7. r = [k \in 1..Len(q) |-> r[k]]
  BY <1>5 DEF r
<1>8. r # <<>> /\ Len(r) = Len(q)
  <2>1. r \in [1..Len(q) -> {r[k] : k \in 1..Len(q)}]
    BY <1>7
  <2>2. r \in Seq({r[k] : k \in 1..Len(q)})
    BY <2>1, <1>5, IsASeq
  <2>3. DOMAIN r = 1..Len(r) /\ Len(r) \in Nat
    BY <2>2, LenProperties
  <2>4. Len(r) = Len(q)
    <3>1. Len(q) \in 1..Len(r)
      BY <2>3, <1>5, <1>6
    <3>2. Len(r) \in 1..Len(q)
      BY <3>1, <2>3, <1>5, <1>6
    <3>3. Len(q) \in Nat /\ Len(r) \in Nat
      BY <2>3, <1>5
    <3>4. QED
      BY <3>1, <3>2, <3>3
  <2>5. Len(r) # 0
    BY <2>4, <1>5
  <2>6. r # <<>>
    <3>1. Len(<<>>) = 0
      OBVIOUS
    <3>2. QED
      BY <2>5, <3>1
  <2>7. QED
    BY <2>4, <2>6
<1>9. Reaction(i)' = RoundTrip - Older(q[Len(q)]).age
  BY <1>3, <1>6, <1>8 DEF Reaction
<1>10. ASSUME NEW x \in Frame PROVE Older(x).age = x.age + 1 /\ x.age \in Nat
  BY LinkAssumption DEF Older, Frame
<1>11. QED
  BY <1>4, <1>5, <1>9, <1>10, LinkAssumption

-----------------------------------------------------------------------------
(* Sums of packets of at most M bytes.                                         *)
LEMMA Fewer ==
    ASSUME NEW M \in Nat, NEW x \in Nat, NEW y \in Nat, x <= y
    PROVE  x * M <= y * M /\ x * M \in Nat
<1>1. PICK d \in Nat : y = x + d
  <2>1. y - x \in Nat /\ y = x + (y - x)
    OBVIOUS
  <2>2. QED
    BY <2>1
<1>2. y * M = x * M + d * M
  BY <1>1
<1>3. d * M \in Nat /\ x * M \in Nat
  OBVIOUS
<1>4. QED
  BY <1>2, <1>3

LEMMA OneLess ==
    ASSUME NEW M \in Nat, NEW x \in Nat \ {0}
    PROVE  x * M = (x - 1) * M + M /\ (x - 1) * M \in Nat
<1>1. PICK d \in Nat : x = d + 1
  <2>1. x - 1 \in Nat /\ x = (x - 1) + 1
    OBVIOUS
  <2>2. QED
    BY <2>1
<1>2. x * M = d * M + M
  BY <1>1
<1>3. d * M \in Nat /\ x - 1 = d
  BY <1>1
<1>4. QED
  BY <1>2, <1>3

-----------------------------------------------------------------------------
(* The counters of the class of an ingress port.                               *)
LEMMA Counters ==
    ASSUME MmuFacts, NEW i \in In
    PROVE  /\ ingress[Class(i)] \in Nat /\ hdrm[Class(i)] \in Nat
           /\ Headroom[i] \in Nat
           /\ Reserve \in Nat /\ Mmu!SharedBytes \in Nat
           /\ hdrm[Class(i)] = IF ingress[Class(i)] > Reserve + Mmu!SharedBytes
                              THEN ingress[Class(i)] - Reserve - Mmu!SharedBytes ELSE 0
           /\ ~paused[Class(i)] => ingress[Class(i)] < Reserve + Mmu!SharedBytes
<1>1. Class(i) \in Mmu!Classes /\ i \in In \cup {Out}
  BY Classes
<1>2. ingress[Class(i)] \in Nat /\ hdrm[Class(i)] \in Nat
  BY <1>1 DEF MmuFacts, Mmu!TypeOK
<1>3. Headroom[i] \in Nat /\ Reserve \in Nat /\ Mmu!SharedBytes \in Nat
  BY <1>1, MmuAssumption
<1>4. hdrm[Class(i)] = IF ingress[Class(i)] > Reserve + Mmu!SharedBytes
                       THEN ingress[Class(i)] - Reserve - Mmu!SharedBytes ELSE 0
  BY <1>1 DEF MmuFacts, Mmu!HdrmExact
<1>5. ~paused[Class(i)] => ~(ingress[Class(i)] >= Reserve + Mmu!SharedBytes)
  BY <1>1 DEF MmuFacts, Mmu!CongestedIsPaused
<1>6. QED
  BY <1>2, <1>3, <1>4, <1>5

LEMMA WireLength ==
    ASSUME LinkTypeOK, NEW i \in In
    PROVE  /\ wire[i] \in Seq(Sizes) /\ Len(wire[i]) \in Nat
           /\ wire[i] # <<>> => Head(wire[i]) \in Sizes /\ Len(Tail(wire[i])) = Len(wire[i]) - 1
                               /\ Len(wire[i]) \in Nat \ {0}
           /\ \A z \in Sizes : Len(Append(wire[i], z)) = Len(wire[i]) + 1
<1>1. wire[i] \in Seq(Sizes)
  BY DEF LinkTypeOK
<1>2. Len(wire[i]) \in Nat
  BY <1>1, LenProperties
<1>3. wire[i] # <<>> => Head(wire[i]) \in Sizes /\ Len(Tail(wire[i])) = Len(wire[i]) - 1
                               /\ Len(wire[i]) \in Nat \ {0}
  BY <1>1, <1>2, HeadTailProperties, EmptySeq
<1>4. \A z \in Sizes : Len(Append(wire[i], z)) = Len(wire[i]) + 1
  BY <1>1, AppendProperties
<1>5. QED
  BY <1>1, <1>2, <1>3, <1>4

(* Nothing that concerns the headroom gets worse.                              *)
LEMMA FitsKept ==
    ASSUME LinkTypeOK, LinkTypeOK', MmuFacts, MmuFacts', NEW i \in In, Sizes # {}, Fits(i),
           hdrm'[Class(i)] <= hdrm[Class(i)],
           Len(wire'[i]) + Reaction(i)' <= Len(wire[i]) + Reaction(i)
    PROVE  Fits(i)'
<1> DEFINE h == hdrm[Class(i)]
           g == hdrm'[Class(i)]
           x == Len(wire[i]) + Reaction(i)
           y == Len(wire'[i]) + Reaction(i)'
           M == Max(Sizes)
<1>1. h \in Nat /\ g \in Nat /\ Headroom[i] \in Nat
  <2>1. h \in Nat /\ Headroom[i] \in Nat
    BY Counters
  <2>2. Class(i) \in Mmu!Classes
    BY Classes
  <2>3. g \in Nat
    BY <2>2 DEF MmuFacts, Mmu!TypeOK
  <2>4. QED
    BY <2>1, <2>3
<1>2. x \in Nat
  BY WireLength, LastFrame
<1>3. y \in Nat
  <2>1. Len(wire'[i]) \in Nat
    BY LenProperties DEF LinkTypeOK
  <2>2. Reaction(i)' \in Nat
    BY ReactionNext
  <2>3. QED
    BY <2>1, <2>2
<1>4. M \in Nat
  BY MaxSize
<1>5. h + x * M <= Headroom[i]
  BY DEF Fits
<1>6. g <= h /\ y <= x
  OBVIOUS
<1> HIDE DEF h, g, x, y, M
<1>7. y * M <= x * M /\ y * M \in Nat /\ x * M \in Nat
  BY <1>2, <1>3, <1>4, <1>6, Fewer
<1>8. g + y * M <= Headroom[i]
  BY <1>1, <1>5, <1>6, <1>7
<1>9. QED
  BY <1>8 DEF Fits, g, y, M

(* A port that an event does not concern.                                      *)
LEMMA SameFits ==
    ASSUME NEW j \in In, FitsAt(j),
           wire'[j] = wire[j], frames'[j] = frames[j],
           paused'[Class(j)] = paused[Class(j)], hdrm'[Class(j)] = hdrm[Class(j)],
           j \in unheeded => j \in unheeded'
    PROVE  FitsAt(j)'
BY DEF FitsAt, Fits, Reaction, HeadroomSuffices

(* What holds before and after a step.                                         *)
BothSides ==
    /\ IInv /\ IInv' /\ MmuFacts /\ MmuFacts'
    /\ LinkFits

LEMMA SendFits ==
    ASSUME BothSides, NEW i \in In, NEW z \in Sizes, Send(i, z)
    PROVE  LinkFits'
<1>1. /\ LinkTypeOK /\ LinkTypeOK' /\ PfcAgreement /\ MmuFacts /\ MmuFacts'
      /\ FitsAt(i) /\ \A j \in In : FitsAt(j)
  BY DEF BothSides, IInv, LinkFits
<1>2. /\ ~upPaused[i] /\ Len(wire[i]) < LinkPackets
      /\ wire' = [wire EXCEPT ![i] = Append(wire[i], z)]
      /\ UNCHANGED <<unheeded, hdrm, paused>>
  BY DEF Send, mmuVars
<1>3. wire'[i] = Append(wire[i], z) /\ \A j \in In : j # i => wire'[j] = wire[j]
  BY <1>1, <1>2 DEF LinkTypeOK
<1>4. \A j \in In : j # i => frames'[j] = frames[j]
  BY <1>1 DEF Send, LinkTypeOK
<1>5. ASSUME NEW j \in In, j # i PROVE FitsAt(j)'
  BY <1>1, <1>2, <1>3, <1>4, <1>5, SameFits
<1>6. Len(wire'[i]) = Len(wire[i]) + 1 /\ Len(wire[i]) \in Nat
  BY <1>1, <1>3, WireLength
<1>7. ASSUME HeadroomSuffices(i), i \notin unheeded', paused'[Class(i)] PROVE Fits(i)'
  <2>1. i \notin unheeded /\ paused[Class(i)]
    BY <1>2, <1>7
  <2>2. Told(i)
    BY <1>1, <2>1 DEF PfcAgreement
  <2>3. frames[i] # <<>>
    BY <2>2, <1>2 DEF Told
  <2>4. Reaction(i)' = Reaction(i) - 1 /\ Reaction(i) \in 0..RoundTrip
    BY <2>3, <1>1, ReactionAged, LastFrame
  <2>5. Len(wire'[i]) + Reaction(i)' = Len(wire[i]) + Reaction(i)
    BY <2>4, <1>6, LinkAssumption
  <2>6. Fits(i)
    BY <1>1, <1>7, <2>1 DEF FitsAt
  <2>7. QED
    BY <2>5, <2>6, <1>2 DEF Fits
<1>8. Len(wire'[i]) <= LinkPackets
  BY <1>2, <1>6, LinkAssumption
<1>9. HeadroomSuffices(i)' <=> HeadroomSuffices(i)
  BY DEF HeadroomSuffices
<1>10. FitsAt(i)'
  BY <1>7, <1>8, <1>9 DEF FitsAt
<1>11. QED
  BY <1>5, <1>10 DEF LinkFits

(* Less on the link, and no more to be sent.                                   *)
LEMMA LessFits ==
    ASSUME BothSides, NEW i \in In,
           \A j \in In : j # i => /\ wire'[j] = wire[j] /\ frames'[j] = frames[j]
                                 /\ paused'[Class(j)] = paused[Class(j)]
                                 /\ hdrm'[Class(j)] = hdrm[Class(j)],
           \A j \in In : j # i \/ paused'[Class(i)] => (j \in unheeded => j \in unheeded'),
           paused'[Class(i)] => paused[Class(i)],
           Len(wire'[i]) <= Len(wire[i]),
           paused'[Class(i)] =>
               hdrm'[Class(i)] <= hdrm[Class(i)] /\ Reaction(i)' <= Reaction(i)
    PROVE  LinkFits'
<1>1. /\ LinkTypeOK /\ LinkTypeOK' /\ MmuFacts /\ MmuFacts'
      /\ FitsAt(i) /\ \A j \in In : FitsAt(j)
  BY DEF BothSides, IInv, LinkFits
<1>2. ASSUME NEW j \in In, j # i PROVE FitsAt(j)'
  BY <1>1, <1>2, SameFits
<1>3. HeadroomSuffices(i)' <=> HeadroomSuffices(i)
  BY DEF HeadroomSuffices
<1>4. Len(wire[i]) \in Nat /\ Len(wire'[i]) \in Nat
  BY <1>1, WireLength, LenProperties DEF LinkTypeOK
<1>5. Len(wire'[i]) <= LinkPackets
  BY <1>1, <1>4, LinkAssumption DEF FitsAt
<1>6. ASSUME HeadroomSuffices(i), Sizes # {}, i \notin unheeded', paused'[Class(i)] PROVE Fits(i)'
  <2>1. Fits(i)
    BY <1>1, <1>6 DEF FitsAt
  <2>2. Reaction(i) \in 0..RoundTrip /\ Reaction(i)' \in Nat
    BY <1>1, LastFrame, ReactionNext
  <2>3. Len(wire'[i]) + Reaction(i)' <= Len(wire[i]) + Reaction(i)
    BY <2>2, <1>4, <1>6, LinkAssumption
  <2>4. QED
    BY <2>1, <2>3, <1>1, <1>6, FitsKept
<1>7. FitsAt(i)'
  BY <1>3, <1>5, <1>6 DEF FitsAt
<1>8. QED
  BY <1>2, <1>7 DEF LinkFits

LEMMA DropFits ==
    ASSUME BothSides, NEW i \in In, Drop(i)
    PROVE  LinkFits'
<1>1. LinkTypeOK /\ MmuFacts
  BY DEF BothSides, IInv
<1>2. /\ wire[i] # <<>> /\ wire' = [wire EXCEPT ![i] = Tail(wire[i])]
      /\ UNCHANGED <<frames, unheeded, hdrm, paused>>
  BY DEF Drop, mmuVars
<1>3. wire'[i] = Tail(wire[i]) /\ \A j \in In : j # i => wire'[j] = wire[j]
  BY <1>1, <1>2 DEF LinkTypeOK
<1>4. Len(wire'[i]) <= Len(wire[i])
  BY <1>1, <1>2, <1>3, WireLength
<1>5. Reaction(i)' = Reaction(i)
  BY <1>2 DEF Reaction
<1>6. Reaction(i) \in 0..RoundTrip /\ hdrm[Class(i)] \in Nat
  BY <1>1, LastFrame, Counters
<1>7. Reaction(i)' <= Reaction(i) /\ hdrm'[Class(i)] <= hdrm[Class(i)]
  BY <1>2, <1>5, <1>6, LinkAssumption
<1>8. QED
  BY <1>2, <1>3, <1>4, <1>7, LessFits

LEMMA ReceivePfcFits ==
    ASSUME BothSides, NEW i \in In, ReceivePfc(i)
    PROVE  LinkFits'
<1>1. LinkTypeOK /\ MmuFacts
  BY DEF BothSides, IInv
<1>2. /\ frames' = [frames EXCEPT ![i] = Tail(frames[i])]
      /\ UNCHANGED <<wire, unheeded, hdrm, paused>>
  BY DEF ReceivePfc, mmuVars
<1>3. \A j \in In : j # i => frames'[j] = frames[j]
  BY <1>1, <1>2 DEF LinkTypeOK
<1>4. Reaction(i)' <= Reaction(i)
  BY <1>1, ReactionObeyed
<1>5. hdrm[Class(i)] \in Nat /\ Len(wire[i]) \in Nat
  BY <1>1, Counters, WireLength
<1>6. Len(wire'[i]) <= Len(wire[i]) /\ hdrm'[Class(i)] <= hdrm[Class(i)]
  BY <1>2, <1>5
<1>7. QED
  BY <1>2, <1>3, <1>4, <1>6, LessFits

LEMMA PauseExpiresFits ==
    ASSUME BothSides, NEW i \in In, PauseExpires(i)
    PROVE  LinkFits'
<1>1. LinkTypeOK /\ \A j \in In : FitsAt(j)
  BY DEF BothSides, IInv, LinkFits
<1>2. UNCHANGED <<wire, frames, hdrm, paused>> /\ unheeded \subseteq unheeded'
  BY DEF PauseExpires, mmuVars
<1>3. ASSUME NEW j \in In PROVE FitsAt(j)'
  BY <1>1, <1>2, SameFits
<1>4. QED
  BY <1>3 DEF LinkFits

LEMMA CountersNext ==
    ASSUME MmuFacts', NEW i \in In
    PROVE  /\ ingress'[Class(i)] \in Nat /\ hdrm'[Class(i)] \in Nat
           /\ hdrm'[Class(i)] = IF ingress'[Class(i)] > Reserve + Mmu!SharedBytes
                               THEN ingress'[Class(i)] - Reserve - Mmu!SharedBytes ELSE 0
<1>1. Class(i) \in Mmu!Classes
  BY Classes
<1>2. QED
  BY <1>1 DEF MmuFacts, Mmu!TypeOK, Mmu!HdrmExact

(* The packet that makes a class congested is the only one of its headroom;     *)
(* every later one leaves the link for it.                                      *)
LEMMA ArriveFits ==
    ASSUME BothSides, NEW i \in In, Arrive(i)
    PROVE  LinkFits'
<1> DEFINE z == Head(wire[i])
           c == Class(i)
           M == Max(Sizes)
<1>1. /\ LinkTypeOK /\ LinkTypeOK' /\ MmuFacts /\ MmuFacts'
      /\ \A j \in In : FitsAt(j)
  BY DEF BothSides, IInv, LinkFits
<1>2. /\ wire[i] # <<>> /\ wire' = [wire EXCEPT ![i] = Tail(wire[i])]
      /\ unheeded' = unheeded
      /\ frames' = IF paused'[c] /\ ~paused[c]
                   THEN [frames EXCEPT ![i] = Append(frames[i], PFC(TRUE))]
                   ELSE frames
  BY DEF Arrive
<1>3. /\ ingress' = [ingress EXCEPT ![c] = ingress[c] + z]
      /\ hdrm' = [hdrm EXCEPT ![c] = hdrm[c] + Mmu!HdrmInc(c, z)]
      /\ paused' = [paused EXCEPT ![c] =
                       paused[c] \/ Mmu!ShouldPause(ingress[c] + z, hdrm[c] + Mmu!HdrmInc(c, z))]
  BY DEF Arrive, Mmu!Admit
<1>4. z \in Sizes /\ Len(wire[i]) \in Nat \ {0}
  BY <1>1, <1>2, WireLength
<1>5. Sizes # {} /\ M \in Nat \ {0} /\ z \in Nat /\ z <= M
  BY <1>4, MaxSize
<1>6. wire'[i] = Tail(wire[i]) /\ Len(wire'[i]) = Len(wire[i]) - 1
  BY <1>1, <1>2, WireLength DEF LinkTypeOK
<1>7. ASSUME NEW j \in In, j # i
      PROVE  /\ wire'[j] = wire[j] /\ frames'[j] = frames[j]
             /\ paused'[Class(j)] = paused[Class(j)] /\ hdrm'[Class(j)] = hdrm[Class(j)]
  <2>1. Class(j) # Class(i) /\ Class(j) \in Mmu!Classes
    BY <1>7, Classes
  <2>2. wire'[j] = wire[j] /\ frames'[j] = frames[j]
    BY <1>1, <1>2, <1>7 DEF LinkTypeOK
  <2>3. paused'[Class(j)] = paused[Class(j)] /\ hdrm'[Class(j)] = hdrm[Class(j)]
    BY <2>1, <1>1, <1>3 DEF MmuFacts, Mmu!TypeOK
  <2>4. QED
    BY <2>2, <2>3
<1>8. ingress'[c] = ingress[c] + z
  BY <1>1, <1>3, Classes DEF MmuFacts, Mmu!TypeOK
<1>9. hdrm'[c] <= hdrm[c] + M /\ (~paused[c] => hdrm'[c] <= M - 1)
  <2>1. /\ ingress[c] \in Nat /\ hdrm[c] \in Nat
        /\ Reserve \in Nat /\ Mmu!SharedBytes \in Nat
        /\ hdrm[c] = IF ingress[c] > Reserve + Mmu!SharedBytes
                     THEN ingress[c] - Reserve - Mmu!SharedBytes ELSE 0
        /\ ~paused[c] => ingress[c] < Reserve + Mmu!SharedBytes
    BY <1>1, Counters
  <2>2. hdrm'[c] = IF ingress'[c] > Reserve + Mmu!SharedBytes
                   THEN ingress'[c] - Reserve - Mmu!SharedBytes ELSE 0
    BY <1>1, CountersNext
  <2> HIDE DEF z, c, M
  <2>3. QED
    BY <2>1, <2>2, <1>5, <1>8
<1>10. Headroom[i] \in Nat /\ hdrm[c] \in Nat /\ hdrm'[c] \in Nat
  BY <1>1, Counters, CountersNext
<1> HIDE DEF z, M
<1>11. ASSUME HeadroomSuffices(i), i \notin unheeded', paused'[c] PROVE Fits(i)'
  <2>1. CASE paused[c]
    <3>1. frames' = frames
      BY <2>1, <1>2
    <3>2. Reaction(i)' = Reaction(i) /\ Reaction(i) \in Nat
      BY <3>1, <1>1, LastFrame, LinkAssumption DEF Reaction
    <3>3. hdrm[c] + (Len(wire[i]) + Reaction(i)) * M <= Headroom[i]
      BY <2>1, <1>1, <1>2, <1>5, <1>11 DEF FitsAt, Fits, M
    <3> DEFINE x == Len(wire[i]) + Reaction(i)
               h == hdrm[c]
               g == hdrm'[c]
    <3>4. x \in Nat \ {0} /\ Len(wire'[i]) + Reaction(i)' = x - 1
      BY <3>2, <1>4, <1>6
    <3>5. h \in Nat /\ g \in Nat /\ g <= h + M /\ h + x * M <= Headroom[i]
      BY <3>3, <1>9, <1>10
    <3> HIDE DEF x, h, g
    <3>6. x * M = (x - 1) * M + M /\ (x - 1) * M \in Nat
      BY <3>4, <1>5, OneLess
    <3>7. g + (x - 1) * M <= Headroom[i]
      BY <3>5, <3>6, <1>5, <1>10
    <3>8. QED
      BY <3>4, <3>7 DEF Fits, g, c, M
  <2>2. CASE ~paused[c]
    <3>1. frames' = [frames EXCEPT ![i] = Append(frames[i], PFC(TRUE))]
      BY <2>2, <1>2, <1>11
    <3>2. Reaction(i)' = RoundTrip
      BY <3>1, <1>1, ReactionLast
    <3> DEFINE x == LinkPackets + RoundTrip
               y == Len(wire'[i]) + RoundTrip
               g == hdrm'[c]
    <3>3. x \in Nat \ {0} /\ y \in Nat /\ y <= x - 1
      <4>1. Len(wire[i]) <= LinkPackets
        BY <1>1 DEF FitsAt
      <4>2. QED
        BY <4>1, <1>4, <1>6, LinkAssumption
    <3>4. x * M - 1 <= Headroom[i]
      BY <1>11, <3>3, <1>5 DEF HeadroomSuffices, M
    <3>5. g \in Nat /\ g <= M - 1
      BY <2>2, <1>9, <1>10
    <3> HIDE DEF x, y, g
    <3>6. /\ x * M = (x - 1) * M + M /\ (x - 1) * M \in Nat
          /\ y * M <= (x - 1) * M /\ y * M \in Nat
      BY <3>3, <1>5, OneLess, Fewer
    <3>7. g + y * M <= Headroom[i]
      BY <3>4, <3>5, <3>6, <1>5, <1>10
    <3>8. QED
      BY <3>2, <3>7 DEF Fits, g, y, c, M
  <2>3. QED
    BY <2>1, <2>2
<1>12. Len(wire'[i]) <= LinkPackets
  BY <1>1, <1>4, <1>6, LinkAssumption DEF FitsAt
<1>13. HeadroomSuffices(i)' <=> HeadroomSuffices(i)
  BY DEF HeadroomSuffices
<1>14. FitsAt(i)'
  BY <1>11, <1>12, <1>13 DEF FitsAt
<1>15. ASSUME NEW j \in In, j # i PROVE FitsAt(j)'
  BY <1>1, <1>2, <1>7, <1>15, SameFits
<1>16. QED
  BY <1>14, <1>15 DEF LinkFits

LEMMA DequeueFits ==
    ASSUME BothSides, Dequeue
    PROVE  LinkFits'
<1>1. /\ LinkTypeOK /\ LinkTypeOK' /\ MmuFacts /\ MmuFacts'
  BY DEF BothSides, IInv
<1>2. PICK i \in In, z \in Sizes :
          i = Head(fifo).in /\ z = Head(fifo).size /\ Mmu!Release(Class(i), Out, z)
  BY <1>1, DequeueReleases
<1> DEFINE c == Class(i)
<1>3. /\ wire' = wire
      /\ unheeded' = IF paused'[c] THEN unheeded ELSE unheeded \ {i}
      /\ frames' = IF paused[c] /\ ~paused'[c]
                   THEN [frames EXCEPT ![i] = Append(frames[i], PFC(FALSE))]
                   ELSE frames
  BY <1>2 DEF Dequeue
<1>4. /\ z <= ingress[c]
      /\ ingress' = [ingress EXCEPT ![c] = Mmu!Minus(ingress[c], z)]
      /\ hdrm' = [hdrm EXCEPT ![c] = Mmu!Minus(hdrm[c], Mmu!FromHdrm(c, z))]
      /\ paused' = [paused EXCEPT ![c] =
             paused[c] /\ ~Mmu!ShouldResume(Mmu!Minus(ingress[c], z),
                                            Mmu!Minus(hdrm[c], Mmu!FromHdrm(c, z)))]
  BY <1>2 DEF Mmu!Release
<1>5. ASSUME NEW j \in In, j # i
      PROVE  /\ wire'[j] = wire[j] /\ frames'[j] = frames[j]
             /\ paused'[Class(j)] = paused[Class(j)] /\ hdrm'[Class(j)] = hdrm[Class(j)]
  <2>1. Class(j) # Class(i) /\ Class(j) \in Mmu!Classes
    BY <1>5, Classes
  <2>2. wire'[j] = wire[j] /\ frames'[j] = frames[j]
    BY <1>1, <1>3, <1>5 DEF LinkTypeOK
  <2>3. paused'[Class(j)] = paused[Class(j)] /\ hdrm'[Class(j)] = hdrm[Class(j)]
    BY <2>1, <1>1, <1>4 DEF MmuFacts, Mmu!TypeOK
  <2>4. QED
    BY <2>2, <2>3
<1>6. paused'[c] => paused[c]
  BY <1>1, <1>4, Classes DEF LinkTypeOK
<1>7. hdrm'[c] <= hdrm[c]
  <2>1. /\ ingress[c] \in Nat /\ hdrm[c] \in Nat
        /\ Reserve \in Nat /\ Mmu!SharedBytes \in Nat
        /\ hdrm[c] = IF ingress[c] > Reserve + Mmu!SharedBytes
                     THEN ingress[c] - Reserve - Mmu!SharedBytes ELSE 0
    BY <1>1, Counters
  <2>2. hdrm'[c] = IF ingress'[c] > Reserve + Mmu!SharedBytes
                   THEN ingress'[c] - Reserve - Mmu!SharedBytes ELSE 0
    BY <1>1, CountersNext
  <2>3. Sizes # {}
    BY <1>2
  <2>4. z \in Nat
    BY <2>3, <1>2, MaxSize
  <2>5. ingress'[c] = ingress[c] - z
    BY <2>1, <2>4, <1>1, <1>4, Classes DEF MmuFacts, Mmu!TypeOK, Mmu!Minus
  <2> HIDE DEF c
  <2>6. QED
    BY <2>1, <2>2, <2>4, <2>5
<1>8. paused'[c] => Reaction(i)' <= Reaction(i)
  <2>1. ASSUME paused'[c] PROVE Reaction(i)' = Reaction(i)
    BY <2>1, <1>3 DEF Reaction
  <2>2. Reaction(i) \in 0..RoundTrip
    BY <1>1, LastFrame
  <2>3. QED
    BY <2>1, <2>2, LinkAssumption
<1>9. Len(wire'[i]) <= Len(wire[i])
  BY <1>1, <1>3, WireLength
<1>10. QED
  BY <1>3, <1>5, <1>6, <1>7, <1>8, <1>9, LessFits

LEMMA InitFits == Init => LinkFits
<1> SUFFICES ASSUME Init, NEW i \in In PROVE FitsAt(i)
  BY DEF LinkFits
<1>1. wire[i] = <<>> /\ ~paused[Class(i)]
  BY Classes DEF Init, Mmu!Init
<1>2. Len(wire[i]) = 0
  BY <1>1
<1>3. QED
  BY <1>1, <1>2, LinkAssumption DEF FitsAt

LEMMA StepFits == BothSides /\ [Next]_vars => LinkFits'
<1> SUFFICES ASSUME BothSides, [Next]_vars PROVE LinkFits'
  OBVIOUS
<1>1. CASE UNCHANGED vars
  BY <1>1 DEF BothSides, LinkFits, FitsAt, Fits, Reaction, HeadroomSuffices, vars, mmuVars
<1>2. QED
  BY <1>1, SendFits, ArriveFits, DropFits, ReceivePfcFits, PauseExpiresFits, DequeueFits
  DEF Next

LEMMA FitsInvariant == Spec => [](IInv /\ MmuFacts /\ LinkFits)
<1>1. IInv /\ IInv' /\ MmuFacts /\ MmuFacts' /\ LinkFits /\ [Next]_vars => LinkFits'
  BY StepFits DEF BothSides
<1>2. Spec => []IInv
  BY InitIInv, NextKeeps, PTL DEF Spec
<1>3. QED
  BY <1>1, <1>2, MmuInvariant, InitFits, PTL DEF Spec

(* A port whose headroom takes what the link may bring until a PAUSE takes     *)
(* effect admits every packet that arrives, unless the pause of its upstream   *)
(* device timed out in the present congestion.                                 *)
THEOREM NoLoss == Spec => []Lossless
<1>1. ASSUME IInv, MmuFacts, LinkFits,
             NEW i \in In, HeadroomSuffices(i), i \notin unheeded, wire[i] # <<>>
      PROVE  Mmu!CheckIngressAdmission(Class(i), Head(wire[i]))
  <2> DEFINE z == Head(wire[i])
             M == Max(Sizes)
             h == hdrm[Class(i)]
             x == Len(wire[i])
  <2>1. z \in Sizes /\ x \in Nat \ {0} /\ LinkTypeOK
    BY <1>1, WireLength DEF IInv
  <2>2. Sizes # {} /\ M \in Nat \ {0} /\ z \in Nat /\ z <= M
    BY <2>1, MaxSize
  <2>3. /\ h \in Nat /\ Headroom[i] \in Nat
        /\ h = IF ingress[Class(i)] > Reserve + Mmu!SharedBytes
               THEN ingress[Class(i)] - Reserve - Mmu!SharedBytes ELSE 0
        /\ ~paused[Class(i)] => ingress[Class(i)] < Reserve + Mmu!SharedBytes
        /\ ingress[Class(i)] \in Nat /\ Reserve + Mmu!SharedBytes \in Nat
        /\ Reserve \in Nat /\ Mmu!SharedBytes \in Nat
    BY <1>1, Counters
  <2>4. FitsAt(i)
    BY <1>1 DEF LinkFits
  <2>5. CASE paused[Class(i)]
    <3> DEFINE y == Len(wire[i]) + Reaction(i)
    <3>1. h + y * M <= Headroom[i]
      BY <2>2, <2>4, <2>5, <1>1 DEF FitsAt, Fits
    <3>2. y \in Nat \ {0}
      BY <2>1, LastFrame, LinkAssumption
    <3> HIDE DEF y, M, h, z
    <3>3. y * M = (y - 1) * M + M /\ (y - 1) * M \in Nat
      BY <3>2, <2>2, OneLess
    <3>4. z + h <= Headroom[i]
      BY <3>1, <3>3, <2>2, <2>3
    <3>5. QED
      BY <3>4 DEF Mmu!CheckIngressAdmission, Class, h, z
  <2>6. CASE ~paused[Class(i)]
    <3> DEFINE y == LinkPackets + RoundTrip
    <3>1. h = 0
      BY <2>3, <2>6
    <3>2. x <= LinkPackets
      BY <2>4 DEF FitsAt
    <3>3. y \in Nat \ {0} /\ y - 1 \in Nat /\ 1 <= y - 1
      BY <2>1, <3>2, LinkAssumption
    <3>4. y * M - 1 <= Headroom[i]
      BY <1>1, <2>2, <3>3 DEF HeadroomSuffices
    <3> HIDE DEF y, M, h, z
    <3>5. y * M = (y - 1) * M + M /\ 1 * M <= (y - 1) * M /\ (y - 1) * M \in Nat
      BY <3>3, <2>2, OneLess, Fewer
    <3>6. z + h <= Headroom[i]
      BY <3>1, <3>4, <3>5, <2>2, <2>3
    <3>7. QED
      BY <3>6 DEF Mmu!CheckIngressAdmission, Class, h, z
  <2>7. QED
    BY <2>5, <2>6
<1>2. IInv /\ MmuFacts /\ LinkFits => Lossless
  BY <1>1 DEF Lossless
<1>3. QED
  BY <1>2, FitsInvariant, PTL

(* Every variable keeps its type: no more is on a link than it holds.           *)
THEOREM TypeCorrect == Spec => []TypeOK
<1>1. IInv /\ MmuFacts /\ LinkFits /\ expiries <= MaxExpire => TypeOK
  BY DEF IInv, LinkTypeOK, MmuFacts, LinkFits, FitsAt, TypeOK
<1>2. Init => expiries <= MaxExpire
  BY LinkAssumption DEF Init
<1>3. ASSUME LinkTypeOK, expiries <= MaxExpire, [Next]_vars PROVE expiries' <= MaxExpire
  <2>1. expiries' = expiries \/ (expiries < MaxExpire /\ expiries' = expiries + 1)
    BY <1>3 DEF Next, Send, Arrive, Drop, ReceivePfc, PauseExpires, Dequeue, vars
  <2>2. QED
    BY <2>1, <1>3, LinkAssumption DEF LinkTypeOK
<1>4. IInv /\ expiries <= MaxExpire /\ [Next]_vars => (expiries <= MaxExpire)'
  BY <1>3 DEF IInv
<1>5. QED
  BY <1>1, <1>2, <1>4, FitsInvariant, PTL DEF Spec

-----------------------------------------------------------------------------
(* The bytes that the egress queue holds.                                      *)

FifoPacket == [in : In, size : Sizes]

(* The positions of q with packets that came in through J, and their bytes.    *)
From(q, J) == {k \in DOMAIN q : q[k].in \in J}
SizeOf(q) == [k \in DOMAIN q |-> q[k].size]
Held(q, J) == Sum(SizeOf(q), From(q, J))
BytesOf(x, J) == IF x.in \in J THEN x.size ELSE 0

LEMMA FifoFacts ==
    ASSUME NEW q \in Seq(FifoPacket), NEW J
    PROVE  /\ DOMAIN q = 1..Len(q) /\ Len(q) \in Nat
           /\ IsFiniteSet(DOMAIN q) /\ IsFiniteSet(From(q, J)) /\ From(q, J) \subseteq 1..Len(q)
           /\ \A k \in 1..Len(q) : /\ q[k] \in FifoPacket /\ SizeOf(q)[k] = q[k].size
                                   /\ q[k].size \in Nat
           /\ IsInteger(SizeOf(q), From(q, J)) /\ Held(q, J) \in Int
<1>1. DOMAIN q = 1..Len(q) /\ Len(q) \in Nat
  BY LenProperties
<1>2. \A k \in 1..Len(q) : q[k] \in FifoPacket
  BY ElementOfSeq
<1>3. \A k \in 1..Len(q) : SizeOf(q)[k] = q[k].size /\ q[k].size \in Nat
  <2>1. \A z \in Sizes : z \in Nat
    BY MmuAssumption
  <2>2. \A k \in 1..Len(q) : q[k].size \in Nat
    BY <1>2, <2>1 DEF FifoPacket
  <2>3. QED
    BY <1>1, <2>2 DEF SizeOf
<1>4. IsFiniteSet(DOMAIN q) /\ From(q, J) \subseteq DOMAIN q
  BY <1>1, FS_Interval DEF From
<1>5. IsFiniteSet(From(q, J)) /\ IsInteger(SizeOf(q), From(q, J))
  BY <1>1, <1>3, <1>4, FS_Subset DEF IsInteger
<1>6. Held(q, J) \in Int
  BY <1>5, SumSplit DEF Held
<1>7. QED
  BY <1>1, <1>2, <1>3, <1>4, <1>5, <1>6

(* A packet at the end adds its bytes.                                         *)
LEMMA HeldAppend ==
    ASSUME NEW q \in Seq(FifoPacket), NEW x \in FifoPacket, NEW J
    PROVE  Held(Append(q, x), J) = Held(q, J) + BytesOf(x, J)
<1> DEFINE r == Append(q, x)
           n == Len(q) + 1
<1>1. /\ r \in Seq(FifoPacket) /\ Len(r) = n
      /\ \A k \in 1..Len(q) : r[k] = q[k]
      /\ r[n] = x
  BY AppendProperties
<1> HIDE DEF r
<1>2. /\ Len(q) \in Nat /\ DOMAIN r = 1..n /\ DOMAIN q = 1..Len(q)
      /\ \A k \in 1..n : SizeOf(r)[k] = r[k].size
      /\ \A k \in 1..Len(q) : SizeOf(q)[k] = q[k].size
      /\ IsFiniteSet(From(q, J)) /\ IsInteger(SizeOf(r), From(r, J))
      /\ Held(q, J) \in Int
  BY <1>1, FifoFacts
<1>3. n \notin From(q, J) /\ n \in 1..n /\ \A k \in From(q, J) : k \in 1..Len(q) /\ k \in 1..n
  BY <1>2 DEF From
<1>4. Sum(SizeOf(r), From(q, J)) = Held(q, J)
  <2>1. \A k \in From(q, J) : SizeOf(r)[k] = SizeOf(q)[k]
    BY <1>1, <1>2, <1>3
  <2>2. QED
    BY <1>2, <2>1, SumSame DEF Held
<1>5. CASE x.in \in J
  <2>1. From(r, J) = From(q, J) \cup {n}
    BY <1>1, <1>2, <1>5 DEF From
  <2>2. Sum(SizeOf(r), From(q, J) \cup {n}) = Sum(SizeOf(r), From(q, J)) + SizeOf(r)[n]
    BY <1>2, <1>3, <2>1, SumAdd
  <2>3. SizeOf(r)[n] = BytesOf(x, J)
    BY <1>1, <1>2, <1>3, <1>5 DEF BytesOf
  <2>4. QED
    BY <1>4, <2>1, <2>2, <2>3 DEF Held, r
<1>6. CASE x.in \notin J
  <2>1. From(r, J) = From(q, J)
    BY <1>1, <1>2, <1>6 DEF From
  <2>2. QED
    BY <1>2, <1>4, <1>6, <2>1 DEF Held, BytesOf, r
<1>7. QED
  BY <1>5, <1>6

(* The packet at the front takes its bytes with it.                            *)
LEMMA HeldTail ==
    ASSUME NEW q \in Seq(FifoPacket), q # <<>>, NEW J
    PROVE  /\ Held(q, J) = Held(Tail(q), J) + BytesOf(Head(q), J)
           /\ BytesOf(Head(q), J) \in Nat
<1> DEFINE t == Tail(q)
           x == Head(q)
<1>1. /\ t \in Seq(FifoPacket) /\ Len(t) = Len(q) - 1 /\ x = q[1] /\ x \in FifoPacket
      /\ \A k \in 1..Len(t) : t[k] = q[k + 1]
      /\ Len(q) \in Nat \ {0}
  BY HeadTailProperties, EmptySeq, LenProperties
<1> HIDE DEF t, x
<1>2. /\ DOMAIN q = 1..Len(q) /\ DOMAIN t = 1..Len(t)
      /\ \A k \in 1..Len(q) : SizeOf(q)[k] = q[k].size
      /\ \A k \in 1..Len(t) : SizeOf(t)[k] = t[k].size
      /\ IsFiniteSet(From(q, J)) /\ IsInteger(SizeOf(q), From(q, J))
      /\ IsFiniteSet(From(t, J)) /\ IsInteger(SizeOf(t), From(t, J))
      /\ Held(t, J) \in Int
  BY <1>1, FifoFacts
<1> DEFINE up == {k + 1 : k \in From(t, J)}
<1>3. Sum(SizeOf(q), up) = Held(t, J)
  <2>1. From(t, J) \subseteq Int
        /\ \A k \in From(t, J) : SizeOf(q)[k + 1] = SizeOf(t)[k]
    BY <1>1, <1>2 DEF From
  <2>2. QED
    BY <1>2, <2>1, SumShift DEF Held
<1>4. up = From(q, J) \ {1}
  <2>1. ASSUME NEW k \in From(t, J) PROVE k + 1 \in From(q, J) \ {1}
    BY <1>1, <1>2 DEF From
  <2>2. ASSUME NEW k \in From(q, J) \ {1} PROVE k - 1 \in From(t, J) /\ k = (k - 1) + 1
    BY <1>1, <1>2 DEF From
  <2>3. QED
    BY <2>1, <2>2
<1> HIDE DEF up
<1>5. x.size \in Nat /\ 1 \in 1..Len(q) /\ SizeOf(q)[1] = x.size
  BY <1>1, <1>2, FifoFacts
<1>6. ASSUME x.in \in J PROVE Held(q, J) = Held(t, J) + BytesOf(x, J)
  <2>1. 1 \in From(q, J)
    BY <1>1, <1>2, <1>5, <1>6 DEF From
  <2>2. Sum(SizeOf(q), From(q, J)) = SizeOf(q)[1] + Sum(SizeOf(q), From(q, J) \ {1})
    BY <1>2, <2>1, SumSplit
  <2>3. Held(q, J) = x.size + Held(t, J) /\ BytesOf(x, J) = x.size
    BY <1>3, <1>4, <1>5, <1>6, <2>2 DEF Held, BytesOf
  <2>4. QED
    BY <2>3, <1>2, <1>5
<1>7. ASSUME x.in \notin J PROVE Held(q, J) = Held(t, J) + BytesOf(x, J)
  <2>1. From(q, J) \ {1} = From(q, J)
    BY <1>1, <1>7 DEF From
  <2>2. Held(q, J) = Held(t, J) /\ BytesOf(x, J) = 0
    BY <1>3, <1>4, <1>7, <2>1 DEF Held, BytesOf
  <2>3. QED
    BY <2>2, <1>2
<1>8. BytesOf(x, J) \in Nat
  BY <1>5 DEF BytesOf
<1>9. QED
  BY <1>6, <1>7, <1>8 DEF t, x

(* The counters are the bytes in the queue.                                    *)
BytesOK ==
    /\ \A i \in In : ingress[Class(i)] = Held(fifo, {i})
    /\ egress[Class(Out)] = Held(fifo, In)

(* What the run checks says the same.                                          *)
LEMMA HeldIs ==
    ASSUME NEW q, NEW K, IsFiniteSet(K), K \subseteq DOMAIN q
    PROVE  MapThenSumSet(LAMBDA k : q[k].size, K) = Sum(SizeOf(q), K)
<1> DEFINE G(h) == [s \in SUBSET K |->
                       IF s = {} THEN 0 ELSE q[Some(s)].size + h[s \ {Some(s)}]]
           F(h) == [s \in SUBSET K |->
                       IF s = {} THEN 0 ELSE SizeOf(q)[Some(s)] + h[s \ {Some(s)}]]
<1>1. ASSUME NEW h PROVE G(h) = F(h)
  <2>1. ASSUME NEW s \in SUBSET K, s # {} PROVE SizeOf(q)[Some(s)] = q[Some(s)].size
    BY <2>1 DEF SizeOf, Some
  <2>2. QED
    BY <2>1
<1>2. MapThenSumSet(LAMBDA k : q[k].size, K) = (CHOOSE h : h = G(h))[K]
  BY DEF MapThenSumSet, MapThenFoldSet, Some
<1>3. PICK f : IsSum(f, SizeOf(q), K) /\ Sum(SizeOf(q), K) = f[K]
  BY SumIs
<1>4. f = F(f)
  BY <1>3 DEF IsSum
<1> DEFINE c == CHOOSE h : h = G(h)
<1>5. f = G(f)
  BY <1>1, <1>4
<1>6. c = G(c)
  <2> HIDE DEF G
  <2>1. QED
    BY <1>5
<1>7. c = F(c)
  <2> HIDE DEF c
  <2>1. QED
    BY <1>1, <1>6
<1>8. IsSum(c, SizeOf(q), K)
  <2> HIDE DEF c
  <2>1. QED
    BY <1>7 DEF IsSum
<1>9. c[K] = f[K]
  <2>1. K \in SUBSET K
    OBVIOUS
  <2> HIDE DEF c
  <2>2. QED
    BY <1>3, <1>8, <2>1, SumUnique
<1> HIDE DEF G
<1>10. QED
  BY <1>2, <1>3, <1>9

LEMMA HeldByPort == LinkTypeOK /\ BytesOK => BytesHeld
<1> SUFFICES ASSUME LinkTypeOK, BytesOK PROVE BytesHeld
  OBVIOUS
<1>1. fifo \in Seq(FifoPacket)
  BY DEF LinkTypeOK, FifoPacket
<1>2. ASSUME NEW i \in In
      PROVE  ingress[Class(i)]
               = MapThenSumSet(LAMBDA k : fifo[k].size, {k \in DOMAIN fifo : fifo[k].in = i})
  <2>1. From(fifo, {i}) = {k \in DOMAIN fifo : fifo[k].in = i}
    BY DEF From
  <2>2. IsFiniteSet(From(fifo, {i})) /\ From(fifo, {i}) \subseteq DOMAIN fifo
    BY <1>1, FifoFacts
  <2>3. MapThenSumSet(LAMBDA k : fifo[k].size, From(fifo, {i})) = Held(fifo, {i})
    BY <2>2, HeldIs DEF Held
  <2>4. QED
    BY <2>1, <2>3 DEF BytesOK
<1>3. egress[Class(Out)] = MapThenSumSet(LAMBDA k : fifo[k].size, DOMAIN fifo)
  <2>1. From(fifo, In) = DOMAIN fifo
    BY <1>1, FifoFacts DEF From, FifoPacket
  <2>2. IsFiniteSet(DOMAIN fifo)
    BY <1>1, FifoFacts
  <2>3. MapThenSumSet(LAMBDA k : fifo[k].size, DOMAIN fifo) = Held(fifo, In)
    BY <2>1, <2>2, HeldIs DEF Held
  <2>4. QED
    BY <2>3 DEF BytesOK
<1>4. QED
  BY <1>2, <1>3 DEF BytesHeld

LEMMA InitBytes == Init => BytesOK
<1> SUFFICES ASSUME Init PROVE BytesOK
  OBVIOUS
<1>1. fifo = <<>> /\ \A c \in Mmu!Classes : ingress[c] = 0 /\ egress[c] = 0
  BY DEF Init, Mmu!Init
<1>2. ASSUME NEW J PROVE Held(<<>>, J) = 0
  <2>1. From(<<>>, J) = {}
    BY DEF From
  <2>2. QED
    BY <2>1, SumEmpty DEF Held
<1>3. Class(Out) \in Mmu!Classes
  BY DEF Class, Mmu!Classes
<1>4. QED
  BY <1>1, <1>2, <1>3, Classes DEF BytesOK

(* A packet is admitted and queued: its class and the port count its bytes.    *)
LEMMA ArriveBytes ==
    ASSUME LinkTypeOK, Mmu!TypeOK, BytesOK, NEW i \in In, Arrive(i)
    PROVE  BytesOK'
<1> DEFINE z == Head(wire[i])
           x == [in |-> i, size |-> z]
<1>1. z \in Sizes /\ Mmu!Admit(Class(i), Out, z) /\ Class(i) \in Mmu!Classes
  BY ArriveAdmits
<1>2. /\ fifo \in Seq(FifoPacket) /\ fifo' = Append(fifo, x) /\ x \in FifoPacket
      /\ x.in = i /\ x.size = z
  BY <1>1 DEF Arrive, LinkTypeOK, FifoPacket
<1>3. /\ ingress \in [Mmu!Classes -> Nat] /\ egress \in [Mmu!Classes -> Nat]
      /\ Class(Out) \in Mmu!Classes /\ <<Out, Class(i)[2]>> = Class(Out)
  BY DEF Mmu!TypeOK, Class, Mmu!Classes
<1> HIDE DEF z
<1>4. /\ ingress' = [ingress EXCEPT ![Class(i)] = ingress[Class(i)] + z]
      /\ egress' = [egress EXCEPT ![Class(Out)] = egress[Class(Out)] + z]
  BY <1>1, <1>3 DEF Mmu!Admit
<1> HIDE DEF x
<1>5. ASSUME NEW J PROVE Held(fifo', J) = Held(fifo, J) + BytesOf(x, J)
  BY <1>2, HeldAppend
<1>6. ASSUME NEW j \in In PROVE ingress'[Class(j)] = Held(fifo', {j})
  <2>1. ingress[Class(j)] = Held(fifo, {j}) /\ ingress[Class(j)] \in Nat
    BY <1>3, Classes DEF BytesOK
  <2>2. CASE j = i
    <3>1. BytesOf(x, {j}) = z
      BY <1>2, <2>2 DEF BytesOf
    <3>2. ingress'[Class(j)] = ingress[Class(j)] + z
      BY <1>1, <1>3, <1>4, <2>2
    <3>3. QED
      BY <1>5, <2>1, <3>1, <3>2
  <2>3. CASE j # i
    <3>1. BytesOf(x, {j}) = 0
      BY <1>2, <2>3 DEF BytesOf
    <3>2. Class(j) # Class(i) /\ Class(j) \in Mmu!Classes
      BY <2>3, Classes
    <3>3. ingress'[Class(j)] = ingress[Class(j)]
      BY <1>3, <1>4, <3>2
    <3>4. Held(fifo', {j}) = Held(fifo, {j}) + 0
      BY <1>5, <3>1
    <3>5. QED
      BY <2>1, <3>3, <3>4
  <2>4. QED
    BY <2>2, <2>3
<1>7. egress'[Class(Out)] = Held(fifo', In)
  <2>1. BytesOf(x, In) = z
    BY <1>2 DEF BytesOf
  <2>2. egress'[Class(Out)] = egress[Class(Out)] + z
    BY <1>3, <1>4
  <2>3. QED
    BY <1>5, <2>1, <2>2 DEF BytesOK
<1>8. QED
  BY <1>6, <1>7 DEF BytesOK

(* The first packet leaves: its class and the port release its bytes.          *)
LEMMA DequeueBytes ==
    ASSUME LinkTypeOK, Mmu!TypeOK, BytesOK, Dequeue
    PROVE  BytesOK'
<1> DEFINE x == Head(fifo)
<1>1. PICK i \in In, z \in Sizes :
          i = x.in /\ z = x.size /\ Mmu!Release(Class(i), Out, z)
  BY DequeueReleases
<1>2. /\ fifo \in Seq(FifoPacket) /\ fifo # <<>> /\ fifo' = Tail(fifo)
  BY DEF Dequeue, LinkTypeOK, FifoPacket
<1>3. /\ ingress \in [Mmu!Classes -> Nat] /\ egress \in [Mmu!Classes -> Nat]
      /\ Class(Out) \in Mmu!Classes /\ <<Out, Class(i)[2]>> = Class(Out)
      /\ Class(i) \in Mmu!Classes
  BY Classes DEF Mmu!TypeOK, Class, Mmu!Classes
<1>4. /\ z <= ingress[Class(i)] /\ z <= egress[Class(Out)]
      /\ ingress' = [ingress EXCEPT ![Class(i)] = Mmu!Minus(ingress[Class(i)], z)]
      /\ egress' = [egress EXCEPT ![Class(Out)] = Mmu!Minus(egress[Class(Out)], z)]
  BY <1>1, <1>3 DEF Mmu!Release
<1>5. z \in Nat /\ ingress[Class(i)] \in Nat /\ egress[Class(Out)] \in Nat
  BY <1>3, MmuAssumption
<1>6. /\ Mmu!Minus(ingress[Class(i)], z) = ingress[Class(i)] - z
      /\ Mmu!Minus(egress[Class(Out)], z) = egress[Class(Out)] - z
  BY <1>4, <1>5 DEF Mmu!Minus
<1>7. ASSUME NEW J PROVE /\ Held(fifo, J) = Held(fifo', J) + BytesOf(x, J)
                         /\ Held(fifo', J) \in Int
  <2>1. fifo' \in Seq(FifoPacket)
    BY <1>2, HeadTailProperties
  <2>2. QED
    BY <1>2, <2>1, HeldTail, FifoFacts
<1> HIDE DEF x
<1>8. ASSUME NEW j \in In PROVE ingress'[Class(j)] = Held(fifo', {j})
  <2>1. ingress[Class(j)] = Held(fifo, {j})
    BY DEF BytesOK
  <2>2. CASE j = i
    <3>1. BytesOf(x, {j}) = z
      BY <1>1, <2>2 DEF BytesOf
    <3>2. ingress'[Class(j)] = ingress[Class(j)] - z
      BY <1>3, <1>4, <1>6, <2>2
    <3>3. Held(fifo, {j}) = Held(fifo', {j}) + z /\ Held(fifo', {j}) \in Int
      BY <1>7, <3>1
    <3>4. QED
      BY <1>5, <2>1, <3>2, <3>3
  <2>3. CASE j # i
    <3>1. BytesOf(x, {j}) = 0
      BY <1>1, <2>3 DEF BytesOf
    <3>2. Class(j) # Class(i) /\ Class(j) \in Mmu!Classes
      BY <2>3, Classes
    <3>3. ingress'[Class(j)] = ingress[Class(j)]
      BY <1>3, <1>4, <3>2
    <3>4. Held(fifo, {j}) = Held(fifo', {j}) + 0 /\ Held(fifo', {j}) \in Int
      BY <1>7, <3>1
    <3>5. QED
      BY <2>1, <3>3, <3>4
  <2>4. QED
    BY <2>2, <2>3
<1>9. egress'[Class(Out)] = Held(fifo', In)
  <2>1. BytesOf(x, In) = z
    BY <1>1 DEF BytesOf
  <2>2. egress'[Class(Out)] = egress[Class(Out)] - z
    BY <1>3, <1>4, <1>6
  <2>3. Held(fifo, In) = Held(fifo', In) + z /\ Held(fifo', In) \in Int
    BY <1>7, <2>1
  <2>4. QED
    BY <1>5, <2>2, <2>3 DEF BytesOK
<1>10. QED
  BY <1>8, <1>9 DEF BytesOK

(* The MMU of a switch counts exactly the bytes in its egress queue, by the     *)
(* port they came in through and in all: what is admitted is queued, and what   *)
(* is released is the packet that leaves.                                       *)
THEOREM CountersExact == Spec => []BytesHeld
<1>1. ASSUME LinkTypeOK, Mmu!TypeOK, BytesOK, [Next]_vars PROVE BytesOK'
  <2>1. CASE \E i \in In : Arrive(i)
    BY <1>1, <2>1, ArriveBytes
  <2>2. CASE Dequeue
    BY <1>1, <2>2, DequeueBytes
  <2>3. CASE \/ \E i \in In : \/ \E z \in Sizes : Send(i, z)
                              \/ Drop(i) \/ ReceivePfc(i) \/ PauseExpires(i)
             \/ UNCHANGED vars
    <3>1. fifo' = fifo /\ ingress' = ingress /\ egress' = egress
      BY <2>3 DEF Send, Drop, ReceivePfc, PauseExpires, mmuVars, vars
    <3>2. QED
      BY <1>1, <3>1 DEF BytesOK
  <2>4. QED
    BY <1>1, <2>1, <2>2, <2>3 DEF Next
<1>2. IInv /\ MmuFacts /\ BytesOK /\ [Next]_vars => BytesOK'
  BY <1>1 DEF IInv, MmuFacts
<1>3. IInv /\ MmuFacts /\ BytesOK => BytesHeld
  BY HeldByPort DEF IInv
<1>4. QED
  BY <1>2, <1>3, InitBytes, FitsInvariant, PTL DEF Spec

=============================================================================
