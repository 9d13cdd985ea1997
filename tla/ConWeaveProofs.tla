---------------------------- MODULE ConWeaveProofs ----------------------------
(* ConWeave for any paths, any number of packets and any faults: the variables *)
(* keep their types, the assertions of the code hold, and only the faults that *)
(* the code accepts deliver packets out of order.                              *)
EXTENDS ConWeave, SequenceTheorems, FiniteSetTheorems, TLAPS

(* The packets on a path.                                                      *)
On(p) == ToSet(wire[p])

(* What is on a path left in the order of the numbers.                         *)
Increasing(s) == \A i, j \in DOMAIN s : i < j => s[i].n < s[j].n

TxState == [known : BOOLEAN, expired : BOOLEAN, stabilized : BOOLEAN,
            reply : {"off", "running", "over"},
            epoch : 0..MaxSeq, phase : {0, 1}, path : Paths]
RxState == [epoch : 1..(MaxSeq + 1), phase : {0, 1}, reordering : BOOLEAN]

(* TypeOK, with what bounds the numbers: a packet is on a path, in the VOQ or  *)
(* delivered only if it was sent, and every epoch began with a packet.         *)
TxOK == tx \in TxState /\ tx.epoch <= sent /\ sent \in 0..MaxSeq
WireOK ==
    /\ wire \in [Paths -> Seq(Packet)]
    /\ \A p \in Paths : Increasing(wire[p])
    /\ \A p \in Paths : \A m \in On(p) : m.n <= sent /\ (m.flag # "DATA" => m.phase = 0)
RxOK ==
    /\ rx \in RxState
    /\ voq \in Seq(1..sent) /\ flush \in {"none", "later", "now"}
EndsOK ==
    /\ delivered \subseteq 1..sent /\ lost \subseteq 1..sent
    /\ misordered \in BOOLEAN /\ faults \subseteq Fault
    /\ replies \in Seq(ReplyTag)

Shape == TxOK /\ WireOK /\ RxOK /\ EndsOK

-----------------------------------------------------------------------------
(* Sequences and what they hold.                                               *)

LEMMA SetOf ==
    ASSUME NEW S, NEW s \in Seq(S)
    PROVE  /\ ToSet(s) \subseteq S
           /\ ToSet(s) = {} <=> s = <<>>
           /\ \A i \in DOMAIN s : s[i] \in ToSet(s)
           /\ \A x \in ToSet(s) : \E i \in DOMAIN s : x = s[i]
<1>1. /\ DOMAIN s = 1..Len(s) /\ Len(s) \in Nat
      /\ \A i \in 1..Len(s) : s[i] \in S
      /\ s # <<>> => Len(s) # 0
  BY LenProperties, ElementOfSeq, EmptySeq
<1>2. s = <<>> => ToSet(s) = {}
  <2>1. ASSUME s = <<>> PROVE DOMAIN s = {}
    <3>1. Len(s) = 0
      BY <2>1, EmptySeq
    <3>2. QED
      BY <3>1, <1>1
  <2>2. QED
    BY <2>1 DEF ToSet
<1>3. s # <<>> => s[1] \in ToSet(s)
  BY <1>1 DEF ToSet
<1>4. QED
  BY <1>1, <1>2, <1>3 DEF ToSet

LEMMA SetOfAppend ==
    ASSUME NEW S, NEW s \in Seq(S), NEW e \in S
    PROVE  /\ Append(s, e) \in Seq(S)
           /\ ToSet(Append(s, e)) = ToSet(s) \cup {e}
           /\ Append(s, e) # <<>>
           /\ DOMAIN Append(s, e) = 1..(Len(s) + 1) /\ DOMAIN s = 1..Len(s)
           /\ Len(s) \in Nat
           /\ \A i \in DOMAIN s : Append(s, e)[i] = s[i]
           /\ Append(s, e)[Len(s) + 1] = e
<1> DEFINE t == Append(s, e)
<1>1. /\ t \in Seq(S) /\ Len(t) = Len(s) + 1 /\ Len(s) \in Nat
      /\ \A i \in 1..Len(s) : t[i] = s[i]
      /\ t[Len(s) + 1] = e
  BY AppendProperties, LenProperties
<1>2. DOMAIN t = 1..(Len(s) + 1) /\ DOMAIN s = 1..Len(s)
  BY <1>1, LenProperties
<1> HIDE DEF t
<1>3. t # <<>>
  BY <1>1, EmptySeq
<1>4. ToSet(t) = ToSet(s) \cup {e}
  <2>1. ASSUME NEW x \in ToSet(t) PROVE x \in ToSet(s) \cup {e}
    <3>1. PICK i \in 1..(Len(s) + 1) : x = t[i]
      BY <1>2 DEF ToSet
    <3>2. CASE i \in 1..Len(s)
      BY <3>1, <3>2, <1>1, <1>2 DEF ToSet
    <3>3. CASE i = Len(s) + 1
      BY <3>1, <3>3, <1>1
    <3>4. QED
      BY <3>2, <3>3, <1>1
  <2>2. ASSUME NEW x \in ToSet(s) PROVE x \in ToSet(t)
    <3>1. PICK i \in 1..Len(s) : x = s[i]
      BY <1>2 DEF ToSet
    <3>2. i \in 1..(Len(s) + 1) /\ x = t[i]
      BY <3>1, <1>1
    <3>3. QED
      BY <3>2, <1>2 DEF ToSet
  <2>3. e \in ToSet(t)
    <3>1. Len(s) + 1 \in 1..(Len(s) + 1)
      BY <1>1
    <3>2. QED
      BY <3>1, <1>1, <1>2 DEF ToSet
  <2>4. QED
    BY <2>1, <2>2, <2>3
<1>5. QED
  BY <1>1, <1>2, <1>3, <1>4 DEF t

LEMMA SetOfTail ==
    ASSUME NEW S, NEW s \in Seq(S), s # <<>>
    PROVE  /\ Tail(s) \in Seq(S) /\ Head(s) \in S
           /\ Head(s) \in ToSet(s) /\ Head(s) = s[1]
           /\ ToSet(s) = ToSet(Tail(s)) \cup {Head(s)}
           /\ Len(s) \in Nat \ {0}
           /\ DOMAIN s = 1..Len(s) /\ DOMAIN Tail(s) = 1..(Len(s) - 1)
           /\ \A i \in DOMAIN Tail(s) : Tail(s)[i] = s[i + 1]
<1> DEFINE t == Tail(s)
           h == Head(s)
<1>1. /\ t \in Seq(S) /\ h \in S /\ h = s[1]
      /\ Len(t) = Len(s) - 1 /\ Len(s) \in Nat \ {0}
      /\ \A i \in 1..Len(t) : t[i] = s[i + 1]
  BY HeadTailProperties, EmptySeq
<1>2. DOMAIN t = 1..(Len(s) - 1) /\ DOMAIN s = 1..Len(s)
  BY <1>1, LenProperties
<1> HIDE DEF t, h
<1>3. h \in ToSet(s)
  BY <1>1, <1>2 DEF ToSet
<1>4. ASSUME NEW x \in ToSet(t) PROVE x \in ToSet(s)
  <2>1. PICK i \in 1..(Len(s) - 1) : x = t[i]
    BY <1>2 DEF ToSet
  <2>2. i + 1 \in 1..Len(s) /\ x = s[i + 1]
    BY <2>1, <1>1
  <2>3. QED
    BY <2>2, <1>2 DEF ToSet
<1>5. ASSUME NEW x \in ToSet(s), x # h PROVE x \in ToSet(t)
  <2>1. PICK i \in 1..Len(s) : x = s[i]
    BY <1>2 DEF ToSet
  <2>2. i # 1
    BY <2>1, <1>1, <1>5
  <2>3. i - 1 \in 1..(Len(s) - 1) /\ t[i - 1] = s[i]
    <3>1. i - 1 \in 1..(Len(s) - 1)
      BY <2>2, <1>1
    <3>2. t[i - 1] = s[(i - 1) + 1]
      BY <3>1, <1>1
    <3>3. (i - 1) + 1 = i
      OBVIOUS
    <3>4. QED
      BY <3>1, <3>2, <3>3
  <2>4. QED
    BY <2>1, <2>3, <1>2 DEF ToSet
<1>6. ToSet(s) = ToSet(t) \cup {h}
  BY <1>3, <1>4, <1>5
<1>7. QED
  BY <1>1, <1>2, <1>3, <1>6 DEF t, h

-----------------------------------------------------------------------------
(* What happens on the paths.                                                  *)

LEMMA OnPath ==
    ASSUME WireOK, NEW p \in Paths
    PROVE  /\ On(p) \subseteq Packet
           /\ wire[p] = <<>> <=> On(p) = {}
           /\ \A m \in On(p) : m.n \in 1..MaxSeq /\ m.epoch \in 1..MaxSeq /\ m.phase \in {0, 1}
<1>1. wire[p] \in Seq(Packet)
  BY DEF WireOK
<1>2. On(p) \subseteq Packet /\ (wire[p] = <<>> <=> On(p) = {})
  BY <1>1, SetOf DEF On
<1>3. QED
  BY <1>2 DEF Packet

(* A packet is sent on path p: it is the last one there.                       *)
LEMMA Sent ==
    ASSUME WireOK, sent \in 0..MaxSeq, NEW p \in Paths,
           NEW flag \in {"INIT", "TAIL", "DATA"}, NEW e \in 1..MaxSeq, NEW ph \in {0, 1},
           flag # "DATA" => ph = 0, Forward(p, flag, e, ph)
    PROVE  \E x \in Packet :
               /\ x.n = sent + 1 /\ x.epoch = e /\ x.phase = ph /\ x.flag = flag
               /\ On(p)' = On(p) \cup {x}
               /\ \A q \in Paths : q # p => On(q)' = On(q)
               /\ WireOK'
               /\ sent' = sent + 1 /\ sent' \in 0..MaxSeq
<1> DEFINE x == [n |-> sent + 1, epoch |-> e, phase |-> ph, flag |-> flag]
           w == wire[p]
           r == Append(w, x)
<1>1. /\ sent < MaxSeq /\ sent' = sent + 1
      /\ wire' = [wire EXCEPT ![p] = r]
  BY DEF Forward
<1>2. MaxSeq \in Nat /\ sent + 1 \in 1..MaxSeq /\ sent' \in 0..MaxSeq
  BY <1>1, BoundAssumption
<1>3. x \in Packet
  BY <1>2 DEF Packet
<1>4. x.n = sent + 1 /\ x.epoch = e /\ x.phase = ph /\ x.flag = flag
  OBVIOUS
<1>5. /\ w \in Seq(Packet) /\ Increasing(w)
      /\ \A m \in ToSet(w) : m.n <= sent /\ (m.flag # "DATA" => m.phase = 0)
      /\ \A m \in ToSet(w) : m.n \in 1..MaxSeq
  BY OnPath DEF WireOK, On
<1>6. wire'[p] = r /\ \A q \in Paths : q # p => wire'[q] = wire[q]
  BY <1>1 DEF WireOK
<1> HIDE DEF x, w
<1>7. /\ r \in Seq(Packet) /\ ToSet(r) = ToSet(w) \cup {x}
      /\ DOMAIN r = 1..(Len(w) + 1) /\ DOMAIN w = 1..Len(w) /\ Len(w) \in Nat
      /\ \A i \in DOMAIN w : r[i] = w[i]
      /\ r[Len(w) + 1] = x
  BY <1>3, <1>5, SetOfAppend
<1>8. wire' \in [Paths -> Seq(Packet)]
  <2> HIDE DEF r
  <2>1. QED
    BY <1>1, <1>7 DEF WireOK
<1> HIDE DEF r
<1>9. Increasing(r)
  <2> SUFFICES ASSUME NEW i \in DOMAIN r, NEW j \in DOMAIN r, i < j
               PROVE  r[i].n < r[j].n
    BY DEF Increasing
  <2>1. i \in 1..Len(w) /\ i \in DOMAIN w /\ r[i] = w[i]
    BY <1>7
  <2>2. w[i] \in ToSet(w)
    BY <2>1, <1>5, SetOf
  <2>3. CASE j \in 1..Len(w)
    <3>1. r[j] = w[j] /\ j \in DOMAIN w
      BY <2>3, <1>7
    <3>2. QED
      BY <2>1, <3>1, <1>5 DEF Increasing
  <2>4. CASE j = Len(w) + 1
    <3>1. r[j].n = sent + 1
      BY <2>4, <1>7, <1>4
    <3>2. r[i].n <= sent /\ r[i].n \in 1..MaxSeq
      BY <2>1, <2>2, <1>5
    <3>3. QED
      BY <3>1, <3>2, <1>2
  <2>5. QED
    BY <2>3, <2>4, <1>7
<1>10. On(p)' = On(p) \cup {x} /\ \A q \in Paths : q # p => On(q)' = On(q)
  BY <1>6, <1>7 DEF On, w
<1>11. ASSUME NEW q \in Paths PROVE Increasing(wire'[q])
  BY <1>6, <1>9 DEF WireOK
<1>12. ASSUME NEW q \in Paths, NEW m \in On(q)'
       PROVE  m.n <= sent' /\ (m.flag # "DATA" => m.phase = 0)
  <2>1. CASE m = x
    BY <2>1, <1>1, <1>2, <1>4
  <2>2. CASE m \in On(q)
    <3>1. m.n <= sent /\ (m.flag # "DATA" => m.phase = 0) /\ m.n \in 1..MaxSeq
      BY <2>2, OnPath DEF WireOK
    <3>2. QED
      BY <3>1, <1>1, <1>2
  <2>3. QED
    BY <2>1, <2>2, <1>10, <1>12
<1>13. WireOK'
  BY <1>8, <1>11, <1>12 DEF WireOK
<1>14. QED
  BY <1>1, <1>2, <1>3, <1>4, <1>10, <1>13

(* The first packet of path p leaves it: the others there come after it.       *)
LEMMA Taken ==
    ASSUME WireOK, NEW p \in Paths, wire[p] # <<>>, sent' = sent,
           wire' = [wire EXCEPT ![p] = Tail(wire[p])]
    PROVE  /\ Head(wire[p]) \in On(p) /\ Head(wire[p]) \in Packet
           /\ On(p) = On(p)' \cup {Head(wire[p])}
           /\ \A x \in On(p)' : Head(wire[p]).n < x.n
           /\ \A q \in Paths : q # p => On(q)' = On(q)
           /\ \A q \in Paths : On(q)' \subseteq On(q)
           /\ WireOK'
<1> DEFINE w == wire[p]
           t == Tail(w)
           h == Head(w)
<1>1. w \in Seq(Packet) /\ w # <<>> /\ Increasing(w)
  BY DEF WireOK
<1>2. wire'[p] = t /\ \A q \in Paths : q # p => wire'[q] = wire[q]
  BY DEF WireOK
<1>3. wire' = [wire EXCEPT ![p] = t]
  OBVIOUS
<1> HIDE DEF w
<1>4. /\ t \in Seq(Packet) /\ h \in Packet /\ h \in ToSet(w) /\ h = w[1]
      /\ ToSet(w) = ToSet(t) \cup {h}
      /\ Len(w) \in Nat \ {0}
      /\ DOMAIN w = 1..Len(w) /\ DOMAIN t = 1..(Len(w) - 1)
      /\ \A i \in DOMAIN t : t[i] = w[i + 1]
  BY <1>1, SetOfTail
<1> HIDE DEF t, h
<1>5. On(p)' = ToSet(t) /\ On(p) = ToSet(w) /\ \A q \in Paths : q # p => On(q)' = On(q)
  BY <1>2 DEF On, w
<1>6. Increasing(t)
  <2> SUFFICES ASSUME NEW i \in DOMAIN t, NEW j \in DOMAIN t, i < j
               PROVE  t[i].n < t[j].n
    BY DEF Increasing
  <2>1. i + 1 \in DOMAIN w /\ j + 1 \in DOMAIN w /\ i + 1 < j + 1
    BY <1>4
  <2>2. QED
    BY <2>1, <1>1, <1>4 DEF Increasing
<1>7. ASSUME NEW x \in ToSet(t) PROVE h.n < x.n
  <2>1. PICK i \in DOMAIN t : x = t[i]
    BY <1>4, SetOf
  <2>2. i + 1 \in DOMAIN w /\ 1 \in DOMAIN w /\ 1 < i + 1
    BY <1>4
  <2>3. QED
    BY <2>1, <2>2, <1>1, <1>4 DEF Increasing
<1>8. wire' \in [Paths -> Seq(Packet)]
  BY <1>3, <1>4 DEF WireOK
<1>9. \A q \in Paths : On(q)' \subseteq On(q)
  BY <1>4, <1>5
<1>10. \A q \in Paths : Increasing(wire'[q])
  BY <1>2, <1>6 DEF WireOK
<1>11. \A q \in Paths : \A m \in On(q)' : m.n <= sent' /\ (m.flag # "DATA" => m.phase = 0)
  BY <1>9 DEF WireOK
<1>12. WireOK'
  BY <1>8, <1>10, <1>11 DEF WireOK
<1>13. QED
  BY <1>4, <1>5, <1>7, <1>9, <1>12 DEF h, w

(* Nothing moves.                                                              *)
LEMMA SameWire ==
    ASSUME WireOK, wire' = wire, sent' = sent
    PROVE  WireOK' /\ \A q \in Paths : On(q)' = On(q)
BY DEF WireOK, On

-----------------------------------------------------------------------------
(* Types: one lemma per kind of event.                                         *)

LEMMA MoreNumbers ==
    ASSUME RxOK, EndsOK, sent \in Nat, sent' = sent + 1, UNCHANGED <<rx, voq, flush>>,
           UNCHANGED <<replies, delivered, misordered, lost>>, faults' \subseteq Fault
    PROVE  RxOK' /\ EndsOK'
<1>1. 1..sent \subseteq 1..sent'
  OBVIOUS
<1>2. voq' \in Seq(1..sent')
  BY <1>1, SeqMonotonic DEF RxOK
<1>3. QED
  BY <1>1, <1>2 DEF RxOK, EndsOK

(* The sending switch forwards a packet.                                       *)
LEMMA SendShape ==
    ASSUME Shape, NEW p \in Paths,
           NEW flag \in {"INIT", "TAIL", "DATA"}, NEW e \in 1..MaxSeq, NEW ph \in {0, 1},
           flag # "DATA" => ph = 0, Forward(p, flag, e, ph),
           tx' \in TxState, tx'.epoch <= sent + 1, faults' \subseteq Fault
    PROVE  Shape'
<1>1. WireOK /\ RxOK /\ EndsOK /\ sent \in 0..MaxSeq
  BY DEF Shape, TxOK
<1>2. WireOK' /\ sent' = sent + 1 /\ sent' \in 0..MaxSeq
  BY <1>1, Sent
<1>3. sent \in Nat
  BY <1>1, BoundAssumption
<1>4. UNCHANGED <<rx, voq, flush>> /\ UNCHANGED <<replies, delivered, misordered, lost>>
  BY DEF Forward, rxVars, endVars
<1>5. RxOK' /\ EndsOK'
  BY <1>1, <1>2, <1>3, <1>4, MoreNumbers
<1>6. TxOK'
  BY <1>2 DEF TxOK
<1>7. QED
  BY <1>2, <1>5, <1>6 DEF Shape

(* Only the state of the sending switch, or replies, change.                   *)
LEMMA TxShape ==
    ASSUME Shape, tx' \in TxState, tx'.epoch <= sent,
           UNCHANGED <<rxVars, sent, wire, endVars, lost, faults>>,
           replies' \in Seq(ReplyTag)
    PROVE  Shape'
<1>1. WireOK' /\ RxOK' /\ EndsOK' /\ TxOK'
  BY SameWire DEF Shape, TxOK, RxOK, EndsOK, rxVars, endVars
<1>2. QED
  BY <1>1 DEF Shape

LEMMA NextEpoch ==
    ASSUME TxOK, sent < MaxSeq
    PROVE  /\ tx.epoch \in Nat /\ sent \in Nat
           /\ tx.epoch + 1 \in 1..MaxSeq /\ tx.epoch + 1 <= sent + 1
<1>1. tx.epoch \in 0..MaxSeq /\ tx.epoch <= sent /\ sent \in 0..MaxSeq /\ MaxSeq \in Nat
  BY BoundAssumption DEF TxOK, TxState
<1>2. QED
  BY <1>1

LEMMA TxFields ==
    ASSUME TxOK
    PROVE  /\ tx \in TxState /\ tx.path \in Paths /\ tx.phase \in {0, 1}
           /\ tx.epoch \in Nat /\ tx.epoch \in 0..MaxSeq /\ sent \in Nat /\ tx.epoch <= sent
           /\ tx.known \in BOOLEAN /\ tx.expired \in BOOLEAN /\ tx.stabilized \in BOOLEAN
           /\ tx.reply \in {"off", "running", "over"}
BY BoundAssumption DEF TxOK, TxState

LEMMA SendExpiredShape ==
    ASSUME Shape, NEW p \in Paths, SendExpired(p)
    PROVE  Shape'
<1>1. TxOK /\ EndsOK /\ Forward(p, "INIT", tx.epoch + 1, 0) /\ sent < MaxSeq
  BY DEF Shape, SendExpired, Forward
<1>2. tx.epoch + 1 \in 1..MaxSeq /\ tx.epoch + 1 <= sent + 1
  BY <1>1, NextEpoch
<1>3. tx' = [known |-> TRUE, expired |-> FALSE, stabilized |-> FALSE,
             reply |-> "running", epoch |-> tx.epoch + 1, phase |-> 0, path |-> p]
  BY DEF SendExpired
<1>4. tx' \in TxState /\ tx'.epoch <= sent + 1
  BY <1>2, <1>3 DEF TxState
<1>5. faults' \subseteq Fault
  BY <1>1 DEF SendExpired, Blame, EndsOK, Fault
<1>6. QED
  BY <1>1, <1>2, <1>4, <1>5, SendShape

LEMMA SendStabilizedShape ==
    ASSUME Shape, SendStabilized
    PROVE  Shape'
<1>1. TxOK /\ EndsOK /\ Forward(tx.path, "INIT", tx.epoch + 1, 0) /\ sent < MaxSeq
  BY DEF Shape, SendStabilized, Forward
<1>2. tx.epoch + 1 \in 1..MaxSeq /\ tx.epoch + 1 <= sent + 1 /\ tx.epoch + 1 \in 0..MaxSeq
  BY <1>1, NextEpoch, BoundAssumption
<1>3. tx' = [tx EXCEPT !.stabilized = FALSE, !.reply = "running",
                       !.epoch = tx.epoch + 1, !.phase = 0]
  BY DEF SendStabilized
<1>4. tx' \in TxState /\ tx'.epoch = tx.epoch + 1 /\ tx.path \in Paths
  BY <1>1, <1>2, <1>3, TxFields DEF TxState
<1>5. faults' \subseteq Fault
  BY <1>1 DEF SendStabilized, EndsOK
<1>6. QED
  BY <1>1, <1>2, <1>4, <1>5, SendShape

(* A packet of an epoch that began.                                            *)
LEMMA ThisEpoch ==
    ASSUME TxOK, tx.epoch # 0
    PROVE  tx.epoch \in 1..MaxSeq
BY TxFields, BoundAssumption

-----------------------------------------------------------------------------
(* An entry that is not expired is one of an epoch that began.                 *)
Begun == ~tx.expired => tx.known /\ tx.epoch # 0

(* The assertions that hold whatever happens.                                  *)
Asserted ==
    /\ rx.reordering = (flush # "none")
    /\ rx.reordering = (voq # <<>>)
    /\ tx.phase = 1 => tx.reply = "off"

Sound == Shape /\ Begun /\ Asserted

LEMMA SendSound ==
    ASSUME Sound, Shape', UNCHANGED rxVars, tx'.known, tx'.epoch # 0,
           tx'.phase = 1 => tx'.reply = "off"
    PROVE  Sound'
BY DEF Sound, Begun, Asserted, rxVars

LEMMA SendTailSound ==
    ASSUME Sound, NEW p \in Paths, SendTail(p)
    PROVE  Sound'
<1>1. /\ Shape /\ TxOK /\ EndsOK /\ ~tx.expired /\ tx.known /\ tx.epoch # 0
      /\ Forward(tx.path, "TAIL", tx.epoch, 0)
      /\ tx' = [tx EXCEPT !.reply = "off", !.phase = 1, !.path = p]
      /\ faults' = faults /\ UNCHANGED rxVars
  BY DEF Sound, Shape, SendTail, Begun, Forward
<1>2. /\ tx' \in TxState /\ tx'.epoch = tx.epoch /\ tx'.known /\ tx'.reply = "off"
      /\ tx.path \in Paths /\ tx.epoch \in 1..MaxSeq /\ tx.epoch <= sent + 1
  <2>1. tx \in TxState /\ tx.path \in Paths /\ tx.epoch \in 1..MaxSeq /\ tx.epoch <= sent + 1
    BY <1>1, TxFields, ThisEpoch
  <2>2. tx' \in TxState /\ tx'.epoch = tx.epoch /\ tx'.known /\ tx'.reply = "off"
    BY <1>1, <2>1 DEF TxState
  <2>3. QED
    BY <2>1, <2>2
<1>3. Shape'
  BY <1>1, <1>2, SendShape DEF EndsOK
<1>4. QED
  BY <1>1, <1>2, <1>3, SendSound

LEMMA SendDataSound ==
    ASSUME Sound, SendData
    PROVE  Sound'
<1>1. /\ Shape /\ TxOK /\ EndsOK /\ ~tx.expired /\ tx.known /\ tx.epoch # 0
      /\ Forward(tx.path, "DATA", tx.epoch, tx.phase)
      /\ tx' = tx /\ faults' = faults /\ UNCHANGED rxVars
      /\ tx.phase = 1 => tx.reply = "off"
  BY DEF Sound, Shape, SendData, Begun, Forward, Asserted
<1>2. /\ tx' \in TxState
      /\ tx.path \in Paths /\ tx.epoch \in 1..MaxSeq /\ tx.epoch <= sent + 1
      /\ tx.phase \in {0, 1}
  BY <1>1, TxFields, ThisEpoch
<1>3. Shape'
  BY <1>1, <1>2, SendShape DEF EndsOK
<1>4. QED
  BY <1>1, <1>2, <1>3, SendSound

LEMMA SendExpiredSound ==
    ASSUME Sound, NEW p \in Paths, SendExpired(p)
    PROVE  Sound'
<1>1. /\ Shape /\ TxOK /\ UNCHANGED rxVars
      /\ tx' = [known |-> TRUE, expired |-> FALSE, stabilized |-> FALSE,
                reply |-> "running", epoch |-> tx.epoch + 1, phase |-> 0, path |-> p]
  BY DEF Sound, Shape, SendExpired, Forward
<1>2. tx'.known /\ tx'.phase = 0 /\ tx'.epoch # 0
  BY <1>1, TxFields
<1>3. QED
  BY <1>1, <1>2, SendExpiredShape, SendSound

LEMMA SendStabilizedSound ==
    ASSUME Sound, SendStabilized
    PROVE  Sound'
<1>1. /\ Shape /\ TxOK /\ UNCHANGED rxVars /\ tx.known
      /\ tx' = [tx EXCEPT !.stabilized = FALSE, !.reply = "running",
                          !.epoch = tx.epoch + 1, !.phase = 0]
  BY DEF Sound, Shape, SendStabilized, Forward, Begun
<1>2. tx'.known /\ tx'.phase = 0 /\ tx'.epoch # 0
  BY <1>1, TxFields DEF TxState
<1>3. QED
  BY <1>1, <1>2, SendStabilizedShape, SendSound

LEMMA PauseSound ==
    ASSUME Sound, Pause
    PROVE  Sound'
<1>1. /\ Shape /\ TxOK /\ EndsOK /\ Asserted /\ tx' = [tx EXCEPT !.expired = TRUE]
      /\ UNCHANGED <<rxVars, sent, wire, endVars, lost, faults>> /\ replies' = replies
  BY DEF Sound, Shape, Pause
<1>2. /\ tx' \in TxState /\ tx'.epoch <= sent /\ tx'.expired
      /\ tx'.phase = tx.phase /\ tx'.reply = tx.reply
  BY <1>1, TxFields DEF TxState
<1>3. Shape'
  BY <1>1, <1>2, TxShape DEF EndsOK
<1>4. QED
  BY <1>1, <1>2, <1>3 DEF Sound, Begun, Asserted, rxVars

LEMMA ReplyDeadlineSound ==
    ASSUME Sound, ReplyDeadline
    PROVE  Sound'
<1>1. /\ Shape /\ TxOK /\ EndsOK /\ Asserted /\ Begun /\ tx' = [tx EXCEPT !.reply = "over"]
      /\ tx.reply = "running"
      /\ UNCHANGED <<rxVars, sent, wire, endVars, lost, faults>> /\ replies' = replies
  BY DEF Sound, Shape, ReplyDeadline
<1>2. /\ tx' \in TxState /\ tx'.epoch <= sent /\ tx'.epoch = tx.epoch
      /\ tx'.phase = tx.phase /\ tx'.expired = tx.expired /\ tx'.known = tx.known
  BY <1>1, TxFields DEF TxState
<1>3. Shape'
  BY <1>1, <1>2, TxShape DEF EndsOK
<1>4. tx.phase # 1
  BY <1>1 DEF Asserted
<1>5. QED
  BY <1>1, <1>2, <1>3, <1>4 DEF Sound, Begun, Asserted, rxVars

(* A reply is a duplicate, late, or stabilizes its epoch.                      *)
LEMMA ReplyEffect ==
    ASSUME Sound, ReceiveReply
    PROVE  /\ replies \in Seq(ReplyTag) /\ replies # <<>>
           /\ \/ tx' = tx
              \/ /\ Head(replies).epoch = tx.epoch
                 /\ tx.phase = (IF Head(replies).flag = "TAIL" THEN 1 ELSE 0)
                 /\ tx' \in TxState
                 /\ tx'.stabilized /\ tx'.reply = "off"
                 /\ tx'.known = tx.known /\ tx'.expired = tx.expired
                 /\ tx'.epoch = tx.epoch /\ tx'.phase = tx.phase /\ tx'.path = tx.path
<1>1. replies \in Seq(ReplyTag) /\ replies # <<>> /\ TxOK
  BY DEF Sound, Shape, EndsOK, ReceiveReply
<1> DEFINE m == Head(replies)
<1>2. CASE tx' = tx
  BY <1>1, <1>2
<1>3. CASE tx' # tx
  <2>1. /\ m.epoch = tx.epoch /\ tx.phase = (IF m.flag = "TAIL" THEN 1 ELSE 0)
        /\ tx' = [tx EXCEPT !.stabilized = TRUE, !.reply = "off"]
    BY <1>3 DEF ReceiveReply
  <2> HIDE DEF m
  <2>2. /\ tx' \in TxState
        /\ tx'.stabilized /\ tx'.reply = "off"
        /\ tx'.known = tx.known /\ tx'.expired = tx.expired
        /\ tx'.epoch = tx.epoch /\ tx'.phase = tx.phase /\ tx'.path = tx.path
    BY <2>1, <1>1, TxFields DEF TxState
  <2>3. QED
    BY <2>1, <2>2, <1>1 DEF m
<1>4. QED
  BY <1>2, <1>3

LEMMA ReceiveReplySound ==
    ASSUME Sound, ReceiveReply
    PROVE  Sound'
<1>1. /\ Shape /\ TxOK /\ Asserted /\ Begun
      /\ UNCHANGED <<rxVars, sent, wire, endVars, lost, faults>>
      /\ replies' = Tail(replies)
  BY DEF Sound, Shape, ReceiveReply
<1>2. /\ tx' \in TxState /\ tx'.epoch = tx.epoch /\ tx'.phase = tx.phase
      /\ tx'.expired = tx.expired /\ tx'.known = tx.known
      /\ tx'.reply = tx.reply \/ tx'.reply = "off"
  BY <1>1, ReplyEffect, TxFields
<1>3. replies' \in Seq(ReplyTag)
  BY <1>1, ReplyEffect, HeadTailProperties
<1>4. Shape'
  BY <1>1, <1>2, <1>3, TxShape, TxFields
<1>5. QED
  BY <1>1, <1>2, <1>4 DEF Sound, Begun, Asserted, rxVars

LEMMA NewTxType == NewTx \in TxState /\ NewTx.epoch = 0 /\ NewTx.phase = 0 /\ NewTx.expired
<1>1. (CHOOSE p \in Paths : TRUE) \in Paths
  BY PathsAssumption
<1>2. QED
  BY <1>1, BoundAssumption DEF NewTx, TxState

LEMMA AgeTxSound ==
    ASSUME Sound, AgeTx
    PROVE  Sound'
<1>1. /\ Shape /\ TxOK /\ EndsOK /\ Asserted /\ tx' = NewTx /\ replies' = replies
      /\ UNCHANGED <<rxVars, sent, wire, endVars, lost, faults>>
  BY DEF Sound, Shape, AgeTx
<1>2. Shape'
  BY <1>1, NewTxType, TxShape, TxFields DEF EndsOK
<1>3. QED
  BY <1>1, <1>2, NewTxType DEF Sound, Begun, Asserted, rxVars

-----------------------------------------------------------------------------
(* What the receiving switch does with a packet.                               *)

LEMMA DeliverOne ==
    ASSUME EndsOK, sent' = sent, NEW v \in 1..sent, Deliver(<<v>>)
    PROVE  /\ delivered' = delivered \cup {v} /\ delivered' \subseteq 1..sent
           /\ misordered' \in BOOLEAN
           /\ misordered' => misordered \/ \E d \in delivered : d > v
<1> DEFINE ns == <<v>>
<1>1. DOMAIN ns = {1} /\ ns[1] = v
  OBVIOUS
<1>2. ToSet(ns) = {v}
  BY <1>1 DEF ToSet
<1>3. /\ delivered' = delivered \cup ToSet(ns)
      /\ misordered' = (\/ misordered
                        \/ \E i \in DOMAIN ns :
                              \/ \E d \in delivered : d > ns[i]
                              \/ \E j \in 1..(i - 1) : ns[j] > ns[i])
  BY DEF Deliver
<1> HIDE DEF ns
<1>4. misordered' = (misordered \/ \E d \in delivered : d > v)
  <2>1. \A j : j \notin 1..(1 - 1)
    OBVIOUS
  <2>2. (\E i \in DOMAIN ns :
            \/ \E d \in delivered : d > ns[i]
            \/ \E j \in 1..(i - 1) : ns[j] > ns[i])
        <=> \E d \in delivered : d > v
    BY <1>1, <2>1
  <2>3. QED
    BY <1>3, <2>2
<1>5. misordered \in BOOLEAN /\ delivered \subseteq 1..sent
  BY DEF EndsOK
<1>6. misordered' \in BOOLEAN
  BY <1>4, <1>5
<1>7. delivered' = delivered \cup {v} /\ delivered' \subseteq 1..sent
  BY <1>2, <1>3, <1>5
<1>8. QED
  BY <1>4, <1>6, <1>7

LEMMA DeliverAll ==
    ASSUME EndsOK, voq \in Seq(1..sent), Deliver(voq)
    PROVE  /\ delivered' = delivered \cup ToSet(voq) /\ delivered' \subseteq 1..sent
           /\ misordered' \in BOOLEAN
           /\ misordered' => \/ misordered
                             \/ \E i \in DOMAIN voq : \E d \in delivered : d > voq[i]
                             \/ \E i \in DOMAIN voq : \E j \in 1..(i - 1) : voq[j] > voq[i]
<1>1. ToSet(voq) \subseteq 1..sent
  BY SetOf
<1>2. delivered' = delivered \cup ToSet(voq)
  BY DEF Deliver
<1>3. misordered' = (\/ misordered
                     \/ \E i \in DOMAIN voq :
                           \/ \E d \in delivered : d > voq[i]
                           \/ \E j \in 1..(i - 1) : voq[j] > voq[i])
  BY DEF Deliver
<1>4. QED
  BY <1>1, <1>2, <1>3 DEF EndsOK

(* The packet that arrives is the first of its path, and leaves it.            *)
LEMMA TakeEffect ==
    ASSUME Sound, NEW p \in Paths, Take(p)
    PROVE  /\ wire[p] # <<>>
           /\ Head(wire[p]) \in On(p) /\ Head(wire[p]) \in Packet
           /\ Head(wire[p]).n \in 1..sent
           /\ Head(wire[p]).epoch \in 1..MaxSeq /\ Head(wire[p]).phase \in {0, 1}
           /\ On(p) = On(p)' \cup {Head(wire[p])}
           /\ \A x \in On(p)' : Head(wire[p]).n < x.n
           /\ \A q \in Paths : q # p => On(q)' = On(q)
           /\ \A q \in Paths : On(q)' \subseteq On(q)
           /\ WireOK' /\ TxOK'
           /\ tx' = tx /\ sent' = sent /\ lost' = lost /\ faults' = faults
<1>1. /\ WireOK /\ TxOK /\ wire[p] # <<>>
      /\ wire' = [wire EXCEPT ![p] = Tail(wire[p])]
      /\ tx' = tx /\ sent' = sent /\ lost' = lost /\ faults' = faults
  BY DEF Sound, Shape, Take
<1> DEFINE h == Head(wire[p])
<1>2. /\ h \in On(p) /\ h \in Packet
      /\ On(p) = On(p)' \cup {h}
      /\ \A x \in On(p)' : h.n < x.n
      /\ \A q \in Paths : q # p => On(q)' = On(q)
      /\ \A q \in Paths : On(q)' \subseteq On(q)
      /\ WireOK'
  BY <1>1, Taken
<1> HIDE DEF h
<1>3. h.n <= sent
  BY <1>1, <1>2 DEF WireOK
<1>4. h.n \in 1..MaxSeq /\ h.epoch \in 1..MaxSeq /\ h.phase \in {0, 1} /\ sent \in Nat
  BY <1>1, <1>2, OnPath, TxFields
<1>5. h.n \in 1..sent
  BY <1>3, <1>4, BoundAssumption
<1>6. TxOK'
  BY <1>1 DEF TxOK
<1>7. QED
  BY <1>1, <1>2, <1>4, <1>5, <1>6 DEF h

LEMMA RxFields ==
    ASSUME RxOK
    PROVE  /\ rx.epoch \in Nat \ {0} /\ rx.phase \in {0, 1} /\ rx.reordering \in BOOLEAN
           /\ voq \in Seq(1..sent) /\ flush \in {"none", "later", "now"}
BY BoundAssumption DEF RxOK, RxState

LEMMA ArriveOldSound ==
    ASSUME Sound, NEW p \in Paths, ArriveOld(p)
    PROVE  Sound'
<1>1. /\ Shape /\ EndsOK /\ RxOK /\ Take(p) /\ UNCHANGED <<rxVars, replies>>
      /\ Deliver(<<Head(wire[p]).n>>)
  BY DEF Sound, Shape, ArriveOld
<1>2. /\ Head(wire[p]).n \in 1..sent /\ WireOK' /\ TxOK'
      /\ tx' = tx /\ sent' = sent /\ lost' = lost /\ faults' = faults
  BY <1>1, TakeEffect
<1>3. delivered' \subseteq 1..sent /\ misordered' \in BOOLEAN
  BY <1>1, <1>2, DeliverOne
<1>4. Shape'
  BY <1>1, <1>2, <1>3 DEF Shape, EndsOK, RxOK, rxVars
<1>5. QED
  BY <1>1, <1>2, <1>4 DEF Sound, Begun, Asserted, rxVars

Ahead(m) == m.phase > PhaseAfter(m)

(* A packet of this epoch or a new one goes into the VOQ or to the receiver.    *)
LEMMA ArriveEffect ==
    ASSUME Sound, NEW p \in Paths, Arrive(p)
    PROVE  LET m == Head(wire[p]) IN
           /\ Take(p) /\ m.epoch >= rx.epoch
           /\ PhaseAfter(m) \in {0, 1}
           /\ rx' \in RxState /\ rx'.epoch = m.epoch /\ rx'.phase = PhaseAfter(m)
           /\ rx'.reordering = (rx.reordering \/ Ahead(m))
           /\ \/ /\ Ahead(m) /\ voq' = Append(voq, m.n) /\ UNCHANGED endVars
              \/ /\ ~Ahead(m) /\ voq' = voq /\ Deliver(<<m.n>>)
           /\ flush' = IF rx.reordering /\ m.phase = 0
                       THEN (IF m.flag = "TAIL" THEN "now" ELSE "later")
                       ELSE IF Ahead(m) /\ ~rx.reordering THEN "later"
                       ELSE flush
           /\ replies' = IF m.flag = "DATA" THEN replies
                         ELSE Append(replies, [flag |-> m.flag, epoch |-> m.epoch])
<1> DEFINE m == Head(wire[p])
<1>1. /\ Take(p) /\ m.epoch >= rx.epoch
      /\ rx' = [epoch |-> m.epoch, phase |-> PhaseAfter(m),
                reordering |-> rx.reordering \/ Ahead(m)]
      /\ flush' = IF rx.reordering /\ m.phase = 0
                  THEN (IF m.flag = "TAIL" THEN "now" ELSE "later")
                  ELSE IF Ahead(m) /\ ~rx.reordering THEN "later"
                  ELSE flush
      /\ IF Ahead(m)
         THEN voq' = Append(voq, m.n) /\ UNCHANGED endVars
         ELSE Deliver(<<m.n>>) /\ UNCHANGED voq
      /\ replies' = IF m.flag = "DATA" THEN replies
                    ELSE Append(replies, [flag |-> m.flag, epoch |-> m.epoch])
  BY DEF Arrive, Ahead
<1>2. m.epoch \in 1..MaxSeq
  BY <1>1, TakeEffect
<1>3. rx.phase \in {0, 1} /\ rx.reordering \in BOOLEAN
  BY RxFields DEF Sound, Shape
<1> HIDE DEF m
<1>4. PhaseAfter(m) \in {0, 1}
  BY <1>3 DEF PhaseAfter
<1>5. (rx.reordering \/ Ahead(m)) \in BOOLEAN
  BY <1>3
<1>6. rx' \in RxState /\ rx'.epoch = m.epoch /\ rx'.phase = PhaseAfter(m)
      /\ rx'.reordering = (rx.reordering \/ Ahead(m))
  BY <1>1, <1>2, <1>4, <1>5, BoundAssumption DEF RxState
<1>7. QED
  BY <1>1, <1>4, <1>6 DEF m

LEMMA ArriveSound ==
    ASSUME Sound, NEW p \in Paths, Arrive(p)
    PROVE  Sound'
<1> DEFINE m == Head(wire[p])
<1>1. Shape /\ EndsOK /\ RxOK /\ Asserted /\ Begun /\ Take(p)
  BY ArriveEffect DEF Sound, Shape
<1>2. /\ m \in Packet /\ m.n \in 1..sent /\ WireOK' /\ TxOK'
      /\ tx' = tx /\ sent' = sent /\ lost' = lost /\ faults' = faults
  BY <1>1, TakeEffect
<1>3. /\ rx' \in RxState /\ rx'.reordering = (rx.reordering \/ Ahead(m))
      /\ \/ /\ Ahead(m) /\ voq' = Append(voq, m.n) /\ UNCHANGED endVars
         \/ /\ ~Ahead(m) /\ voq' = voq /\ Deliver(<<m.n>>)
      /\ flush' = IF rx.reordering /\ m.phase = 0
                  THEN (IF m.flag = "TAIL" THEN "now" ELSE "later")
                  ELSE IF Ahead(m) /\ ~rx.reordering THEN "later"
                  ELSE flush
      /\ replies' = IF m.flag = "DATA" THEN replies
                    ELSE Append(replies, [flag |-> m.flag, epoch |-> m.epoch])
  BY ArriveEffect
<1>4. /\ voq \in Seq(1..sent) /\ flush \in {"none", "later", "now"} /\ rx.reordering \in BOOLEAN
      /\ replies \in Seq(ReplyTag)
  BY <1>1, RxFields DEF EndsOK
<1> HIDE DEF m
<1>5. voq' \in Seq(1..sent) /\ (voq' # <<>> <=> voq # <<>> \/ Ahead(m))
  <2>1. Append(voq, m.n) \in Seq(1..sent) /\ Append(voq, m.n) # <<>>
    BY <1>2, <1>4, SetOfAppend
  <2>2. QED
    BY <2>1, <1>3, <1>4
<1>6. flush' \in {"none", "later", "now"} /\ (flush' # "none" <=> rx.reordering \/ Ahead(m))
  BY <1>1, <1>3, <1>4 DEF Asserted
<1>7. delivered' \subseteq 1..sent /\ misordered' \in BOOLEAN
  <2>1. CASE UNCHANGED endVars
    BY <2>1, <1>1 DEF EndsOK, endVars
  <2>2. CASE Deliver(<<m.n>>)
    BY <2>2, <1>1, <1>2, DeliverOne
  <2>3. QED
    BY <2>1, <2>2, <1>3
<1>8. replies' \in Seq(ReplyTag)
  <2>1. CASE m.flag = "DATA"
    BY <2>1, <1>3, <1>4
  <2>2. CASE m.flag # "DATA"
    <3>1. [flag |-> m.flag, epoch |-> m.epoch] \in ReplyTag
      BY <2>2, <1>2 DEF Packet, ReplyTag
    <3>2. QED
      BY <3>1, <2>2, <1>3, <1>4, AppendProperties
  <2>3. QED
    BY <2>1, <2>2
<1>9. RxOK' /\ EndsOK'
  BY <1>1, <1>2, <1>3, <1>5, <1>6, <1>7, <1>8 DEF RxOK, EndsOK
<1>10. Shape'
  BY <1>2, <1>9 DEF Shape
<1>11. Asserted'
  BY <1>1, <1>2, <1>3, <1>5, <1>6 DEF Asserted
<1>12. QED
  BY <1>1, <1>2, <1>10, <1>11 DEF Sound, Begun

LEMMA FlushEffect ==
    ASSUME Sound, FlushVOQ
    PROVE  /\ flush # "none" /\ voq # <<>> /\ rx.reordering
           /\ faults' = faults \cup {k \in {"flush"} : flush = "later" /\
                            \E m \in OnWire : \E n \in ToSet(voq) : m.n < n}
           /\ rx' \in RxState /\ rx'.epoch = rx.epoch /\ rx'.phase = 1 /\ ~rx'.reordering
           /\ Deliver(voq) /\ voq' = <<>> /\ flush' = "none"
           /\ UNCHANGED <<tx, sent, wire, replies, lost>>
<1>1. rx \in RxState /\ Asserted
  BY DEF Sound, Shape, RxOK
<1>2. rx' = [rx EXCEPT !.reordering = FALSE, !.phase = 1] /\ flush # "none"
  BY DEF FlushVOQ
<1>3. rx' \in RxState /\ rx'.epoch = rx.epoch /\ rx'.phase = 1 /\ ~rx'.reordering
  BY <1>1, <1>2 DEF RxState
<1>4. voq # <<>> /\ rx.reordering
  BY <1>1, <1>2 DEF Asserted
<1>5. faults' = faults \cup {k \in {"flush"} : flush = "later" /\
                            \E m \in OnWire : \E n \in ToSet(voq) : m.n < n}
  BY DEF FlushVOQ, Blame
<1>6. Deliver(voq) /\ voq' = <<>> /\ flush' = "none" /\ UNCHANGED <<tx, sent, wire, replies, lost>>
  BY DEF FlushVOQ
<1>7. QED
  BY <1>2, <1>3, <1>4, <1>5, <1>6

LEMMA FlushSound ==
    ASSUME Sound, FlushVOQ
    PROVE  Sound'
<1>1. Shape /\ TxOK /\ WireOK /\ EndsOK /\ RxOK /\ Asserted /\ Begun
  BY DEF Sound, Shape
<1>2. /\ rx' \in RxState /\ ~rx'.reordering
      /\ Deliver(voq) /\ voq' = <<>> /\ flush' = "none"
      /\ UNCHANGED <<tx, sent, wire, replies, lost>>
      /\ faults' = faults \cup {k \in {"flush"} : flush = "later" /\
                            \E m \in OnWire : \E n \in ToSet(voq) : m.n < n}
  BY FlushEffect
<1>3. rx'.reordering = FALSE
  BY <1>2 DEF RxState
<1>4. delivered' \subseteq 1..sent /\ misordered' \in BOOLEAN
  BY <1>1, <1>2, DeliverAll DEF RxOK
<1>5. faults' \subseteq Fault
  BY <1>1, <1>2 DEF EndsOK, Fault
<1>6. TxOK' /\ WireOK'
  BY <1>1, <1>2, SameWire DEF TxOK
<1>7. voq' \in Seq(1..sent')
  BY <1>2, EmptySeq
<1>8. Shape'
  BY <1>1, <1>2, <1>4, <1>5, <1>6, <1>7 DEF Shape, EndsOK, RxOK
<1>9. QED
  BY <1>1, <1>2, <1>3, <1>8 DEF Sound, Begun, Asserted

LEMMA NewRxType ==
    /\ NewRx \in RxState /\ NewRx.epoch = 1 /\ NewRx.phase = 0
    /\ NewRx.reordering = FALSE
BY BoundAssumption DEF NewRx, RxState

LEMMA AgeRxSound ==
    ASSUME Sound, AgeRx
    PROVE  Sound'
<1>1. Shape /\ TxOK /\ WireOK /\ EndsOK /\ RxOK /\ Asserted /\ Begun
  BY DEF Sound, Shape
<1>2. /\ rx' = NewRx /\ voq = <<>>
      /\ UNCHANGED <<tx, voq, flush, sent, wire, replies, endVars, lost, faults>>
  BY DEF AgeRx, Quiet
<1>3. TxOK' /\ WireOK'
  BY <1>1, <1>2, SameWire DEF TxOK
<1>4. Shape'
  BY <1>1, <1>2, <1>3, NewRxType DEF Shape, EndsOK, RxOK, endVars
<1>5. QED
  BY <1>1, <1>2, <1>4, NewRxType DEF Sound, Begun, Asserted

(* The first packet of a path, or the first reply, is dropped.                 *)
LEMMA LoseEffect ==
    ASSUME Sound, Lose
    PROVE  /\ UNCHANGED <<tx, rxVars, sent, endVars>>
           /\ "loss" \in faults' /\ faults' = faults \cup {"loss"}
           /\ replies \in Seq(ReplyTag) /\ replies' \in Seq(ReplyTag)
           /\ ToSet(replies') \subseteq ToSet(replies)
           /\ lost' \subseteq 1..sent
           /\ \A q \in Paths : On(q)' \subseteq On(q)
           /\ WireOK'
<1>1. /\ WireOK /\ EndsOK /\ TxOK /\ replies \in Seq(ReplyTag)
      /\ UNCHANGED <<tx, rxVars, sent, endVars>>
      /\ faults' = faults \cup {"loss"}
  BY DEF Sound, Shape, EndsOK, Lose, Blame
<1>2. CASE \E p \in Paths :
             /\ wire[p] # <<>>
             /\ wire' = [wire EXCEPT ![p] = Tail(wire[p])]
             /\ lost' = lost \cup {Head(wire[p]).n}
             /\ UNCHANGED replies
  <2>1. PICK p \in Paths :
             /\ wire[p] # <<>>
             /\ wire' = [wire EXCEPT ![p] = Tail(wire[p])]
             /\ lost' = lost \cup {Head(wire[p]).n}
             /\ UNCHANGED replies
    BY <1>2
  <2>2. /\ Head(wire[p]) \in On(p) /\ WireOK'
        /\ \A q \in Paths : On(q)' \subseteq On(q)
    BY <2>1, <1>1, Taken
  <2>3. Head(wire[p]).n \in 1..sent
    BY <2>2, <1>1, OnPath, TxFields, BoundAssumption DEF WireOK
  <2>4. QED
    BY <2>1, <2>2, <2>3, <1>1 DEF EndsOK
<1>3. CASE replies # <<>> /\ replies' = Tail(replies) /\ UNCHANGED <<wire, lost>>
  <2>1. replies' \in Seq(ReplyTag) /\ ToSet(replies') \subseteq ToSet(replies)
    BY <1>1, <1>3, SetOfTail
  <2>2. WireOK' /\ \A q \in Paths : On(q)' \subseteq On(q)
    BY <1>1, <1>3, SameWire
  <2>3. QED
    BY <2>1, <2>2, <1>1, <1>3 DEF EndsOK
<1>4. QED
  BY <1>2, <1>3 DEF Lose

LEMMA LoseSound ==
    ASSUME Sound, Lose
    PROVE  Sound'
<1>1. Shape /\ TxOK /\ EndsOK /\ RxOK /\ Asserted /\ Begun
  BY DEF Sound, Shape
<1>2. /\ UNCHANGED <<tx, rxVars, sent, endVars>> /\ faults' = faults \cup {"loss"}
      /\ replies' \in Seq(ReplyTag) /\ lost' \subseteq 1..sent /\ WireOK'
  BY LoseEffect
<1>3. Shape'
  BY <1>1, <1>2 DEF Shape, TxOK, EndsOK, RxOK, rxVars, endVars, Fault
<1>4. QED
  BY <1>1, <1>2, <1>3 DEF Sound, Begun, Asserted, rxVars

LEMMA InitSound == Init => Sound
<1> SUFFICES ASSUME Init PROVE Sound
  OBVIOUS
<1>1. TxOK
  BY NewTxType, BoundAssumption DEF Init, TxOK
<1>2. \A p \in Paths : wire[p] = <<>> /\ On(p) = {} /\ Increasing(wire[p])
  <2>1. ToSet(<<>>) = {} /\ Increasing(<<>>)
    BY DEF ToSet, Increasing
  <2>2. QED
    BY <2>1 DEF Init, On
<1>3. WireOK
  BY <1>2, EmptySeq DEF Init, WireOK
<1>4. RxOK /\ EndsOK
  <2>1. <<>> \in Seq(1..sent) /\ <<>> \in Seq(ReplyTag)
    BY EmptySeq
  <2>2. RxOK
    BY <2>1, NewRxType DEF Init, RxOK
  <2>3. EndsOK
    BY <2>1 DEF Init, EndsOK
  <2>4. QED
    BY <2>2, <2>3
<1>5. Begun /\ Asserted
  <2>1. /\ rx.reordering = FALSE /\ flush = "none" /\ voq = <<>>
        /\ tx.phase # 1 /\ tx.expired
    BY NewTxType, NewRxType DEF Init
  <2>2. Asserted
    BY <2>1 DEF Asserted
  <2>3. QED
    BY <2>1, <2>2 DEF Begun
<1>6. QED
  BY <1>1, <1>3, <1>4, <1>5 DEF Sound, Shape

LEMMA StepSound == Sound /\ [Next]_vars => Sound'
<1> SUFFICES ASSUME Sound, [Next]_vars PROVE Sound'
  OBVIOUS
<1>1. CASE UNCHANGED vars
  <2>1. Shape /\ TxOK /\ WireOK /\ EndsOK /\ RxOK /\ Asserted /\ Begun
    BY DEF Sound, Shape
  <2>2. UNCHANGED <<tx, rx, voq, flush, sent, wire, replies, delivered, misordered, lost, faults>>
    BY <1>1 DEF vars, rxVars, endVars
  <2>3. TxOK' /\ WireOK' /\ EndsOK' /\ RxOK' /\ Asserted' /\ Begun'
    BY <2>1, <2>2, SameWire DEF TxOK, EndsOK, RxOK, Asserted, Begun
  <2>4. QED
    BY <2>3 DEF Sound, Shape
<1>2. QED
  BY <1>1, SendExpiredSound, SendTailSound, SendStabilizedSound, SendDataSound, PauseSound,
     ReplyDeadlineSound, ReceiveReplySound, ArriveOldSound, ArriveSound, FlushSound,
     AgeTxSound, AgeRxSound, LoseSound
  DEF Next

(* Every variable keeps its type; an epoch and the number of a packet never     *)
(* outrun what was sent.                                                       *)
THEOREM TypeCorrect == Spec => []TypeOK
<1>1. Sound => TypeOK
  <2> SUFFICES ASSUME Sound PROVE TypeOK
    OBVIOUS
  <2>1. TxOK /\ WireOK /\ EndsOK /\ RxOK
    BY DEF Sound, Shape
  <2>2. 1..sent \subseteq 1..MaxSeq
    BY <2>1, BoundAssumption DEF TxOK
  <2>3. voq \in Seq(1..MaxSeq)
    BY <2>1, <2>2, SeqMonotonic DEF RxOK
  <2>4. QED
    BY <2>1, <2>3 DEF TypeOK, TxOK, WireOK, EndsOK, RxOK, TxState, RxState
<1>2. QED
  BY <1>1, InitSound, StepSound, PTL DEF Spec

-----------------------------------------------------------------------------
(* Without losses the receiving switch hears of an epoch before its TAIL: the   *)
(* INIT of the epoch is ahead of it on the same path.                           *)

LEMMA FaultsGrow == Sound /\ [Next]_vars => faults \subseteq faults'
<1> SUFFICES ASSUME Sound, [Next]_vars PROVE faults \subseteq faults'
  OBVIOUS
<1>1. CASE \E p \in Paths : SendTail(p) \/ ArriveOld(p) \/ Arrive(p)
  BY <1>1 DEF SendTail, ArriveOld, Arrive, Take
<1>2. CASE Pause \/ SendStabilized \/ SendData \/ ReplyDeadline \/ ReceiveReply
  BY <1>2 DEF Pause, SendStabilized, SendData, ReplyDeadline, ReceiveReply
<1>3. CASE (\E p \in Paths : SendExpired(p)) \/ FlushVOQ \/ Lose
  BY <1>3 DEF SendExpired, FlushVOQ, Lose, Blame
<1>4. CASE AgeTx \/ AgeRx \/ UNCHANGED vars
  BY <1>4 DEF AgeTx, AgeRx, vars
<1>5. QED
  BY <1>1, <1>2, <1>3, <1>4 DEF Next

LEMMA QuietPaths ==
    ASSUME Quiet
    PROVE  (\A p \in Paths : On(p) = {}) /\ voq = <<>>
BY DEF Quiet, OnWire, On

InitOf(e, x) == x.flag = "INIT" /\ x.epoch = e

Announced ==
    ~tx.expired /\ tx.phase = 0 =>
        rx.epoch >= tx.epoch \/ \E x \in On(tx.path) : InitOf(tx.epoch, x)

TailFollowsInit ==
    \A p \in Paths : \A m \in On(p) : m.flag = "TAIL" =>
        m.epoch <= rx.epoch \/ \E x \in On(p) : InitOf(m.epoch, x) /\ x.n < m.n

Reordered == rx.reordering => rx.phase = 0

NoLossOrder == Announced /\ TailFollowsInit /\ Reordered

LEMMA SentTails ==
    ASSUME Sound, TailFollowsInit, Reordered, UNCHANGED rxVars,
           NEW p \in Paths, NEW y, y.flag # "TAIL",
           On(p)' = On(p) \cup {y}, \A q \in Paths : q # p => On(q)' = On(q)
    PROVE  TailFollowsInit' /\ Reordered'
<1>1. ASSUME NEW q \in Paths, NEW m \in On(q)', m.flag = "TAIL"
      PROVE  m.epoch <= rx'.epoch \/ \E x \in On(q)' : InitOf(m.epoch, x) /\ x.n < m.n
  <2>1. m \in On(q) /\ On(q) \subseteq On(q)' /\ rx' = rx
    BY <1>1 DEF rxVars
  <2>2. QED
    BY <2>1, <1>1 DEF TailFollowsInit
<1>2. QED
  BY <1>1 DEF TailFollowsInit, Reordered, rxVars

LEMMA SendInitAnnounced ==
    ASSUME Sound, NoLossOrder, NEW p \in Paths,
           Forward(p, "INIT", tx.epoch + 1, 0), tx'.epoch = tx.epoch + 1, tx'.path = p
    PROVE  NoLossOrder'
<1>1. WireOK /\ TxOK /\ sent \in 0..MaxSeq /\ sent < MaxSeq /\ UNCHANGED rxVars
  BY DEF Sound, Shape, TxOK, Forward
<1>2. tx.epoch + 1 \in 1..MaxSeq
  BY <1>1, NextEpoch
<1>3. PICK x \in Packet :
          /\ x.epoch = tx.epoch + 1 /\ x.flag = "INIT"
          /\ On(p)' = On(p) \cup {x}
          /\ \A q \in Paths : q # p => On(q)' = On(q)
  BY <1>1, <1>2, Sent
<1>4. TailFollowsInit' /\ Reordered'
  BY <1>1, <1>3, SentTails DEF NoLossOrder
<1>5. Announced'
  BY <1>3 DEF Announced, InitOf
<1>6. QED
  BY <1>4, <1>5 DEF NoLossOrder

LEMMA SendDataAnnounced ==
    ASSUME Sound, NoLossOrder, SendData
    PROVE  NoLossOrder'
<1>1. /\ WireOK /\ TxOK /\ ~tx.expired /\ tx.epoch # 0
      /\ Forward(tx.path, "DATA", tx.epoch, tx.phase) /\ tx' = tx /\ UNCHANGED rxVars
  BY DEF Sound, Shape, SendData, Begun, Forward
<1>2. tx.epoch \in 1..MaxSeq /\ tx.path \in Paths /\ tx.phase \in {0, 1} /\ sent \in 0..MaxSeq
  BY <1>1, TxFields, ThisEpoch DEF TxOK
<1> DEFINE o == tx.path
<1>0. PICK p \in Paths : p = o
  BY <1>2
<1>3. PICK y \in Packet :
          /\ y.flag = "DATA" /\ On(p)' = On(p) \cup {y}
          /\ \A q \in Paths : q # p => On(q)' = On(q)
  BY <1>0, <1>1, <1>2, Sent
<1>4. TailFollowsInit' /\ Reordered'
  BY <1>1, <1>2, <1>3, SentTails DEF NoLossOrder
<1>5. On(p) \subseteq On(p)' /\ tx.path = p /\ tx'.path = p
  BY <1>0, <1>1, <1>3
<1>6. Announced'
  <2> SUFFICES ASSUME ~tx.expired, tx.phase = 0, ~(rx.epoch >= tx.epoch)
               PROVE  \E x \in On(p)' : InitOf(tx.epoch, x)
    BY <1>1, <1>5 DEF Announced, rxVars
  <2>1. \E x \in On(p) : InitOf(tx.epoch, x)
    BY <1>5 DEF NoLossOrder, Announced
  <2>2. QED
    BY <2>1, <1>5
<1>7. QED
  BY <1>4, <1>6 DEF NoLossOrder

LEMMA SendTailAnnounced ==
    ASSUME Sound, NoLossOrder, NEW p \in Paths, SendTail(p)
    PROVE  NoLossOrder'
<1>1. /\ WireOK /\ TxOK /\ ~tx.expired /\ tx.epoch # 0 /\ tx.reply = "over"
      /\ Forward(tx.path, "TAIL", tx.epoch, 0) /\ UNCHANGED rxVars
      /\ tx' = [tx EXCEPT !.reply = "off", !.phase = 1, !.path = p]
  BY DEF Sound, Shape, SendTail, Begun, Forward
<1>2. tx.epoch \in 1..MaxSeq /\ tx.path \in Paths /\ sent \in 0..MaxSeq /\ tx.phase = 0
  BY <1>1, TxFields, ThisEpoch DEF TxOK, Sound, Asserted
<1>0. PICK o \in Paths : o = tx.path
  BY <1>2
<1>3. PICK y \in Packet :
          /\ y.n = sent + 1 /\ y.epoch = tx.epoch
          /\ On(o)' = On(o) \cup {y}
          /\ \A q \in Paths : q # o => On(q)' = On(q)
  BY <1>0, <1>1, <1>2, Sent
<1>4. ASSUME NEW q \in Paths, NEW m \in On(q)', m.flag = "TAIL"
      PROVE  m.epoch <= rx'.epoch \/ \E x \in On(q)' : InitOf(m.epoch, x) /\ x.n < m.n
  <2>1. On(q) \subseteq On(q)' /\ rx' = rx
    BY <1>1, <1>3 DEF rxVars
  <2>2. CASE m \in On(q)
    BY <2>1, <2>2, <1>4 DEF NoLossOrder, TailFollowsInit
  <2>3. CASE m \notin On(q)
    <3>1. m = y /\ q = o
      BY <2>3, <1>3, <1>4
    <3>2. rx.epoch >= tx.epoch \/ \E x \in On(o) : InitOf(tx.epoch, x)
      BY <1>0, <1>1, <1>2 DEF NoLossOrder, Announced
    <3>3. ASSUME NEW x \in On(o) PROVE x.n < y.n
      <4>1. x.n <= sent /\ x.n \in 1..MaxSeq
        BY <1>1, <1>2, OnPath DEF WireOK
      <4>2. QED
        BY <4>1, <1>2, <1>3, BoundAssumption
    <3>4. rx.epoch \in Nat
      BY RxFields DEF Sound, Shape
    <3>5. QED
      BY <2>1, <3>1, <3>2, <3>3, <3>4, <1>2, <1>3
  <2>4. QED
    BY <2>2, <2>3
<1>5. tx'.phase = 1
  BY <1>1, TxFields DEF TxState
<1>6. QED
  BY <1>1, <1>4, <1>5 DEF NoLossOrder, TailFollowsInit, Announced, Reordered, rxVars

(* A packet that arrives tells the receiving switch of its epoch.               *)
LEMMA HeadSeen ==
    ASSUME Sound, NoLossOrder, NEW p \in Paths, Take(p), rx' \in RxState,
           rx'.epoch >= rx.epoch, rx'.epoch >= Head(wire[p]).epoch
    PROVE  Announced' /\ TailFollowsInit'
<1> DEFINE h == Head(wire[p])
<1>1. /\ h \in On(p) /\ On(p) = On(p)' \cup {h} /\ h.epoch \in Nat
      /\ \A q \in Paths : q # p => On(q)' = On(q)
      /\ \A q \in Paths : On(q)' \subseteq On(q)
      /\ WireOK /\ TxOK /\ tx' = tx
  BY TakeEffect DEF Sound, Shape
<1>2. rx.epoch \in Nat /\ rx'.epoch \in Nat
  BY RxFields DEF Sound, Shape, RxState
<1>3. rx'.epoch >= h.epoch /\ rx'.epoch >= rx.epoch
  OBVIOUS
<1> HIDE DEF h
<1>4. ASSUME NEW q \in Paths, NEW x \in On(q), NEW e \in Nat, InitOf(e, x), ~(e <= rx'.epoch)
      PROVE  x \in On(q)'
  <2>1. x # h
    BY <1>1, <1>2, <1>3, <1>4 DEF InitOf
  <2>2. QED
    BY <2>1, <1>1
<1>5. TailFollowsInit'
  <2> SUFFICES ASSUME NEW q \in Paths, NEW m \in On(q)', m.flag = "TAIL",
                      ~(m.epoch <= rx'.epoch)
               PROVE  \E x \in On(q)' : InitOf(m.epoch, x) /\ x.n < m.n
    BY DEF TailFollowsInit
  <2>1. m \in On(q) /\ m.epoch \in Nat
    BY <1>1, OnPath
  <2>2. ~(m.epoch <= rx.epoch)
    BY <2>1, <1>2, <1>3
  <2>3. PICK x \in On(q) : InitOf(m.epoch, x) /\ x.n < m.n
    BY <2>1, <2>2 DEF NoLossOrder, TailFollowsInit
  <2>4. QED
    BY <2>1, <2>3, <1>4
<1>6. Announced'
  <2> SUFFICES ASSUME ~tx.expired, tx.phase = 0, ~(rx'.epoch >= tx.epoch)
               PROVE  \E x \in On(tx.path)' : InitOf(tx.epoch, x)
    BY <1>1 DEF Announced
  <2>1. tx.epoch \in Nat /\ tx.path \in Paths
    BY <1>1, TxFields
  <2>2. PICK o \in Paths : o = tx.path /\ o = tx'.path
    BY <2>1, <1>1
  <2>3. ~(rx.epoch >= tx.epoch)
    BY <2>1, <1>2, <1>3
  <2>4. PICK x \in On(o) : InitOf(tx.epoch, x)
    BY <2>2, <2>3 DEF NoLossOrder, Announced
  <2>5. ~(tx.epoch <= rx'.epoch)
    BY <2>1, <1>2
  <2>6. x \in On(o)'
    BY <2>1, <2>4, <2>5, <1>4
  <2>7. QED
    BY <2>2, <2>4, <2>6
<1>7. QED
  BY <1>5, <1>6

LEMMA ArriveAnnounced ==
    ASSUME Sound, NoLossOrder, NEW p \in Paths, Arrive(p)
    PROVE  NoLossOrder'
<1> DEFINE m == Head(wire[p])
<1>1. /\ Take(p) /\ m.epoch >= rx.epoch /\ PhaseAfter(m) \in {0, 1}
      /\ rx' \in RxState /\ rx'.epoch = m.epoch /\ rx'.phase = PhaseAfter(m)
      /\ rx'.reordering = (rx.reordering \/ Ahead(m))
  BY ArriveEffect
<1>2. /\ m \in On(p) /\ m.epoch \in Nat /\ m.phase \in {0, 1}
      /\ On(p) = On(p)' \cup {m} /\ \A x \in On(p)' : m.n < x.n
      /\ m.n \in Nat
  BY <1>1, TakeEffect
<1>3. rx.epoch \in Nat /\ rx.phase \in {0, 1} /\ WireOK
  BY RxFields DEF Sound, Shape
<1>4. \A x \in On(p)' : x.n \in Nat
  BY <1>2, <1>3, OnPath
<1> HIDE DEF m
<1>5. Announced' /\ TailFollowsInit'
  <2>1. rx'.epoch >= rx.epoch /\ rx'.epoch >= m.epoch
    BY <1>1, <1>2
  <2>2. QED
    BY <2>1, <1>1, HeadSeen DEF m
<1>6. Reordered'
  <2> SUFFICES ASSUME rx'.reordering PROVE rx'.phase = 0
    BY DEF Reordered
  <2>1. CASE Ahead(m)
    BY <2>1, <1>1, <1>2 DEF Ahead
  <2>2. CASE rx.reordering
    <3>1. rx.phase = 0
      BY <2>2 DEF NoLossOrder, Reordered
    <3>2. ASSUME m.epoch > rx.epoch PROVE m.flag # "TAIL"
      <4> SUFFICES ASSUME m.flag = "TAIL" PROVE FALSE
        OBVIOUS
      <4>1. PICK x \in On(p) : x.n < m.n
        BY <1>2, <1>3, <3>2 DEF NoLossOrder, TailFollowsInit
      <4>2. QED
        BY <4>1, <1>2, <1>4
    <3>3. PhaseAfter(m) = 0
      BY <2>2, <3>1, <3>2 DEF PhaseAfter
    <3>4. QED
      BY <3>3, <1>1
  <2>3. QED
    BY <2>1, <2>2, <1>1
<1>7. QED
  BY <1>5, <1>6 DEF NoLossOrder

LEMMA ArriveOldAnnounced ==
    ASSUME Sound, NoLossOrder, NEW p \in Paths, ArriveOld(p)
    PROVE  NoLossOrder'
<1>1. Take(p) /\ Head(wire[p]).epoch < rx.epoch /\ rx' = rx
  BY DEF ArriveOld, rxVars
<1>2. rx \in RxState /\ rx.epoch \in Nat /\ Head(wire[p]).epoch \in Nat
  BY <1>1, TakeEffect, RxFields DEF Sound, Shape, RxOK
<1>3. Announced' /\ TailFollowsInit'
  BY <1>1, <1>2, HeadSeen
<1>4. QED
  BY <1>1, <1>3 DEF NoLossOrder, Reordered

LEMMA StepAnnounced ==
    Sound /\ ("loss" \notin faults => NoLossOrder) /\ [Next]_vars
        => ("loss" \notin faults' => NoLossOrder')
<1> SUFFICES ASSUME Sound, "loss" \notin faults => NoLossOrder, [Next]_vars,
                    "loss" \notin faults'
             PROVE  NoLossOrder'
  OBVIOUS
<1>1. NoLossOrder
  BY FaultsGrow
<1>2. WireOK /\ TxOK
  BY DEF Sound, Shape
<1>3. ASSUME NEW p \in Paths, SendExpired(p) PROVE NoLossOrder'
  <2>1. Forward(p, "INIT", tx.epoch + 1, 0) /\ tx'.epoch = tx.epoch + 1 /\ tx'.path = p
    BY <1>3 DEF SendExpired
  <2>2. QED
    BY <2>1, <1>1, SendInitAnnounced
<1>4. CASE SendStabilized
  <2>1. Forward(tx.path, "INIT", tx.epoch + 1, 0) /\ tx'.epoch = tx.epoch + 1 /\ tx'.path = tx.path
    BY <1>4, <1>2, TxFields DEF SendStabilized, TxState
  <2>2. QED
    BY <2>1, <1>1, <1>2, TxFields, SendInitAnnounced
<1>5. CASE Pause
  <2>1. tx'.expired /\ UNCHANGED <<rxVars, wire>>
    BY <1>5, <1>2, TxFields DEF Pause, TxState
  <2>2. QED
    BY <2>1, <1>1 DEF NoLossOrder, Announced, TailFollowsInit, Reordered, On, rxVars
<1>6. CASE ReplyDeadline \/ ReceiveReply
  <2>1. /\ tx'.expired = tx.expired /\ tx'.phase = tx.phase /\ tx'.path = tx.path
        /\ tx'.epoch = tx.epoch
    <3>1. CASE ReplyDeadline
      BY <3>1, <1>2, TxFields DEF ReplyDeadline, TxState
    <3>2. CASE ReceiveReply
      BY <3>2, ReplyEffect
    <3>3. QED
      BY <3>1, <3>2, <1>6
  <2>2. UNCHANGED <<rxVars, wire>>
    BY <1>6 DEF ReplyDeadline, ReceiveReply
  <2>3. QED
    BY <2>1, <2>2, <1>1 DEF NoLossOrder, Announced, TailFollowsInit, Reordered, On, rxVars
<1>7. CASE FlushVOQ
  <2>1. rx'.epoch = rx.epoch /\ ~rx'.reordering /\ tx' = tx /\ wire' = wire
    BY <1>7, FlushEffect
  <2>2. QED
    BY <2>1, <1>1 DEF NoLossOrder, Announced, TailFollowsInit, Reordered, On
<1>8. CASE AgeTx
  <2>1. tx'.expired /\ UNCHANGED <<rxVars, wire>>
    BY <1>8, NewTxType DEF AgeTx
  <2>2. QED
    BY <2>1, <1>1 DEF NoLossOrder, Announced, TailFollowsInit, Reordered, On, rxVars
<1>9. CASE AgeRx
  <2>1. tx'.expired /\ rx'.reordering = FALSE /\ \A p \in Paths : On(p)' = {}
    BY <1>9, QuietPaths, NewRxType DEF AgeRx, On
  <2>2. QED
    BY <2>1 DEF NoLossOrder, Announced, TailFollowsInit, Reordered
<1>10. CASE Lose
  BY <1>10, LoseEffect
<1>11. CASE UNCHANGED vars
  BY <1>11, <1>1 DEF NoLossOrder, Announced, TailFollowsInit, Reordered, On, vars, rxVars
<1>12. QED
  BY <1>1, <1>3, <1>4, <1>5, <1>6, <1>7, <1>8, <1>9, <1>10, <1>11, SendDataAnnounced,
     SendTailAnnounced, ArriveAnnounced, ArriveOldAnnounced
  DEF Next

-----------------------------------------------------------------------------
(* The order of the packets, as long as nothing but losses happens.            *)

Calm == faults \cap {"expiry", "flush", "aged"} = {}

(* A packet of the new path: it waits for those of the old one.                *)
New(m) == m.phase = 1 /\ m.epoch = tx.epoch
AllNew == \A p \in Paths : \A m \in On(p) : New(m)

(* The older packets are all on one path, before those of the new path; without *)
(* a new path everything is on the path of the flow.                           *)
OldBeforeNew ==
    /\ \A p, q \in Paths : \A m \in On(p), x \in On(q) : ~New(m) /\ ~New(x) => p = q
    /\ \A p \in Paths : \A m \in On(p) : New(m) => p = tx.path /\ tx.phase = 1
    /\ \A p, q \in Paths : \A m \in On(p), x \in On(q) : ~New(m) /\ New(x) => m.n < x.n

OnePath ==
    tx.phase = 0 => (\A p \in Paths : p # tx.path => On(p) = {}) /\ voq = <<>>

(* What was delivered is older than all the rest.                              *)
DeliveredFirst ==
    \A d \in delivered :
        /\ \A p \in Paths : \A m \in On(p) : d < m.n
        /\ \A v \in ToSet(voq) : d < v

(* The VOQ is in order, and between the packets of the old path and the new.    *)
VoqOrder ==
    /\ \A i, j \in DOMAIN voq : i < j => voq[i] < voq[j]
    /\ \A v \in ToSet(voq) : \A p \in Paths : \A m \in On(p) :
          (New(m) => v < m.n) /\ (~New(m) => m.n < v)

VoqHeld == voq # <<>> => tx.phase = 1 /\ rx.epoch = tx.epoch /\ rx.phase = 0

(* The receiving switch lets the new path through only when it is the only one. *)
PhaseEarned ==
    tx.known /\ rx.epoch = tx.epoch /\ rx.phase = 1 =>
        tx.phase = 1 /\ AllNew /\ voq = <<>>

(* The TAIL is the last packet of the old path.                                *)
TailLast ==
    \A p \in Paths : \A m \in On(p) : m.flag = "TAIL" =>
        /\ m.epoch = tx.epoch /\ tx.phase = 1
        /\ \A q \in Paths : \A x \in On(q) : ~New(x) => x.n <= m.n

FlushedByTail == flush = "now" => AllNew

TailAnswered ==
    \A r \in ToSet(replies) : r.flag = "TAIL" /\ r.epoch = tx.epoch =>
        /\ tx.phase = 1 /\ AllNew
        /\ flush = "now" \/ (rx.epoch = tx.epoch /\ rx.phase = 1)

StabilizedAfterTail ==
    tx.stabilized /\ tx.phase = 1 /\ ~tx.expired =>
        AllNew /\ rx.epoch = tx.epoch /\ rx.phase = 1

(* The new path of an earlier epoch is an old path.                            *)
OldIsOld ==
    \A p \in Paths : \A m \in On(p) : m.phase = 1 /\ m.epoch < tx.epoch =>
        m.epoch < rx.epoch \/ (m.epoch = rx.epoch /\ rx.phase = 1)

(* The sending switch is never behind, unless it has forgotten the flow.        *)
TxAhead ==
    IF tx.known
    THEN /\ rx.epoch <= tx.epoch
         /\ \A p \in Paths : \A m \in On(p) : m.epoch <= tx.epoch
         /\ \A r \in ToSet(replies) : r.epoch <= tx.epoch
    ELSE tx = NewTx /\ (\A p \in Paths : On(p) = {}) /\ voq = <<>> /\ replies = <<>>

Order ==
    /\ ~misordered
    /\ OldBeforeNew /\ OnePath /\ DeliveredFirst /\ VoqOrder /\ VoqHeld
    /\ PhaseEarned /\ TailLast /\ FlushedByTail /\ TailAnswered
    /\ StabilizedAfterTail /\ OldIsOld /\ TxAhead

-----------------------------------------------------------------------------
(* Steps that only take things away.                                           *)
LEMMA LessOrder ==
    ASSUME Order, \A q \in Paths : On(q)' \subseteq On(q),
           ToSet(replies') \subseteq ToSet(replies), replies = <<>> => replies' = <<>>,
           UNCHANGED <<rxVars, endVars>>,
           tx'.epoch = tx.epoch, tx'.phase = tx.phase, tx'.path = tx.path,
           tx'.known = tx.known, ~tx.known => tx' = tx,
           StabilizedAfterTail'
    PROVE  Order'
<1> USE DEF Order, rxVars, endVars
<1>1. AllNew => AllNew'
  BY DEF AllNew, New
<1>2. OldBeforeNew'
  BY DEF OldBeforeNew, New
<1>3. OnePath'
  BY DEF OnePath
<1>4. DeliveredFirst'
  BY DEF DeliveredFirst
<1>5. VoqOrder' /\ VoqHeld'
  BY DEF VoqOrder, VoqHeld, New
<1>6. PhaseEarned' /\ FlushedByTail' /\ TailAnswered'
  BY <1>1 DEF PhaseEarned, FlushedByTail, TailAnswered
<1>7. TailLast'
  BY DEF TailLast, New
<1>8. OldIsOld' /\ TxAhead'
  BY DEF OldIsOld, TxAhead
<1>9. QED
  BY <1>2, <1>3, <1>4, <1>5, <1>6, <1>7, <1>8

LEMMA SameStabilized ==
    ASSUME Order, \A q \in Paths : On(q)' \subseteq On(q), rx' = rx,
           tx'.epoch = tx.epoch, tx'.phase = tx.phase,
           tx'.stabilized /\ ~tx'.expired => tx.stabilized /\ ~tx.expired
    PROVE  StabilizedAfterTail'
<1>1. AllNew => AllNew'
  BY DEF AllNew, New
<1>2. QED
  BY <1>1 DEF Order, StabilizedAfterTail

LEMMA PauseOrder ==
    ASSUME Sound, Order, Pause \/ ReplyDeadline
    PROVE  Order'
<1>1. TxOK /\ Begun /\ WireOK
  BY DEF Sound, Shape
<1>2. /\ UNCHANGED <<rxVars, endVars, wire, replies, sent>>
      /\ tx' = [tx EXCEPT !.expired = TRUE] \/ tx' = [tx EXCEPT !.reply = "over"]
      /\ tx # NewTx
  BY <1>1, NewTxType DEF Pause, ReplyDeadline, NewTx
<1>3. tx \in TxState
  BY <1>1, TxFields
<1>4. /\ tx'.epoch = tx.epoch /\ tx'.phase = tx.phase /\ tx'.path = tx.path
      /\ tx'.known = tx.known
      /\ tx'.stabilized /\ ~tx'.expired => tx.stabilized /\ ~tx.expired
  BY <1>2, <1>3 DEF TxState
<1>5. tx.known
  BY <1>2 DEF Order, TxAhead
<1>6. \A q \in Paths : On(q)' \subseteq On(q)
  BY <1>2 DEF On
<1>7. StabilizedAfterTail'
  BY <1>2, <1>4, <1>6, SameStabilized DEF rxVars
<1>8. QED
  BY <1>2, <1>4, <1>5, <1>6, <1>7, LessOrder

LEMMA LoseOrder ==
    ASSUME Sound, Order, Lose
    PROVE  Order'
<1>1. /\ UNCHANGED <<tx, rxVars, sent, endVars>>
      /\ replies \in Seq(ReplyTag) /\ replies' \in Seq(ReplyTag)
      /\ ToSet(replies') \subseteq ToSet(replies)
      /\ \A q \in Paths : On(q)' \subseteq On(q)
  BY LoseEffect
<1>2. replies = <<>> => replies' = <<>>
  <2>1. replies = <<>> => ToSet(replies) = {}
    BY <1>1, SetOf
  <2>2. ToSet(replies') = {} => replies' = <<>>
    BY <1>1, SetOf
  <2>3. QED
    BY <1>1, <2>1, <2>2
<1>3. StabilizedAfterTail'
  BY <1>1, SameStabilized DEF rxVars
<1>4. QED
  BY <1>1, <1>2, <1>3, LessOrder

(* The reply to the TAIL finds the old path empty and the VOQ flushed.          *)
LEMMA ReceiveReplyOrder ==
    ASSUME Sound, Order, ReceiveReply
    PROVE  Order'
<1> DEFINE m == Head(replies)
<1>1. /\ UNCHANGED <<rxVars, endVars, wire>> /\ replies' = Tail(replies)
      /\ flush # "now"
      /\ replies \in Seq(ReplyTag) /\ replies # <<>>
  BY ReplyEffect DEF ReceiveReply
<1>2. m \in ToSet(replies) /\ m \in ReplyTag /\ ToSet(replies') \subseteq ToSet(replies)
  BY <1>1, SetOfTail
<1>3. tx.known
  BY <1>1 DEF Order, TxAhead
<1>4. \A q \in Paths : On(q)' \subseteq On(q)
  BY <1>1 DEF On
<1>5. CASE tx' = tx
  <2>1. StabilizedAfterTail'
    BY <1>1, <1>4, <1>5, SameStabilized DEF rxVars
  <2>2. QED
    BY <1>1, <1>2, <1>3, <1>4, <1>5, <2>1, LessOrder
<1>6. CASE /\ m.epoch = tx.epoch /\ tx.phase = (IF m.flag = "TAIL" THEN 1 ELSE 0)
           /\ tx'.known = tx.known /\ tx'.expired = tx.expired
           /\ tx'.epoch = tx.epoch /\ tx'.phase = tx.phase /\ tx'.path = tx.path
  <2>1. StabilizedAfterTail'
    <3> SUFFICES ASSUME tx'.phase = 1
                 PROVE  AllNew' /\ rx'.epoch = tx'.epoch /\ rx'.phase = 1
      BY DEF StabilizedAfterTail
    <3>1. m.flag = "TAIL"
      BY <1>6
    <3>2. AllNew /\ rx.epoch = tx.epoch /\ rx.phase = 1
      BY <3>1, <1>1, <1>2, <1>6 DEF Order, TailAnswered
    <3>3. QED
      BY <3>2, <1>1, <1>4, <1>6 DEF AllNew, New, rxVars
  <2>2. QED
    BY <1>1, <1>2, <1>3, <1>4, <1>6, <2>1, LessOrder
<1>7. QED
  BY <1>5, <1>6, ReplyEffect

(* An entry is forgotten when nothing is under way.                            *)
LEMMA AgeOrder ==
    ASSUME Sound, Order, AgeTx \/ AgeRx
    PROVE  Order'
<1>1. /\ Quiet /\ replies = <<>> /\ tx.expired
      /\ UNCHANGED <<wire, voq, flush, replies, endVars>>
      /\ \/ tx' = NewTx /\ rx' = rx
         \/ tx' = tx /\ rx' = NewRx
  BY DEF AgeTx, AgeRx, rxVars
<1>2. /\ \A p \in Paths : On(p) = {} /\ On(p)' = {}
      /\ voq = <<>> /\ voq' = <<>> /\ replies' = <<>> /\ misordered' = misordered
  BY <1>1, QuietPaths DEF On, endVars
<1>3. ToSet(<<>>) = {}
  BY SetOf, EmptySeq
<1>4. ToSet(voq') = {} /\ ToSet(replies') = {} /\ DOMAIN voq' = {}
  BY <1>2, <1>3
<1>5. tx'.expired /\ (tx'.known => tx' = tx /\ rx' = NewRx) /\ (~tx'.known => tx' = NewTx)
  BY <1>1, NewTxType DEF Order, TxAhead, NewTx
<1>6. AllNew'
  BY <1>2 DEF AllNew
<1>7. OldBeforeNew' /\ OnePath' /\ DeliveredFirst' /\ VoqOrder' /\ VoqHeld'
  BY <1>2, <1>4 DEF OldBeforeNew, OnePath, DeliveredFirst, VoqOrder, VoqHeld
<1>8. PhaseEarned' /\ StabilizedAfterTail'
  BY <1>5, NewRxType DEF PhaseEarned, StabilizedAfterTail
<1>9. TailLast' /\ FlushedByTail' /\ TailAnswered' /\ OldIsOld'
  BY <1>2, <1>4, <1>6 DEF TailLast, FlushedByTail, TailAnswered, OldIsOld
<1>10. TxAhead'
  <2>1. CASE tx'.known
    <3>1. rx.epoch <= tx.epoch /\ rx.epoch \in Nat \ {0} /\ tx.epoch \in Nat
      BY <2>1, <1>5, RxFields, TxFields DEF Order, TxAhead, Sound, Shape
    <3>2. rx'.epoch <= tx'.epoch
      BY <2>1, <3>1, <1>5, NewRxType
    <3>3. QED
      BY <2>1, <3>2, <1>2, <1>4 DEF TxAhead
  <2>2. CASE ~tx'.known
    BY <2>2, <1>2, <1>5 DEF TxAhead
  <2>3. QED
    BY <2>1, <2>2
<1>11. QED
  BY <1>2, <1>7, <1>8, <1>9, <1>10 DEF Order

-----------------------------------------------------------------------------
(* Steps that send a packet.                                                   *)

(* It is the newest of all.                                                    *)
LEMMA Newest ==
    ASSUME Sound, NEW y, y.n = sent + 1
    PROVE  /\ \A q \in Paths : \A x \in On(q) : x.n < y.n /\ x.n <= y.n
           /\ \A d \in delivered : d < y.n
           /\ \A v \in ToSet(voq) : v < y.n
<1>1. WireOK /\ TxOK /\ RxOK /\ EndsOK /\ sent \in Nat
  BY TxFields DEF Sound, Shape
<1>2. ASSUME NEW q \in Paths, NEW x \in On(q) PROVE x.n < y.n /\ x.n <= y.n
  <2>1. x.n <= sent /\ x.n \in 1..MaxSeq
    BY <1>1, OnPath DEF WireOK
  <2>2. QED
    BY <2>1, <1>1, BoundAssumption
<1>3. ASSUME NEW d \in 1..sent PROVE d < y.n
  BY <1>1
<1>4. ToSet(voq) \subseteq 1..sent
  BY <1>1, SetOf DEF RxOK
<1>5. QED
  BY <1>1, <1>2, <1>3, <1>4 DEF EndsOK

(* The INIT of a new epoch: nothing is left of an older path but, perhaps, on   *)
(* the one it takes.                                                           *)
LEMMA InitOrder ==
    ASSUME Sound, Order, NEW p \in Paths,
           Forward(p, "INIT", tx.epoch + 1, 0),
           tx'.epoch = tx.epoch + 1, tx'.phase = 0, tx'.path = p, tx'.known, ~tx'.stabilized,
           \A q \in Paths : q # p => On(q) = {},
           voq = <<>>,
           rx.epoch <= tx.epoch \/ (rx.epoch = tx.epoch + 1 /\ rx.phase = 0),
           \A m \in On(p) : m.epoch <= tx.epoch /\ m.flag # "TAIL"
                              /\ (m.phase = 1 => m.epoch < rx.epoch
                                                 \/ (m.epoch = rx.epoch /\ rx.phase = 1)),
           \A r \in ToSet(replies) : r.epoch <= tx.epoch
    PROVE  Order'
<1>1. /\ WireOK /\ TxOK /\ RxOK /\ sent \in 0..MaxSeq /\ sent < MaxSeq /\ EndsOK
      /\ UNCHANGED <<rx, voq, flush, replies, delivered, misordered>>
  BY DEF Sound, Shape, TxOK, Forward, rxVars, endVars
<1>2. tx.epoch + 1 \in 1..MaxSeq /\ tx.epoch \in Nat
  BY <1>1, NextEpoch
<1>3. PICK y \in Packet :
          /\ y.n = sent + 1 /\ y.epoch = tx.epoch + 1 /\ y.phase = 0 /\ y.flag = "INIT"
          /\ On(p)' = On(p) \cup {y}
          /\ \A q \in Paths : q # p => On(q)' = On(q)
  BY <1>1, <1>2, Sent
<1>4. \A q \in Paths : \A m \in On(q)' : q = p /\ (m \in On(p) \/ m = y)
  BY <1>3
<1>5. \A m \in On(p) : m.epoch \in Nat /\ m.epoch # tx.epoch + 1
  BY <1>1, <1>2, OnPath
<1>6. \A q \in Paths : \A m \in On(q)' : ~New(m)'
  BY <1>3, <1>4, <1>5 DEF New
<1>7. flush = "none"
  BY DEF Sound, Asserted
<1>8. ToSet(voq) = {}
  BY <1>1, SetOf DEF RxOK
<1>9. rx.epoch \in Nat
  BY <1>1, RxFields
<1>10. \A r \in ToSet(replies) : r.epoch \in Nat
  <2>1. ToSet(replies) \subseteq ReplyTag
    BY <1>1, SetOf DEF EndsOK
  <2>2. \A r \in ReplyTag : r.epoch \in Nat
    BY DEF ReplyTag
  <2>3. QED
    BY <2>1, <2>2
<1>11. OldBeforeNew'
  BY <1>4, <1>6 DEF OldBeforeNew
<1>12. OnePath'
  BY <1>1, <1>3 DEF OnePath
<1>13. DeliveredFirst'
  BY <1>1, <1>3, <1>4, <1>8, Newest DEF Order, DeliveredFirst
<1>14. VoqOrder' /\ VoqHeld'
  <2>1. DOMAIN voq = {}
    BY <1>1, <1>8, SetOf DEF RxOK
  <2>2. QED
    BY <1>1, <1>8, <2>1 DEF VoqOrder, VoqHeld
<1>15. PhaseEarned'
  BY <1>1, <1>2, <1>9 DEF PhaseEarned
<1>16. TailLast'
  BY <1>3, <1>4 DEF TailLast
<1>17. FlushedByTail'
  BY <1>1, <1>7 DEF FlushedByTail
<1>18. TailAnswered'
  BY <1>1, <1>2, <1>10 DEF TailAnswered
<1>19. StabilizedAfterTail'
  BY DEF StabilizedAfterTail
<1>20. OldIsOld'
  BY <1>1, <1>3, <1>4 DEF OldIsOld
<1>21. TxAhead'
  <2>1. rx'.epoch <= tx'.epoch
    BY <1>1, <1>2, <1>9
  <2>2. \A q \in Paths : \A m \in On(q)' : m.epoch <= tx'.epoch
    BY <1>2, <1>3, <1>4, <1>5
  <2>3. \A r \in ToSet(replies') : r.epoch <= tx'.epoch
    BY <1>1, <1>2, <1>10
  <2>4. QED
    BY <2>1, <2>2, <2>3 DEF TxAhead
<1>22. QED
  BY <1>1, <1>11, <1>12, <1>13, <1>14, <1>15, <1>16, <1>17, <1>18, <1>19, <1>20, <1>21
  DEF Order

LEMMA SendStabilizedOrder ==
    ASSUME Sound, Order, SendStabilized
    PROVE  Order'
<1>1. /\ WireOK /\ TxOK /\ RxOK /\ ~tx.expired /\ tx.stabilized
      /\ Forward(tx.path, "INIT", tx.epoch + 1, 0)
      /\ tx' = [tx EXCEPT !.stabilized = FALSE, !.reply = "running",
                          !.epoch = tx.epoch + 1, !.phase = 0]
      /\ tx.known
  BY DEF Sound, Shape, SendStabilized, Begun
<1>2. PICK p \in Paths : p = tx.path
  BY <1>1, TxFields
<1>3. /\ tx'.epoch = tx.epoch + 1 /\ tx'.phase = 0 /\ tx'.path = p /\ tx'.known
      /\ ~tx'.stabilized
  BY <1>1, <1>2, TxFields DEF TxState
<1>4. /\ rx.epoch <= tx.epoch
      /\ \A q \in Paths : \A m \in On(q) : m.epoch <= tx.epoch
      /\ \A r \in ToSet(replies) : r.epoch <= tx.epoch
  BY <1>1 DEF Order, TxAhead
<1>5. CASE tx.phase = 1
  <2>1. AllNew /\ rx.epoch = tx.epoch /\ rx.phase = 1
    BY <1>1, <1>5 DEF Order, StabilizedAfterTail
  <2>2. voq = <<>>
    BY <2>1, <1>1 DEF Order, PhaseEarned
  <2>3. \A q \in Paths : \A m \in On(q) : q = p
    BY <2>1, <1>2 DEF AllNew, Order, OldBeforeNew
  <2>4. \A m \in On(p) : m.phase = 1 /\ m.epoch = rx.epoch
    BY <2>1 DEF AllNew, New
  <2>5. \A m \in On(p) : m.flag # "TAIL"
    BY <2>4, <1>1 DEF WireOK
  <2>6. QED
    BY <2>1, <2>2, <2>3, <2>4, <2>5, <1>1, <1>2, <1>3, <1>4, InitOrder
<1>6. CASE tx.phase = 0
  <2>1. (\A q \in Paths : q # p => On(q) = {}) /\ voq = <<>>
    BY <1>2, <1>6 DEF Order, OnePath
  <2>2. \A m \in On(p) : m.flag # "TAIL"
    BY <1>6 DEF Order, TailLast
  <2>3. ASSUME NEW m \in On(p), m.phase = 1
        PROVE  m.epoch < rx.epoch \/ (m.epoch = rx.epoch /\ rx.phase = 1)
    <3>1. ~New(m)
      BY <1>6 DEF Order, OldBeforeNew
    <3>2. m.epoch # tx.epoch /\ m.epoch <= tx.epoch /\ m.epoch \in Nat /\ tx.epoch \in Nat
      BY <3>1, <2>3, <1>1, <1>4, OnPath, TxFields DEF New
    <3>3. QED
      BY <3>2, <2>3 DEF Order, OldIsOld
  <2>4. QED
    BY <2>1, <2>2, <2>3, <1>1, <1>2, <1>3, <1>4, InitOrder
<1>7. QED
  BY <1>1, <1>5, <1>6, TxFields

(* After a pause that no fault is blamed for, nothing was under way.            *)
LEMMA SendExpiredOrder ==
    ASSUME Sound, Order, NEW p \in Paths, SendExpired(p), Calm'
    PROVE  Order'
<1>1. /\ TxOK /\ RxOK /\ Forward(p, "INIT", tx.epoch + 1, 0)
      /\ tx' = [known |-> TRUE, expired |-> FALSE, stabilized |-> FALSE,
                reply |-> "running", epoch |-> tx.epoch + 1, phase |-> 0, path |-> p]
      /\ faults' = faults \cup {k \in {"expiry", "aged"} :
                       \/ k = "expiry" /\ tx.known /\ ~Quiet
                       \/ k = "aged" /\ ~tx.known /\ rx # NewRx}
  BY DEF Sound, Shape, SendExpired, Blame
<1>2. (tx.known => Quiet) /\ (~tx.known => rx = NewRx)
  BY <1>1 DEF Calm
<1>3. (\A q \in Paths : On(q) = {}) /\ voq = <<>>
  BY <1>2, QuietPaths DEF Order, TxAhead
<1>4. rx.epoch <= tx.epoch \/ (rx.epoch = tx.epoch + 1 /\ rx.phase = 0)
  BY <1>2, NewTxType, NewRxType DEF Order, TxAhead
<1>5. \A r \in ToSet(replies) : r.epoch <= tx.epoch
  <2>1. CASE tx.known
    BY <2>1 DEF Order, TxAhead
  <2>2. CASE ~tx.known
    <3>1. replies = <<>>
      BY <2>2 DEF Order, TxAhead
    <3>2. ToSet(replies) = {}
      BY <3>1, SetOf, EmptySeq
    <3>3. QED
      BY <3>2
  <2>3. QED
    BY <2>1, <2>2
<1>6. tx'.epoch = tx.epoch + 1 /\ tx'.phase = 0 /\ tx'.path = p /\ tx'.known /\ ~tx'.stabilized
  BY <1>1
<1>7. QED
  BY <1>1, <1>3, <1>4, <1>5, <1>6, InitOrder

(* The TAIL: from now on there is a new path.                                  *)
LEMMA SendTailOrder ==
    ASSUME Sound, Order, NEW p \in Paths, SendTail(p)
    PROVE  Order'
<1>1. /\ WireOK /\ TxOK /\ RxOK /\ EndsOK /\ ~tx.expired /\ ~tx.stabilized
      /\ tx.known /\ tx.epoch # 0 /\ tx.phase # 1
      /\ Forward(tx.path, "TAIL", tx.epoch, 0)
      /\ tx' = [tx EXCEPT !.reply = "off", !.phase = 1, !.path = p]
  BY DEF Sound, Shape, SendTail, Begun, Asserted
<1>2. UNCHANGED <<rx, voq, flush, replies, delivered, misordered>>
  BY <1>1 DEF Forward, rxVars, endVars
<1>3. PICK o \in Paths : o = tx.path
  BY <1>1, TxFields
<1>4. tx.phase = 0 /\ tx.epoch \in 1..MaxSeq /\ sent \in 0..MaxSeq
  BY <1>1, TxFields, ThisEpoch DEF TxOK
<1>5. /\ tx'.epoch = tx.epoch /\ tx'.phase = 1 /\ tx'.path = p /\ tx'.known
      /\ ~tx'.stabilized
  BY <1>1, TxFields DEF TxState
<1>6. PICK y \in Packet :
          /\ y.n = sent + 1 /\ y.epoch = tx.epoch /\ y.phase = 0
          /\ On(o)' = On(o) \cup {y}
          /\ \A q \in Paths : q # o => On(q)' = On(q)
  BY <1>1, <1>3, <1>4, Sent
<1>7. (\A q \in Paths : q # o => On(q) = {}) /\ voq = <<>>
  BY <1>3, <1>4 DEF Order, OnePath
<1>8. \A q \in Paths : \A m \in On(q)' : q = o /\ (m \in On(o) \/ m = y)
  BY <1>6, <1>7
<1>9. \A q \in Paths : \A m \in On(q)' : ~New(m)'
  <2>1. \A m \in On(o) : ~New(m)
    BY <1>4 DEF Order, OldBeforeNew
  <2>2. QED
    BY <2>1, <1>5, <1>6, <1>8 DEF New
<1>10. flush = "none" /\ ToSet(voq) = {} /\ DOMAIN voq = {}
  <2>1. ToSet(voq) = {}
    BY <1>1, <1>7, SetOf DEF RxOK
  <2>2. DOMAIN voq = {}
    BY <2>1, <1>1, SetOf DEF RxOK
  <2>3. QED
    BY <2>1, <2>2, <1>7 DEF Sound, Asserted
<1>11. OldBeforeNew'
  BY <1>8, <1>9 DEF OldBeforeNew
<1>12. OnePath' /\ VoqOrder' /\ VoqHeld' /\ FlushedByTail' /\ StabilizedAfterTail'
  BY <1>2, <1>5, <1>7, <1>10
  DEF OnePath, VoqOrder, VoqHeld, FlushedByTail, StabilizedAfterTail
<1>13. DeliveredFirst'
  BY <1>2, <1>6, <1>8, <1>10, Newest DEF Order, DeliveredFirst
<1>14. PhaseEarned'
  BY <1>1, <1>2, <1>5 DEF Order, PhaseEarned
<1>15. TailLast'
  <2>1. \A m \in On(o) : m.flag # "TAIL"
    BY <1>4 DEF Order, TailLast
  <2>2. y.n <= y.n /\ \A x \in On(o) : x.n <= y.n
    BY <1>4, <1>6, Newest, BoundAssumption
  <2>3. QED
    BY <2>1, <2>2, <1>5, <1>6, <1>8 DEF TailLast
<1>16. TailAnswered'
  BY <1>1, <1>2, <1>5 DEF Order, TailAnswered
<1>17. OldIsOld'
  BY <1>2, <1>5, <1>6, <1>8 DEF Order, OldIsOld
<1>18. TxAhead'
  <2>1. /\ rx.epoch <= tx.epoch /\ \A m \in On(o) : m.epoch <= tx.epoch
        /\ \A r \in ToSet(replies) : r.epoch <= tx.epoch
    BY <1>1 DEF Order, TxAhead
  <2>2. \A q \in Paths : \A m \in On(q)' : m.epoch <= tx.epoch
    BY <2>1, <1>4, <1>6, <1>8
  <2>3. QED
    BY <2>1, <2>2, <1>2, <1>5 DEF TxAhead
<1>19. QED
  BY <1>2, <1>11, <1>12, <1>13, <1>14, <1>15, <1>16, <1>17, <1>18 DEF Order

LEMMA SendDataOrder ==
    ASSUME Sound, Order, SendData
    PROVE  Order'
<1>1. /\ WireOK /\ TxOK /\ RxOK /\ EndsOK /\ ~tx.expired /\ ~tx.stabilized
      /\ tx.known /\ tx.epoch # 0 /\ tx' = tx
      /\ Forward(tx.path, "DATA", tx.epoch, tx.phase)
  BY DEF Sound, Shape, SendData, Begun
<1>2. UNCHANGED <<rx, voq, flush, replies, delivered, misordered>>
  BY <1>1 DEF Forward, rxVars, endVars
<1>3. PICK o \in Paths : o = tx.path
  BY <1>1, TxFields
<1>4. tx.phase \in {0, 1} /\ tx.epoch \in 1..MaxSeq /\ sent \in 0..MaxSeq
  BY <1>1, TxFields, ThisEpoch DEF TxOK
<1>5. PICK y \in Packet :
          /\ y.n = sent + 1 /\ y.epoch = tx.epoch /\ y.phase = tx.phase /\ y.flag = "DATA"
          /\ On(o)' = On(o) \cup {y}
          /\ \A q \in Paths : q # o => On(q)' = On(q)
  BY <1>1, <1>3, <1>4, Sent
<1>6. \A q \in Paths : \A m \in On(q)' : m \in On(q) \/ (q = o /\ m = y)
  BY <1>5
<1>7. (New(y) <=> tx.phase = 1) /\ \A m : New(m)' <=> New(m)
  BY <1>1, <1>5 DEF New
<1>8. /\ \A q \in Paths : \A x \in On(q) : x.n < y.n /\ x.n <= y.n
      /\ \A d \in delivered : d < y.n
      /\ \A v \in ToSet(voq) : v < y.n
  BY <1>5, Newest
<1>9. tx.phase = 0 => (\A q \in Paths : \A m \in On(q) : q = o /\ ~New(m)) /\ voq = <<>>
  BY <1>3 DEF Order, OnePath, OldBeforeNew
<1>10. OldBeforeNew'
  <2>1. \A p, q \in Paths : \A m \in On(p)', x \in On(q)' : ~New(m) /\ ~New(x) => p = q
    BY <1>4, <1>6, <1>7, <1>9 DEF Order, OldBeforeNew
  <2>2. \A p \in Paths : \A m \in On(p)' : New(m) => p = tx.path /\ tx.phase = 1
    BY <1>3, <1>4, <1>6, <1>7 DEF Order, OldBeforeNew
  <2>3. \A p, q \in Paths : \A m \in On(p)', x \in On(q)' : ~New(m) /\ New(x) => m.n < x.n
    <3> SUFFICES ASSUME NEW p \in Paths, NEW q \in Paths, NEW m \in On(p)', NEW x \in On(q)',
                        ~New(m), New(x)
                 PROVE  m.n < x.n
      OBVIOUS
    <3>1. m \in On(p)
      <4>1. CASE m = y
        <5>1. tx.phase = 0
          BY <4>1, <1>4, <1>7
        <5>2. x # y
          BY <4>1
        <5>3. QED
          BY <5>1, <5>2, <1>6, <1>9
      <4>2. QED
        BY <4>1, <1>6
    <3>2. CASE x \in On(q)
      BY <3>1, <3>2 DEF Order, OldBeforeNew
    <3>3. CASE x = y
      BY <3>1, <3>3, <1>8
    <3>4. QED
      BY <3>2, <3>3, <1>6
  <2>4. QED
    BY <2>1, <2>2, <2>3, <1>1, <1>7 DEF OldBeforeNew
<1>11. OnePath'
  BY <1>1, <1>2, <1>3, <1>5 DEF Order, OnePath
<1>12. DeliveredFirst'
  BY <1>2, <1>6, <1>8 DEF Order, DeliveredFirst
<1>13. VoqHeld'
  BY <1>1, <1>2 DEF Order, VoqHeld
<1>14. VoqOrder'
  <2>1. ASSUME NEW v \in ToSet(voq), NEW p \in Paths, NEW m \in On(p)'
        PROVE  (New(m) => v < m.n) /\ (~New(m) => m.n < v)
    <3>1. CASE m \in On(p)
      BY <3>1, <2>1 DEF Order, VoqOrder
    <3>2. CASE m = y
      <4>1. voq # <<>>
        BY <2>1, SetOf, <1>1 DEF RxOK
      <4>2. tx.phase = 1
        BY <4>1 DEF Order, VoqHeld
      <4>3. QED
        BY <4>2, <3>2, <1>7, <1>8
    <3>3. QED
      BY <3>1, <3>2, <1>6
  <2>2. QED
    BY <2>1, <1>2, <1>7 DEF Order, VoqOrder
<1>15. tx.phase = 1 /\ AllNew => AllNew'
  BY <1>6, <1>7 DEF AllNew
<1>16. PhaseEarned' /\ TailAnswered' /\ StabilizedAfterTail'
  BY <1>1, <1>2, <1>15 DEF Order, PhaseEarned, TailAnswered, StabilizedAfterTail
<1>17. FlushedByTail'
  <2>1. flush = "now" => tx.phase = 1
    BY DEF Sound, Asserted, Order, VoqHeld
  <2>2. QED
    BY <2>1, <1>2, <1>15 DEF Order, FlushedByTail
<1>18. TailLast'
  <2> SUFFICES ASSUME NEW p \in Paths, NEW m \in On(p)', m.flag = "TAIL"
               PROVE  /\ m.epoch = tx.epoch /\ tx.phase = 1
                      /\ \A q \in Paths : \A x \in On(q)' : ~New(x) => x.n <= m.n
    BY <1>1, <1>7 DEF TailLast
  <2>1. m \in On(p)
    BY <1>5, <1>6
  <2>2. m.epoch = tx.epoch /\ tx.phase = 1
    BY <2>1 DEF Order, TailLast
  <2>3. ASSUME NEW q \in Paths, NEW x \in On(q)', ~New(x) PROVE x.n <= m.n
    <3>1. x \in On(q)
      BY <2>2, <2>3, <1>6, <1>7
    <3>2. QED
      BY <2>1, <2>3, <3>1 DEF Order, TailLast
  <2>4. QED
    BY <2>2, <2>3
<1>19. OldIsOld'
  BY <1>1, <1>2, <1>4, <1>5, <1>6 DEF Order, OldIsOld
<1>20. TxAhead'
  <2>1. /\ rx.epoch <= tx.epoch /\ \A q \in Paths : \A m \in On(q) : m.epoch <= tx.epoch
        /\ \A r \in ToSet(replies) : r.epoch <= tx.epoch
    BY <1>1 DEF Order, TxAhead
  <2>2. \A q \in Paths : \A m \in On(q)' : m.epoch <= tx.epoch
    BY <2>1, <1>4, <1>5, <1>6
  <2>3. QED
    BY <2>1, <2>2, <1>1, <1>2 DEF TxAhead
<1>21. QED
  BY <1>2, <1>10, <1>11, <1>12, <1>13, <1>14, <1>16, <1>17, <1>18, <1>19, <1>20 DEF Order

-----------------------------------------------------------------------------
(* Steps of the receiving switch.                                              *)

(* A packet of the old path, or one of the new path when it is the only one, is *)
(* the oldest of all and is delivered in order.                                *)
LEMMA DeliverHead ==
    ASSUME Sound, Order, NEW p \in Paths, Take(p),
           ~New(Head(wire[p])) \/ (AllNew /\ voq = <<>>),
           Deliver(<<Head(wire[p]).n>>), voq' = voq
    PROVE  ~misordered' /\ DeliveredFirst'
<1> DEFINE h == Head(wire[p])
<1>1. /\ EndsOK /\ WireOK /\ RxOK
      /\ h \in On(p) /\ h.n \in 1..sent /\ sent' = sent
      /\ On(p) = On(p)' \cup {h}
      /\ \A x \in On(p)' : h.n < x.n
      /\ \A q \in Paths : q # p => On(q)' = On(q)
      /\ \A q \in Paths : On(q)' \subseteq On(q)
  BY TakeEffect DEF Sound, Shape
<1>2. delivered' = delivered \cup {h.n} /\ (misordered' => misordered \/ \E d \in delivered : d > h.n)
  BY <1>1, DeliverOne
<1>3. ~New(h) \/ (AllNew /\ voq = <<>>)
  OBVIOUS
<1> HIDE DEF h
<1>4. ~misordered'
  <2>1. \A d \in delivered : d < h.n /\ d \in Nat
    BY <1>1 DEF Order, DeliveredFirst, EndsOK
  <2>2. h.n \in Nat
    BY <1>1
  <2>3. QED
    BY <2>1, <2>2, <1>2 DEF Order
<1>5. ASSUME NEW q \in Paths, NEW x \in On(q)' PROVE h.n < x.n
  <2>1. CASE q = p
    BY <2>1, <1>1, <1>5
  <2>2. CASE q # p
    <3>1. x \in On(q)
      BY <2>2, <1>1
    <3>2. CASE ~New(h)
      <4>1. New(x)
        BY <2>2, <3>1, <3>2, <1>1 DEF Order, OldBeforeNew
      <4>2. QED
        BY <3>1, <3>2, <4>1, <1>1 DEF Order, OldBeforeNew
    <3>3. CASE AllNew
      BY <2>2, <3>1, <3>3, <1>1 DEF AllNew, Order, OldBeforeNew
    <3>4. QED
      BY <3>2, <3>3, <1>3
  <2>3. QED
    BY <2>1, <2>2
<1>6. \A v \in ToSet(voq) : h.n < v
  <2>1. CASE ~New(h)
    BY <2>1, <1>1 DEF Order, VoqOrder
  <2>2. CASE voq = <<>>
    BY <2>2, <1>1, SetOf DEF RxOK
  <2>3. QED
    BY <2>1, <2>2, <1>3
<1>7. DeliveredFirst'
  <2> SUFFICES ASSUME NEW d \in delivered \cup {h.n}
               PROVE  /\ \A q \in Paths : \A x \in On(q)' : d < x.n
                      /\ \A v \in ToSet(voq) : d < v
    BY <1>2 DEF DeliveredFirst
  <2>1. CASE d = h.n
    BY <2>1, <1>5, <1>6
  <2>2. CASE d \in delivered
    BY <2>2, <1>1 DEF Order, DeliveredFirst
  <2>3. QED
    BY <2>1, <2>2
<1>8. QED
  BY <1>4, <1>7

(* What is still on the paths keeps its place.                                 *)
LEMMA TakeKeeps ==
    ASSUME Sound, Order, NEW p \in Paths, Take(p)
    PROVE  /\ OldBeforeNew' /\ TailLast'
           /\ AllNew => AllNew'
           /\ \A m : New(m)' <=> New(m)
           /\ tx.known
<1>1. /\ \A q \in Paths : On(q)' \subseteq On(q)
      /\ tx' = tx /\ Head(wire[p]) \in On(p)
  BY TakeEffect
<1>2. \A m : New(m)' <=> New(m)
  BY <1>1 DEF New
<1>3. OldBeforeNew' /\ TailLast'
  BY <1>1, <1>2 DEF Order, OldBeforeNew, TailLast
<1>4. AllNew => AllNew'
  BY <1>1, <1>2 DEF AllNew
<1>5. tx.known
  BY <1>1 DEF Order, TxAhead
<1>6. QED
  BY <1>2, <1>3, <1>4, <1>5

(* A packet that is sent on while the receiving switch learns nothing new.      *)
LEMMA DeliverOrder ==
    ASSUME Sound, Order, NEW p \in Paths, Take(p),
           ~New(Head(wire[p])) \/ (AllNew /\ voq = <<>>),
           Deliver(<<Head(wire[p]).n>>), UNCHANGED <<voq, flush, replies>>,
           rx'.epoch = rx.epoch, rx'.phase = rx.phase
    PROVE  Order'
<1>1. ~misordered' /\ DeliveredFirst'
  BY DeliverHead
<1>2. /\ \A q \in Paths : On(q)' \subseteq On(q)
      /\ tx' = tx
  BY TakeEffect
<1>3. /\ OldBeforeNew' /\ TailLast' /\ (AllNew => AllNew') /\ \A m : New(m)' <=> New(m)
  BY TakeKeeps
<1>4. OnePath' /\ VoqOrder' /\ VoqHeld'
  BY <1>2, <1>3 DEF Order, OnePath, VoqOrder, VoqHeld
<1>5. PhaseEarned' /\ FlushedByTail' /\ TailAnswered' /\ StabilizedAfterTail'
  BY <1>2, <1>3 DEF Order, PhaseEarned, FlushedByTail, TailAnswered, StabilizedAfterTail
<1>6. OldIsOld' /\ TxAhead'
  BY <1>2 DEF Order, OldIsOld, TxAhead
<1>7. QED
  BY <1>1, <1>3, <1>4, <1>5, <1>6 DEF Order

LEMMA ArriveOldOrder ==
    ASSUME Sound, Order, NEW p \in Paths, ArriveOld(p)
    PROVE  Order'
<1>1. /\ Take(p) /\ Head(wire[p]).epoch < rx.epoch
      /\ Deliver(<<Head(wire[p]).n>>) /\ UNCHANGED <<rx, voq, flush, replies>>
  BY DEF ArriveOld, rxVars
<1>2. tx.known
  BY <1>1, TakeKeeps
<1>3. rx.epoch <= tx.epoch /\ rx.epoch \in Nat /\ tx.epoch \in Nat /\ Head(wire[p]).epoch \in Nat
  BY <1>1, <1>2, TakeEffect, RxFields, TxFields DEF Order, TxAhead, Sound, Shape
<1>4. ~New(Head(wire[p]))
  BY <1>1, <1>3 DEF New
<1>5. QED
  BY <1>1, <1>4, DeliverOrder

(* A packet of the new path waits in the VOQ, behind those that wait there.     *)
LEMMA QueueOrder ==
    ASSUME Sound, Order, NEW p \in Paths, Arrive(p), New(Head(wire[p])),
           ~(rx.epoch = tx.epoch /\ rx.phase = 1)
    PROVE  Order'
<1> DEFINE h == Head(wire[p])
<1>1. /\ Take(p) /\ h.epoch >= rx.epoch /\ PhaseAfter(h) \in {0, 1}
      /\ rx'.epoch = h.epoch /\ rx'.phase = PhaseAfter(h)
      /\ \/ /\ Ahead(h) /\ voq' = Append(voq, h.n) /\ UNCHANGED endVars
         \/ /\ ~Ahead(h) /\ voq' = voq /\ Deliver(<<h.n>>)
      /\ flush' = IF rx.reordering /\ h.phase = 0
                  THEN (IF h.flag = "TAIL" THEN "now" ELSE "later")
                  ELSE IF Ahead(h) /\ ~rx.reordering THEN "later"
                  ELSE flush
      /\ replies' = IF h.flag = "DATA" THEN replies
                    ELSE Append(replies, [flag |-> h.flag, epoch |-> h.epoch])
  BY ArriveEffect
<1>2. /\ WireOK /\ RxOK /\ EndsOK
      /\ h \in On(p) /\ h \in Packet /\ h.n \in 1..sent /\ tx' = tx
      /\ On(p) = On(p)' \cup {h}
      /\ \A x \in On(p)' : h.n < x.n
      /\ \A q \in Paths : On(q)' \subseteq On(q)
  BY <1>1, TakeEffect DEF Sound, Shape
<1>3. /\ OldBeforeNew' /\ TailLast' /\ \A m : New(m)' <=> New(m)
      /\ tx.known
  BY <1>1, TakeKeeps
<1>4. New(h) /\ h.phase = 1 /\ h.epoch = tx.epoch /\ p = tx.path /\ tx.phase = 1
  BY <1>2 DEF New, Order, OldBeforeNew
<1> HIDE DEF h
<1>5. h.flag = "DATA"
  BY <1>2, <1>4 DEF WireOK
<1>6. rx.epoch \in Nat /\ rx.phase \in {0, 1} /\ rx.reordering \in BOOLEAN /\ tx.epoch \in Nat
      /\ voq \in Seq(1..sent)
  BY <1>2, RxFields, TxFields DEF Sound, Shape
<1>7. PhaseAfter(h) = 0
  BY <1>1, <1>4, <1>5, <1>6 DEF PhaseAfter
<1>8. Ahead(h) /\ voq' = Append(voq, h.n) /\ UNCHANGED endVars
  BY <1>1, <1>4, <1>7 DEF Ahead
<1>9. /\ ToSet(voq') = ToSet(voq) \cup {h.n}
      /\ DOMAIN voq' = 1..(Len(voq) + 1) /\ DOMAIN voq = 1..Len(voq) /\ Len(voq) \in Nat
      /\ \A i \in DOMAIN voq : voq'[i] = voq[i]
      /\ voq'[Len(voq) + 1] = h.n
  <2> DEFINE S == 1..sent
  <2>1. h.n \in S /\ voq \in Seq(S) /\ voq' = Append(voq, h.n)
    BY <1>2, <1>6, <1>8
  <2> HIDE DEF S
  <2>2. QED
    BY <2>1, SetOfAppend
<1>10. rx'.epoch = tx.epoch /\ rx'.phase = 0 /\ replies' = replies
  BY <1>1, <1>4, <1>5, <1>7
<1>11. \A v \in ToSet(voq) : v < h.n
  BY <1>2, <1>4 DEF Order, VoqOrder
<1>12. flush = "now" => flush' = "now"
  <2>1. flush = "now" => rx.reordering
    BY <1>6 DEF Sound, Asserted
  <2>2. QED
    BY <2>1, <1>1, <1>4
<1>13. flush' = "now" => flush = "now"
  BY <1>1, <1>4
<1>14. OnePath' /\ VoqHeld' /\ PhaseEarned'
  BY <1>2, <1>4, <1>10 DEF OnePath, VoqHeld, PhaseEarned
<1>15. DeliveredFirst' /\ ~misordered'
  BY <1>2, <1>8, <1>9 DEF Order, DeliveredFirst, endVars
<1>16. VoqOrder'
  <2>1. ASSUME NEW i \in DOMAIN voq', NEW j \in DOMAIN voq', i < j PROVE voq'[i] < voq'[j]
    <3>1. i \in 1..Len(voq) /\ voq'[i] = voq[i] /\ voq[i] \in ToSet(voq)
      <4>1. i \in 1..Len(voq)
        BY <2>1, <1>9
      <4>2. QED
        BY <4>1, <1>6, <1>9, SetOf
    <3>2. CASE j \in 1..Len(voq)
      BY <3>1, <3>2, <2>1, <1>9 DEF Order, VoqOrder
    <3>3. CASE j = Len(voq) + 1
      BY <3>1, <3>3, <1>9, <1>11
    <3>4. QED
      BY <3>2, <3>3, <1>9, <2>1
  <2>2. ASSUME NEW v \in ToSet(voq'), NEW q \in Paths, NEW x \in On(q)'
        PROVE  (New(x) => v < x.n) /\ (~New(x) => x.n < v)
    <3>1. CASE v \in ToSet(voq)
      BY <3>1, <1>2, <2>2 DEF Order, VoqOrder
    <3>2. CASE v = h.n
      <4>1. CASE New(x)
        <5>1. q = p
          BY <4>1, <1>2, <1>4, <2>2 DEF Order, OldBeforeNew
        <5>2. QED
          BY <5>1, <3>2, <4>1, <1>2, <2>2
      <4>2. CASE ~New(x)
        BY <3>2, <4>2, <1>2, <1>4, <2>2 DEF Order, OldBeforeNew
      <4>3. QED
        BY <4>1, <4>2
    <3>3. QED
      BY <3>1, <3>2, <1>9, <2>2
  <2>3. QED
    BY <2>1, <2>2, <1>3 DEF VoqOrder
<1>17. FlushedByTail' /\ TailAnswered' /\ StabilizedAfterTail'
  <2>1. AllNew => AllNew'
    BY <1>2, <1>3 DEF AllNew
  <2>2. QED
    BY <2>1, <1>2, <1>10, <1>12, <1>13
    DEF Order, FlushedByTail, TailAnswered, StabilizedAfterTail
<1>18. OldIsOld'
  BY <1>2, <1>10 DEF OldIsOld
<1>19. TxAhead'
  BY <1>2, <1>3, <1>6, <1>10 DEF Order, TxAhead
<1>20. QED
  BY <1>3, <1>14, <1>15, <1>16, <1>17, <1>18, <1>19 DEF Order

(* The new path is the only one: its packets go through.                       *)
LEMMA ThroughOrder ==
    ASSUME Sound, Order, NEW p \in Paths, Arrive(p), New(Head(wire[p])),
           rx.epoch = tx.epoch, rx.phase = 1
    PROVE  Order'
<1> DEFINE h == Head(wire[p])
<1>1. /\ Take(p) /\ rx'.epoch = h.epoch /\ rx'.phase = PhaseAfter(h)
      /\ \/ /\ Ahead(h) /\ voq' = Append(voq, h.n) /\ UNCHANGED endVars
         \/ /\ ~Ahead(h) /\ voq' = voq /\ Deliver(<<h.n>>)
      /\ flush' = IF rx.reordering /\ h.phase = 0
                  THEN (IF h.flag = "TAIL" THEN "now" ELSE "later")
                  ELSE IF Ahead(h) /\ ~rx.reordering THEN "later"
                  ELSE flush
      /\ replies' = IF h.flag = "DATA" THEN replies
                    ELSE Append(replies, [flag |-> h.flag, epoch |-> h.epoch])
  BY ArriveEffect
<1>2. /\ WireOK /\ RxOK /\ h \in On(p)
      /\ h.phase = 1 /\ h.epoch = tx.epoch /\ tx.known
  BY <1>1, TakeEffect, TakeKeeps DEF Sound, Shape, New
<1> HIDE DEF h
<1>3. h.flag = "DATA"
  BY <1>2 DEF WireOK
<1>4. AllNew /\ voq = <<>>
  BY <1>2 DEF Order, PhaseEarned
<1>5. rx.epoch \in Nat /\ rx.reordering \in BOOLEAN
  BY <1>2, RxFields
<1>6. PhaseAfter(h) = 1
  BY <1>2, <1>3, <1>5 DEF PhaseAfter
<1>7. ~Ahead(h)
  BY <1>2, <1>6 DEF Ahead
<1>8. ~rx.reordering
  BY <1>4, <1>5 DEF Sound, Asserted
<1>9. /\ UNCHANGED <<voq, flush, replies>> /\ Deliver(<<h.n>>)
      /\ rx'.epoch = rx.epoch /\ rx'.phase = rx.phase
  BY <1>1, <1>2, <1>3, <1>6, <1>7, <1>8
<1>10. QED
  BY <1>1, <1>4, <1>9, DeliverOrder DEF h

(* A packet of the old path goes through, and the TAIL ends the old path.      *)
LEMMA OldPathOrder ==
    ASSUME Sound, Order, NEW p \in Paths, Arrive(p), ~New(Head(wire[p]))
    PROVE  Order'
<1> DEFINE h == Head(wire[p])
<1>1. /\ Take(p) /\ h.epoch >= rx.epoch /\ PhaseAfter(h) \in {0, 1}
      /\ rx'.epoch = h.epoch /\ rx'.phase = PhaseAfter(h)
      /\ \/ /\ Ahead(h) /\ voq' = Append(voq, h.n) /\ UNCHANGED endVars
         \/ /\ ~Ahead(h) /\ voq' = voq /\ Deliver(<<h.n>>)
      /\ flush' = IF rx.reordering /\ h.phase = 0
                  THEN (IF h.flag = "TAIL" THEN "now" ELSE "later")
                  ELSE IF Ahead(h) /\ ~rx.reordering THEN "later"
                  ELSE flush
      /\ replies' = IF h.flag = "DATA" THEN replies
                    ELSE Append(replies, [flag |-> h.flag, epoch |-> h.epoch])
  BY ArriveEffect
<1>2. /\ WireOK /\ RxOK /\ EndsOK
      /\ h \in On(p) /\ h \in Packet /\ h.n \in 1..sent /\ tx' = tx
      /\ h.epoch \in 1..MaxSeq /\ h.phase \in {0, 1}
      /\ On(p) = On(p)' \cup {h}
      /\ \A x \in On(p)' : h.n < x.n
      /\ \A q \in Paths : On(q)' \subseteq On(q)
  BY <1>1, TakeEffect DEF Sound, Shape
<1>3. /\ OldBeforeNew' /\ TailLast' /\ \A m : New(m)' <=> New(m)
      /\ tx.known
  BY <1>1, TakeKeeps
<1>4. ~New(h)
  OBVIOUS
<1>5. Deliver(<<h.n>>) /\ voq' = voq => ~misordered' /\ DeliveredFirst'
  BY <1>1, DeliverHead
<1> HIDE DEF h
<1>6. /\ rx.epoch \in Nat /\ rx.phase \in {0, 1} /\ rx.reordering \in BOOLEAN /\ tx.epoch \in Nat
      /\ h.epoch \in Nat
  BY <1>2, RxFields, TxFields, BoundAssumption DEF Sound, Shape
<1>7. rx.epoch <= h.epoch /\ h.epoch <= tx.epoch
  BY <1>1, <1>2, <1>3, <1>6 DEF Order, TxAhead
<1>8. h.flag # "DATA" => h.phase = 0
  BY <1>2 DEF WireOK
<1>9. voq # <<>> <=> rx.reordering
  BY <1>6 DEF Sound, Asserted
<1>10. ~Ahead(h)
  <2>1. CASE h.phase = 0
    BY <2>1, <1>1 DEF Ahead
  <2>2. CASE h.phase = 1
    <3>1. h.epoch < tx.epoch
      BY <2>2, <1>4, <1>6, <1>7 DEF New
    <3>2. h.epoch = rx.epoch /\ rx.phase = 1
      <4>1. h.epoch < rx.epoch \/ (h.epoch = rx.epoch /\ rx.phase = 1)
        BY <3>1, <2>2, <1>2 DEF Order, OldIsOld
      <4>2. QED
        BY <4>1, <1>6, <1>7
    <3>3. PhaseAfter(h) = 1
      BY <3>2, <1>6 DEF PhaseAfter
    <3>4. QED
      BY <3>3, <2>2 DEF Ahead
  <2>3. QED
    BY <2>1, <2>2, <1>2
<1>11. voq' = voq /\ ~misordered' /\ DeliveredFirst'
  BY <1>1, <1>5, <1>10
<1>12. ~AllNew
  BY <1>2, <1>4 DEF AllNew
<1>13. h.flag = "TAIL" => h.epoch = tx.epoch /\ tx.phase = 1 /\ AllNew'
  <2>1. SUFFICES ASSUME h.flag = "TAIL"
                 PROVE  h.epoch = tx.epoch /\ tx.phase = 1 /\ AllNew'
    OBVIOUS
  <2>2. /\ h.epoch = tx.epoch /\ tx.phase = 1
        /\ \A q \in Paths : \A x \in On(q) : ~New(x) => x.n <= h.n
    BY <2>1, <1>2 DEF Order, TailLast
  <2>3. ASSUME NEW q \in Paths, NEW x \in On(q)' PROVE New(x)
    <3>1. SUFFICES ASSUME ~New(x) PROVE FALSE
      OBVIOUS
    <3>2. x \in On(q) /\ x.n <= h.n
      BY <3>1, <2>2, <2>3, <1>2
    <3>3. q = p
      BY <3>1, <3>2, <1>2, <1>4 DEF Order, OldBeforeNew
    <3>4. x.n > h.n
      BY <3>3, <2>3, <1>2
    <3>5. x.n \in Int
      BY <3>2, OnPath, <1>2 DEF WireOK, On
    <3>6. QED
      BY <3>2, <3>4, <3>5, <1>2
  <2>4. QED
    BY <2>2, <2>3, <1>3 DEF AllNew
<1>14. voq # <<>> => tx.phase = 1 /\ h.epoch = tx.epoch /\ rx.epoch = tx.epoch /\ PhaseAfter(h) = 0
  <2>1. SUFFICES ASSUME voq # <<>>
                 PROVE  tx.phase = 1 /\ h.epoch = tx.epoch /\ rx.epoch = tx.epoch /\ PhaseAfter(h) = 0
    OBVIOUS
  <2>2. tx.phase = 1 /\ rx.epoch = tx.epoch /\ rx.phase = 0
    BY <2>1 DEF Order, VoqHeld
  <2>3. h.epoch = rx.epoch
    BY <2>2, <1>6, <1>7
  <2>4. PhaseAfter(h) = 0
    BY <2>1, <2>2, <2>3, <1>6, <1>9 DEF PhaseAfter
  <2>5. QED
    BY <2>2, <2>3, <2>4
<1>15. OnePath' /\ VoqOrder' /\ VoqHeld'
  BY <1>1, <1>2, <1>3, <1>11, <1>14 DEF Order, OnePath, VoqOrder, VoqHeld
<1>16. PhaseEarned'
  <2>1. SUFFICES ASSUME h.epoch = tx.epoch, PhaseAfter(h) = 1
                 PROVE  tx.phase = 1 /\ AllNew' /\ voq = <<>>
    BY <1>1, <1>2, <1>11 DEF PhaseEarned
  <2>2. h.flag = "TAIL"
    <3>1. SUFFICES ASSUME h.flag # "TAIL" PROVE FALSE
      OBVIOUS
    <3>2. rx.phase = 1 /\ ~(h.epoch > rx.epoch)
      BY <3>1, <2>1 DEF PhaseAfter
    <3>3. rx.epoch = tx.epoch
      BY <3>2, <2>1, <1>6, <1>7
    <3>4. QED
      BY <3>2, <3>3, <1>3, <1>12 DEF Order, PhaseEarned
  <2>3. QED
    BY <2>1, <2>2, <1>13, <1>14
<1>17. FlushedByTail' /\ StabilizedAfterTail'
  <2>1. flush' = "now" => h.flag = "TAIL"
    BY <1>1, <1>12 DEF Order, FlushedByTail
  <2>2. ~(tx.stabilized /\ tx.phase = 1 /\ ~tx.expired)
    BY <1>12 DEF Order, StabilizedAfterTail
  <2>3. QED
    BY <2>1, <2>2, <1>2, <1>13 DEF FlushedByTail, StabilizedAfterTail
<1>18. h.flag # "DATA" =>
          ToSet(replies') = ToSet(replies) \cup {[flag |-> h.flag, epoch |-> h.epoch]}
  <2>1. ASSUME h.flag # "DATA" PROVE [flag |-> h.flag, epoch |-> h.epoch] \in ReplyTag
    BY <2>1, <1>2 DEF Packet, ReplyTag
  <2>2. QED
    BY <2>1, <1>1, <1>2, SetOfAppend DEF EndsOK
<1>19. TailAnswered'
  <2>1. ASSUME NEW r \in ToSet(replies'), r.flag = "TAIL", r.epoch = tx.epoch
        PROVE  /\ tx.phase = 1 /\ AllNew'
               /\ flush' = "now" \/ (rx'.epoch = tx.epoch /\ rx'.phase = 1)
    <3>1. r \notin ToSet(replies)
      BY <2>1, <1>12 DEF Order, TailAnswered
    <3>2. h.flag # "DATA" /\ r = [flag |-> h.flag, epoch |-> h.epoch]
      BY <3>1, <2>1, <1>1, <1>18
    <3>3. h.flag = "TAIL"
      BY <3>2, <2>1
    <3>4. h.epoch = tx.epoch /\ tx.phase = 1 /\ AllNew'
      BY <3>3, <1>13
    <3>5. CASE rx.reordering
      BY <3>3, <3>4, <3>5, <1>1, <1>8
    <3>6. CASE ~rx.reordering
      BY <3>3, <3>4, <3>6, <1>1 DEF PhaseAfter
    <3>7. QED
      BY <3>4, <3>5, <3>6
  <2>2. QED
    BY <2>1, <1>2 DEF TailAnswered
<1>20. OldIsOld'
  <2>1. ASSUME NEW q \in Paths, NEW m \in On(q)', m.phase = 1, m.epoch < tx.epoch
        PROVE  m.epoch < h.epoch \/ (m.epoch = h.epoch /\ PhaseAfter(h) = 1)
    <3>1. m \in On(q)
      BY <2>1, <1>2
    <3>2. m.epoch \in Nat
      BY <3>1, OnPath, <1>2, BoundAssumption DEF WireOK, On
    <3>3. m.epoch < rx.epoch \/ (m.epoch = rx.epoch /\ rx.phase = 1)
      BY <3>1, <2>1 DEF Order, OldIsOld
    <3>4. CASE m.epoch < rx.epoch \/ h.epoch > rx.epoch
      BY <3>2, <3>3, <3>4, <1>6, <1>7
    <3>5. CASE m.epoch = rx.epoch /\ rx.phase = 1 /\ h.epoch = rx.epoch
      BY <3>5, <1>6 DEF PhaseAfter
    <3>6. QED
      BY <3>3, <3>4, <3>5, <1>6, <1>7
  <2>2. QED
    BY <2>1, <1>1, <1>2 DEF OldIsOld
<1>21. TxAhead'
  <2>1. \A r \in ToSet(replies') : r.epoch <= tx.epoch
    <3>1. ASSUME NEW r \in ToSet(replies') PROVE r.epoch <= tx.epoch
      <4>1. CASE r \in ToSet(replies)
        BY <4>1, <1>3 DEF Order, TxAhead
      <4>2. CASE r = [flag |-> h.flag, epoch |-> h.epoch]
        BY <4>2, <1>7
      <4>3. QED
        BY <4>1, <4>2, <3>1, <1>1, <1>18
    <3>2. QED
      BY <3>1
  <2>2. rx'.epoch <= tx.epoch
    BY <1>1, <1>7
  <2>3. \A q \in Paths : \A m \in On(q)' : m.epoch <= tx.epoch
    BY <1>2, <1>3 DEF Order, TxAhead
  <2>4. QED
    BY <2>1, <2>2, <2>3, <1>2, <1>3 DEF TxAhead
<1>22. QED
  BY <1>3, <1>11, <1>15, <1>16, <1>17, <1>19, <1>20, <1>21 DEF Order

LEMMA ArriveOrder ==
    ASSUME Sound, Order, NEW p \in Paths, Arrive(p)
    PROVE  Order'
BY ThroughOrder, QueueOrder, OldPathOrder

(* A flush that is no fault comes when nothing is left on the old path.        *)
LEMMA FlushOrder ==
    ASSUME Sound, Order, FlushVOQ, Calm'
    PROVE  Order'
<1>1. /\ flush # "none" /\ voq # <<>>
      /\ faults' = faults \cup {k \in {"flush"} : flush = "later" /\
                       \E m \in OnWire : \E n \in ToSet(voq) : m.n < n}
      /\ rx'.epoch = rx.epoch /\ rx'.phase = 1
      /\ Deliver(voq) /\ voq' = <<>> /\ flush' = "none"
      /\ UNCHANGED <<tx, sent, wire, replies, lost>>
  BY FlushEffect
<1>2. WireOK /\ RxOK /\ EndsOK /\ voq \in Seq(1..sent) /\ flush \in {"none", "later", "now"}
  BY RxFields DEF Sound, Shape
<1>3. /\ \A p \in Paths : On(p)' = On(p)
      /\ \A m : New(m)' <=> New(m)
      /\ AllNew' <=> AllNew
  BY <1>1 DEF On, New, AllNew
<1>4. AllNew
  <2>1. CASE flush = "now"
    BY <2>1 DEF Order, FlushedByTail
  <2>2. CASE flush = "later"
    <3>1. ~\E m \in OnWire : \E n \in ToSet(voq) : m.n < n
      BY <2>2, <1>1 DEF Calm
    <3>2. PICK v \in ToSet(voq) : TRUE
      BY <1>1, <1>2, SetOf
    <3>3. ASSUME NEW p \in Paths, NEW m \in On(p), ~New(m) PROVE FALSE
      <4>1. m \in OnWire
        BY <3>3 DEF OnWire, On
      <4>2. m.n < v
        BY <3>2, <3>3 DEF Order, VoqOrder
      <4>3. QED
        BY <3>1, <3>2, <4>1, <4>2
    <3>4. QED
      BY <3>3 DEF AllNew
  <2>3. QED
    BY <2>1, <2>2, <1>1, <1>2
<1>5. tx.phase = 1 /\ rx.epoch = tx.epoch
  BY <1>1 DEF Order, VoqHeld
<1>6. delivered' = delivered \cup ToSet(voq)
  BY <1>1, <1>2, DeliverAll
<1>7. ~misordered'
  <2>1. \A i \in DOMAIN voq : voq[i] \in ToSet(voq) /\ voq[i] \in 1..sent
    <3>1. ToSet(voq) \subseteq 1..sent /\ \A i \in DOMAIN voq : voq[i] \in ToSet(voq)
      BY <1>2, SetOf
    <3>2. QED
      BY <3>1
  <2>2. \A i \in DOMAIN voq : \A d \in delivered : ~(d > voq[i])
    BY <2>1, <1>2 DEF Order, DeliveredFirst, EndsOK
  <2>3. \A i \in DOMAIN voq : \A j \in 1..(i - 1) : ~(voq[j] > voq[i])
    <3>1. DOMAIN voq = 1..Len(voq) /\ Len(voq) \in Nat
      BY <1>2, LenProperties
    <3>2. ASSUME NEW i \in DOMAIN voq, NEW j \in 1..(i - 1) PROVE ~(voq[j] > voq[i])
      <4>1. j \in DOMAIN voq /\ j < i
        BY <3>1, <3>2
      <4>2. voq[j] < voq[i]
        BY <4>1, <3>2 DEF Order, VoqOrder
      <4>3. voq[i] \in Int /\ voq[j] \in Int
        BY <4>1, <3>2, <2>1
      <4>4. QED
        BY <4>2, <4>3
    <3>3. QED
      BY <3>2
  <2>4. ~misordered
    BY DEF Order
  <2>5. QED
    BY <2>2, <2>3, <2>4, <1>1, <1>2, DeliverAll
<1>8. ToSet(voq') = {} /\ DOMAIN voq' = {}
  BY <1>1 DEF ToSet
<1>9. DeliveredFirst'
  <2>1. ASSUME NEW d \in delivered \cup ToSet(voq), NEW p \in Paths, NEW m \in On(p) PROVE d < m.n
    <3>1. CASE d \in delivered
      BY <2>1, <3>1 DEF Order, DeliveredFirst
    <3>2. CASE d \in ToSet(voq)
      BY <2>1, <3>2, <1>4 DEF AllNew, Order, VoqOrder
    <3>3. QED
      BY <3>1, <3>2
  <2>2. QED
    BY <2>1, <1>3, <1>6, <1>8 DEF DeliveredFirst
<1>10. OldBeforeNew' /\ TailLast'
  BY <1>1, <1>3 DEF Order, OldBeforeNew, TailLast
<1>11. OnePath' /\ VoqHeld' /\ PhaseEarned' /\ FlushedByTail' /\ StabilizedAfterTail'
  BY <1>1, <1>3, <1>4, <1>5
  DEF OnePath, VoqHeld, PhaseEarned, FlushedByTail, StabilizedAfterTail
<1>12. VoqOrder'
  BY <1>8 DEF VoqOrder
<1>13. TailAnswered'
  BY <1>1, <1>3, <1>4, <1>5 DEF TailAnswered
<1>14. OldIsOld'
  BY <1>1, <1>3 DEF Order, OldIsOld
<1>15. TxAhead'
  BY <1>1, <1>3 DEF Order, TxAhead
<1>16. QED
  BY <1>7, <1>9, <1>10, <1>11, <1>12, <1>13, <1>14, <1>15 DEF Order

LEMMA InitCalm == Init => Order
<1> SUFFICES ASSUME Init PROVE Order
  OBVIOUS
<1>1. \A p \in Paths : On(p) = {}
  <2>1. ToSet(<<>>) = {}
    BY DEF ToSet
  <2>2. QED
    BY <2>1 DEF Init, On
<1>2. ToSet(voq) = {} /\ DOMAIN voq = {} /\ ToSet(replies) = {} /\ delivered = {}
  BY DEF Init, ToSet
<1>3. /\ tx = NewTx /\ tx.expired /\ ~tx.known
      /\ voq = <<>> /\ replies = <<>> /\ flush = "none" /\ ~misordered
  BY NewTxType DEF Init, NewTx
<1>4. OldBeforeNew /\ OnePath /\ TailLast /\ OldIsOld /\ TxAhead
  BY <1>1, <1>3 DEF OldBeforeNew, OnePath, TailLast, OldIsOld, TxAhead
<1>5. DeliveredFirst /\ VoqOrder /\ VoqHeld /\ TailAnswered
  BY <1>2, <1>3 DEF DeliveredFirst, VoqOrder, VoqHeld, TailAnswered
<1>6. PhaseEarned /\ FlushedByTail /\ StabilizedAfterTail
  BY <1>3 DEF PhaseEarned, FlushedByTail, StabilizedAfterTail
<1>7. QED
  BY <1>3, <1>4, <1>5, <1>6 DEF Order

LEMMA StepOrder == Sound /\ (Calm => Order) /\ [Next]_vars => (Calm' => Order')
<1> SUFFICES ASSUME Sound, Calm => Order, [Next]_vars, Calm' PROVE Order'
  OBVIOUS
<1>1. Order
  BY FaultsGrow DEF Calm
<1>2. CASE UNCHANGED vars
  <2>1. UNCHANGED <<tx, rxVars, wire, replies, endVars>>
    BY <1>2 DEF vars
  <2>2. StabilizedAfterTail'
    BY <2>1, <1>1, SameStabilized DEF On, rxVars
  <2>3. QED
    BY <2>1, <2>2, <1>1, LessOrder DEF On
<1>3. QED
  BY <1>1, <1>2, SendExpiredOrder, SendTailOrder, ArriveOldOrder, ArriveOrder, PauseOrder,
     SendStabilizedOrder, SendDataOrder, ReceiveReplyOrder, FlushOrder, AgeOrder, LoseOrder
  DEF Next

(* The purpose of ConWeave, for every number of paths and packets: losses never *)
(* put packets out of order, nor does rerouting; only a pause that is too long, *)
(* a flush that is too early and an entry that aged at one switch do.           *)
THEOREM OrderKept == Spec => []InOrder
<1> DEFINE Inv == Sound /\ (Calm => Order)
<1>1. Init => Inv
  BY InitSound, InitCalm
<1>2. Inv /\ [Next]_vars => Inv'
  BY StepSound, StepOrder
<1>3. Inv => InOrder
  BY DEF Order, InOrder, Calm
<1> HIDE DEF Inv
<1>4. QED
  BY <1>1, <1>2, <1>3, PTL DEF Spec

-----------------------------------------------------------------------------
(* The assertions of the code.                                                 *)
Kinds == IsFiniteSet(faults) /\ Cardinality(faults) <= MaxFaults

LEMMA StepKinds == Sound /\ Kinds /\ [Next]_vars => Kinds'
<1> SUFFICES ASSUME Sound, Kinds, [Next]_vars PROVE Kinds'
  OBVIOUS
<1>1. ASSUME NEW ks, IsFiniteSet(ks), Blame(ks) PROVE Kinds'
  BY <1>1, FS_Union DEF Blame, Kinds
<1>2. ASSUME faults' = faults PROVE Kinds'
  BY <1>2 DEF Kinds
<1>3. \A a, b : IsFiniteSet({a}) /\ IsFiniteSet({a, b})
  <2>1. ASSUME NEW a, NEW b PROVE IsFiniteSet({a}) /\ IsFiniteSet({a, b})
    <3>1. {a, b} = {a} \cup {b}
      OBVIOUS
    <3>2. IsFiniteSet({a})
      BY FS_Singleton
    <3>3. IsFiniteSet({a} \cup {b})
      BY <3>2, FS_AddElement
    <3>4. QED
      BY <3>1, <3>2, <3>3
  <2>2. QED
    BY <2>1
<1>4. \A a, b : \A T : T \subseteq {a, b} => IsFiniteSet(T)
  BY <1>3, FS_Subset
<1>5. CASE \E p \in Paths : SendExpired(p)
  <2>1. PICK p \in Paths : SendExpired(p)
    BY <1>5
  <2>2. IsFiniteSet({k \in {"expiry", "aged"} :
                        \/ k = "expiry" /\ tx.known /\ ~Quiet
                        \/ k = "aged" /\ ~tx.known /\ rx # NewRx})
    BY <1>4
  <2>3. QED
    BY <2>1, <2>2, <1>1 DEF SendExpired
<1>6. CASE FlushVOQ
  <2>1. IsFiniteSet({k \in {"flush"} : flush = "later" /\
                        \E m \in OnWire : \E n \in ToSet(voq) : m.n < n})
    BY <1>3, FS_Subset
  <2>2. QED
    BY <2>1, <1>1, <1>6 DEF FlushVOQ
<1>7. CASE Lose
  BY <1>7, <1>1, <1>3 DEF Lose
<1>8. CASE \E p \in Paths : SendTail(p) \/ ArriveOld(p) \/ Arrive(p)
  BY <1>8, <1>2 DEF SendTail, ArriveOld, Arrive, Take
<1>9. CASE Pause \/ SendStabilized \/ SendData \/ ReplyDeadline \/ ReceiveReply
  BY <1>9, <1>2 DEF Pause, SendStabilized, SendData, ReplyDeadline, ReceiveReply
<1>10. CASE AgeTx \/ AgeRx \/ UNCHANGED vars
  BY <1>10, <1>2 DEF AgeTx, AgeRx, vars
<1>11. QED
  BY <1>5, <1>6, <1>7, <1>8, <1>9, <1>10 DEF Next

(* The assertions of the code hold as long as either no packet was lost, or     *)
(* nothing but losses happened: it takes a lost INIT and a disagreement of the  *)
(* two switches for a VOQ to exist in phase 1.                                  *)
AssertionsNeed == "loss" \notin faults \/ Calm => AssertionsHold

THEOREM AssertionsKept == Spec => []AssertionsNeed
<1> DEFINE Inv ==
        /\ Sound
        /\ "loss" \notin faults => NoLossOrder
        /\ Calm => Order
<1>1. Init => Inv
  <2> SUFFICES ASSUME Init PROVE Inv
    OBVIOUS
  <2>1. \A p \in Paths : On(p) = {}
    <3>1. ToSet(<<>>) = {}
      BY DEF ToSet
    <3>2. QED
      BY <3>1 DEF Init, On
  <2>2. tx.expired /\ tx.phase # 1 /\ rx.reordering = FALSE
    BY NewTxType, NewRxType DEF Init
  <2>3. NoLossOrder
    BY <2>1, <2>2 DEF NoLossOrder, Announced, TailFollowsInit, Reordered
  <2>4. QED
    BY <2>3, InitSound, InitCalm
<1>2. Inv /\ [Next]_vars => Inv'
  BY StepSound, StepOrder, StepAnnounced
<1>3. Inv => AssertionsNeed
  <2> SUFFICES ASSUME Inv, "loss" \notin faults \/ Calm PROVE AssertionsHold
    BY DEF AssertionsNeed
  <2>1. Asserted /\ RxOK
    BY DEF Sound, Shape
  <2>2. rx.reordering => rx.phase = 0
    <3>1. CASE "loss" \notin faults
      BY <3>1 DEF NoLossOrder, Reordered
    <3>2. CASE Calm
      <4>1. rx.reordering => voq # <<>>
        BY <2>1, RxFields DEF Asserted
      <4>2. QED
        BY <4>1, <3>2 DEF Order, VoqHeld
    <3>3. QED
      BY <3>1, <3>2
  <2>3. QED
    BY <2>1, <2>2 DEF AssertionsHold, Asserted
<1> HIDE DEF Inv
<1>4. QED
  BY <1>1, <1>2, <1>3, PTL DEF Spec

(* So they hold in every behaviour with one kind of fault.                      *)
THEOREM OneFault ==
    ASSUME MaxFaults <= 1
    PROVE  Spec => []AssertionsHold
<1>1. Init => Kinds
  BY FS_EmptySet, BoundAssumption DEF Init, Kinds
<1>2. Sound /\ Kinds /\ AssertionsNeed => AssertionsHold
  <2> SUFFICES ASSUME Sound, Kinds, AssertionsNeed PROVE AssertionsHold
    OBVIOUS
  <2>1. SUFFICES ASSUME "loss" \in faults PROVE Calm
    BY DEF AssertionsNeed
  <2>2. ASSUME NEW k \in faults, k # "loss" PROVE FALSE
    <3>1. {"loss", k} \subseteq faults
      BY <2>1, <2>2
    <3>2. IsFiniteSet({"loss"}) /\ Cardinality({"loss"}) = 1
      BY FS_Singleton
    <3>3. {"loss", k} = {"loss"} \cup {k}
      OBVIOUS
    <3>4. IsFiniteSet({"loss", k}) /\ Cardinality({"loss", k}) = 2
      BY <2>2, <3>2, <3>3, FS_AddElement
    <3>5. 2 <= Cardinality(faults) /\ Cardinality(faults) \in Nat
      BY <3>1, <3>4, FS_Subset, FS_CardinalityType DEF Kinds
    <3>6. QED
      BY <3>5, BoundAssumption DEF Kinds
  <2>3. QED
    BY <2>2 DEF Calm
<1>3. QED
  BY <1>1, <1>2, InitSound, StepSound, StepKinds, AssertionsKept, PTL DEF Spec

=============================================================================
