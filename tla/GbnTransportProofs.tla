------------------------- MODULE GbnTransportProofs -------------------------
(* Proofs about GbnTransport for every size of the flow, every window and     *)
(* every bound: what the receiver and the sender believe of each other, that  *)
(* a flow which waits has something to wait for, and that go back N           *)
(* implements ReliableTransfer.                                               *)
EXTENDS GbnTransport, TLAPS

\* A flow that is not open has sent nothing, and the receive QP is gone exactly when
\* the flow is complete.
Opened ==
    /\ qp = "new" => una = 0 /\ nxt = 0 /\ \A s \in Packets : data[s] = 0
    /\ qp = "done" <=> rx = "gone"
    /\ qp = "done" => una = Size

\* The inductive invariant.
IInv == TypeOK /\ Opened /\ Cumulative /\ NotStranded

(* Lookups of the bags of packets and of replies.                             *)
LEMMA ReplyBag ==
    ASSUME NEW B \in [Reply -> Nat], NEW m \in Reply
    PROVE  /\ Add(B, m) \in [Reply -> Nat]
           /\ Add(B, m)[m] > 0
           /\ \A n \in Reply : Add(B, m)[n] > 0 => n = m \/ B[n] > 0
           /\ \A n \in Reply : B[n] > 0 => Add(B, m)[n] > 0
           /\ B[m] > 0 => /\ Remove(B, m) \in [Reply -> Nat]
                          /\ \A n \in Reply : Remove(B, m)[n] > 0 => B[n] > 0
                          /\ \A n \in Reply : n # m => Remove(B, m)[n] = B[n]
BY DEF Add, Remove

LEMMA PacketBag ==
    ASSUME NEW B \in [Packets -> Nat], NEW s \in Packets
    PROVE  /\ Add(B, s) \in [Packets -> Nat]
           /\ Add(B, s)[s] > 0
           /\ \A n \in Packets : B[n] > 0 => Add(B, s)[n] > 0
           /\ B[s] > 0 => /\ Remove(B, s) \in [Packets -> Nat]
                          /\ \A n \in Packets : Remove(B, s)[n] > 0 => B[n] > 0
                          /\ \A n \in Packets : n # s => Remove(B, s)[n] = B[n]
BY DEF Add, Remove

LEMMA LargerFact ==
    ASSUME NEW a \in 0..Size, NEW b \in 0..Size
    PROVE  /\ Larger(a, b) \in 0..Size
           /\ a <= Larger(a, b) /\ b <= Larger(a, b)
           /\ Larger(a, b) = a \/ Larger(a, b) = b
BY SizeAssumption DEF Larger

-----------------------------------------------------------------------------
LEMMA InitIInv == Init => IInv
<1> SUFFICES ASSUME Init PROVE IInv
  OBVIOUS
<1>1. TypeOK
  <2>1. timer \in BOOLEAN /\ untimed \in BOOLEAN
    BY DEF Init
  <2>2. data \in [Packets -> Nat] /\ replies \in [Reply -> Nat]
    BY DEF Init, None
  <2>3. /\ una \in 0..Size /\ nxt \in 0..Size /\ expected \in 0..Size
        /\ lastNack \in -1..Size /\ losses \in 0..MaxLoss
    BY SizeAssumption, BoundAssumption DEF Init
  <2>4. QED
    BY <2>1, <2>2, <2>3 DEF Init, TypeOK
<1>2. Opened
  BY DEF Init, Opened
<1>3. Cumulative
  BY DEF Init, Cumulative, None
<1>4. NotStranded
  BY DEF Init, NotStranded
<1>5. QED
  BY <1>1, <1>2, <1>3, <1>4 DEF IInv

(* The flow is opened: it has nothing on the fly.                             *)
LEMMA OpenKeeps == IInv /\ AddQueuePair => IInv'
<1> SUFFICES ASSUME IInv, AddQueuePair PROVE IInv'
  OBVIOUS
<1> USE DEF AddQueuePair, receiverVars, networkVars
<1>1. TypeOK'
  BY DEF IInv, TypeOK
<1>2. Opened'
  BY DEF IInv, Opened
<1>3. Cumulative'
  BY DEF IInv, Cumulative
<1>4. NotStranded'
  BY DEF IInv, Opened, NotStranded
<1>5. QED
  BY <1>1, <1>2, <1>3, <1>4 DEF IInv

(* A packet is sent.  If nothing was on the fly it is the packet una, which   *)
(* the receiver expects or has.                                               *)
LEMMA SendKeeps == IInv /\ GetNxtPacket => IInv'
<1> SUFFICES ASSUME IInv, GetNxtPacket PROVE IInv'
  OBVIOUS
<1> USE DEF receiverVars
<1>1. /\ nxt \in Packets /\ nxt + 1 \in 0..Size
      /\ data \in [Packets -> Nat]
      /\ una \in 0..Size /\ expected \in 0..Size /\ una <= expected /\ una <= nxt
  BY SizeAssumption DEF IInv, TypeOK, Cumulative, GetNxtPacket, Packets
<1>2. /\ data' \in [Packets -> Nat] /\ data'[nxt] > 0
      /\ \A s \in Packets : data[s] > 0 => data'[s] > 0
  BY <1>1, PacketBag DEF GetNxtPacket
<1>3. TypeOK'
  BY <1>1, <1>2 DEF IInv, TypeOK, GetNxtPacket
<1>4. Opened'
  BY DEF IInv, Opened, GetNxtPacket
<1>5. Cumulative'
  BY <1>1, SizeAssumption DEF IInv, Cumulative, GetNxtPacket, Packets
<1>6. NotStranded'
  <2>1. CASE nxt = una
    BY <2>1, <1>1, <1>2 DEF NotStranded, GetNxtPacket
  <2>2. CASE nxt > una
    BY <2>2, <1>2 DEF IInv, NotStranded, GetNxtPacket
  <2>3. QED
    BY <2>1, <2>2, <1>1, SizeAssumption DEF Packets
<1>7. QED
  BY <1>3, <1>4, <1>5, <1>6 DEF IInv

-----------------------------------------------------------------------------
(* A packet that is expected, or was received before, is answered: the reply  *)
(* is what the sender may now wait for.                                       *)
LEMMA InOrderKeeps ==
    ASSUME IInv, NEW s \in Packets, ReceiveInOrder(s) PROVE IInv'
<1> DEFINE m == [nack |-> FALSE, seq |-> Larger(expected, s + 1)]
<1> USE DEF senderVars
<1>1. s + 1 \in 0..Size /\ expected \in 0..Size
  BY SizeAssumption DEF IInv, TypeOK, Packets
<1>2. expected' \in 0..Size /\ expected <= expected' /\ m \in Reply /\ m.seq = expected'
  BY <1>1, LargerFact DEF ReceiveInOrder, Reply
<1>3. data' \in [Packets -> Nat] /\ \A n \in Packets : data'[n] > 0 => data[n] > 0
  BY PacketBag DEF IInv, TypeOK, ReceiveInOrder
<1>4. replies' = Add(replies, m) /\ replies \in [Reply -> Nat]
  BY DEF IInv, TypeOK, ReceiveInOrder
<1> HIDE DEF m
<1>5. /\ replies' \in [Reply -> Nat] /\ replies'[m] > 0
      /\ \A n \in Reply : replies'[n] > 0 => n = m \/ replies[n] > 0
  BY <1>2, <1>4, ReplyBag
<1>6. TypeOK'
  BY <1>2, <1>3, <1>5 DEF IInv, TypeOK, ReceiveInOrder
<1>7. Opened'
  BY DEF IInv, Opened, ReceiveInOrder
<1>8. Cumulative'
  <2>1. una <= expected /\ una <= nxt /\ una \in 0..Size
    BY DEF IInv, TypeOK, Cumulative
  <2>2. \A n \in Reply : n.seq \in 0..Size
    BY DEF Reply
  <2>3. ASSUME NEW n \in Reply, replies'[n] > 0 PROVE n.seq <= expected'
    <3>1. CASE n = m
      BY <3>1, <1>2
    <3>2. CASE replies[n] > 0
      BY <3>2, <2>2, <1>1, <1>2, SizeAssumption DEF IInv, Cumulative
    <3>3. QED
      BY <3>1, <3>2, <2>3, <1>5
  <2>4. una' <= expected' /\ una' <= nxt'
    BY <2>1, <1>1, <1>2, SizeAssumption DEF ReceiveInOrder
  <2>5. QED
    BY <2>3, <2>4 DEF Cumulative
<1>9. NotStranded'
  BY <1>2, <1>5 DEF NotStranded
<1>10. QED
  BY <1>6, <1>7, <1>8, <1>9 DEF IInv

(* A packet beyond the expected one is dropped: it was nothing to wait for.   *)
LEMMA OutOfOrderKeeps ==
    ASSUME IInv, NEW s \in Packets, ReceiveOutOfOrder(s) PROVE IInv'
<1> DEFINE m == [nack |-> TRUE, seq |-> expected]
<1> USE DEF senderVars
<1>1. expected \in 0..Size /\ m \in Reply /\ m.seq = expected
  BY DEF IInv, TypeOK, Reply
<1>2. /\ data' \in [Packets -> Nat]
      /\ \A n \in Packets : data'[n] > 0 => data[n] > 0
      /\ \A n \in Packets : n # s => data'[n] = data[n]
  BY PacketBag DEF IInv, TypeOK, ReceiveOutOfOrder
<1>3. /\ replies \in [Reply -> Nat]
      /\ replies' = Add(replies, m) \/ replies' = replies
      /\ lastNack' \in -1..Size
  BY <1>1 DEF IInv, TypeOK, ReceiveOutOfOrder
<1> HIDE DEF m
<1>4. /\ replies' \in [Reply -> Nat]
      /\ \A n \in Reply : replies'[n] > 0 => n = m \/ replies[n] > 0
      /\ \A n \in Reply : replies[n] > 0 => replies'[n] > 0
  BY <1>1, <1>3, ReplyBag
<1>5. TypeOK'
  BY <1>2, <1>3, <1>4 DEF IInv, TypeOK, ReceiveOutOfOrder
<1>6. Opened'
  BY <1>2 DEF IInv, TypeOK, Opened, ReceiveOutOfOrder
<1>7. Cumulative'
  BY <1>1, <1>4 DEF IInv, Cumulative, ReceiveOutOfOrder
<1>8. NotStranded'
  <2>1. ASSUME NEW n \in Packets, data[n] > 0, n <= expected PROVE data'[n] > 0
    BY <2>1, <1>1, <1>2 DEF ReceiveOutOfOrder, Packets
  <2>2. QED
    BY <2>1, <1>4 DEF IInv, NotStranded, ReceiveOutOfOrder
<1>9. QED
  BY <1>5, <1>6, <1>7, <1>8 DEF IInv

(* The receive QP is gone: then the flow is complete and waits for nothing.   *)
LEMMA FinishedKeeps ==
    ASSUME IInv, NEW s \in Packets, ReceiveFinished(s) PROVE IInv'
<1> USE DEF senderVars, receiverVars
<1>1. data' \in [Packets -> Nat] /\ \A n \in Packets : data'[n] > 0 => data[n] > 0
  BY PacketBag DEF IInv, TypeOK, ReceiveFinished
<1>2. qp = "done" /\ qp' = "done"
  BY DEF IInv, Opened, ReceiveFinished
<1>3. TypeOK'
  BY <1>1 DEF IInv, TypeOK, ReceiveFinished
<1>4. Opened' /\ Cumulative' /\ NotStranded'
  BY <1>2 DEF IInv, Opened, Cumulative, NotStranded, ReceiveFinished
<1>5. QED
  BY <1>3, <1>4 DEF IInv

-----------------------------------------------------------------------------
(* The numbers after an acknowledgement: una reaches what the reply names,    *)
(* nxt stays at or beyond it.                                                 *)
LEMMA Acknowledged ==
    ASSUME IInv, NEW m \in Reply, replies[m] > 0
    PROVE  /\ Larger(una, m.seq) \in 0..Size
           /\ Larger(una, m.seq) <= expected
           /\ Larger(nxt, Larger(una, m.seq)) \in 0..Size
           /\ Larger(una, m.seq) <= Larger(nxt, Larger(una, m.seq))
           /\ una \in 0..Size /\ nxt \in 0..Size /\ expected \in 0..Size
<1>1. /\ m.seq \in 0..Size /\ una \in 0..Size /\ nxt \in 0..Size /\ expected \in 0..Size
      /\ una <= expected /\ m.seq <= expected
  BY DEF IInv, TypeOK, Cumulative, Reply
<1>2. Larger(una, m.seq) \in 0..Size /\ Larger(una, m.seq) <= expected
  BY <1>1, LargerFact
<1>3. QED
  BY <1>1, <1>2, LargerFact

(* A reply leaves the network.                                                *)
LEMMA Taken ==
    ASSUME IInv, NEW m \in Reply, replies[m] > 0, replies' = Remove(replies, m)
    PROVE  replies' \in [Reply -> Nat] /\ \A n \in Reply : replies'[n] > 0 => replies[n] > 0
BY ReplyBag DEF IInv, TypeOK

(* The last ACK completes the flow.                                           *)
LEMMA LastAckKeeps ==
    ASSUME IInv, NEW m \in Reply, ReceiveLastAck(m) PROVE IInv'
<1>1. /\ una' \in 0..Size /\ una' <= expected /\ nxt' \in 0..Size /\ una' <= nxt'
      /\ Size <= una' /\ expected' = expected
  BY Acknowledged DEF ReceiveLastAck
<1>2. una' = Size
  BY <1>1, SizeAssumption
<1>3. replies' \in [Reply -> Nat] /\ \A n \in Reply : replies'[n] > 0 => replies[n] > 0
  BY Taken DEF ReceiveLastAck
<1>4. TypeOK'
  BY <1>1, <1>3 DEF IInv, TypeOK, ReceiveLastAck
<1>5. Opened'
  BY <1>2 DEF Opened, ReceiveLastAck
<1>6. Cumulative'
  BY <1>1, <1>3 DEF IInv, Cumulative
<1>7. NotStranded'
  BY DEF NotStranded, ReceiveLastAck
<1>8. QED
  BY <1>4, <1>5, <1>6, <1>7 DEF IInv

(* Any other ACK or NACK leaves the timer running, or nothing on the fly.     *)
LEMMA AckKeeps ==
    ASSUME IInv, NEW m \in Reply, ReceiveAck(m) PROVE IInv'
<1> DEFINE ahead == Larger(nxt, una')
<1>1. /\ una' \in 0..Size /\ una' <= expected
      /\ ahead \in 0..Size /\ una' <= ahead /\ expected' = expected
  BY Acknowledged DEF ReceiveAck, receiverVars
<1>2. /\ nxt' = una' \/ nxt' = ahead
      /\ timer' = (timer \/ ahead > una')
  BY DEF ReceiveAck
<1> HIDE DEF ahead
<1>3. replies' \in [Reply -> Nat] /\ \A n \in Reply : replies'[n] > 0 => replies[n] > 0
  BY Taken DEF ReceiveAck
<1>4. nxt' \in 0..Size /\ una' <= nxt'
  BY <1>1, <1>2, SizeAssumption
<1>5. timer' \in BOOLEAN
  BY <1>2
<1>6. TypeOK'
  BY <1>1, <1>3, <1>4, <1>5 DEF IInv, TypeOK, ReceiveAck, receiverVars
<1>7. Opened'
  BY DEF IInv, Opened, ReceiveAck, receiverVars
<1>8. Cumulative'
  BY <1>1, <1>3, <1>4 DEF IInv, Cumulative
<1>9. NotStranded'
  <2>1. nxt' > una' => ahead > una'
    BY <1>1, <1>2, SizeAssumption
  <2>2. nxt' > una' => timer'
    BY <2>1, <1>2
  <2>3. QED
    BY <2>2 DEF NotStranded
<1>10. QED
  BY <1>6, <1>7, <1>8, <1>9 DEF IInv

LEMMA LateAckKeeps ==
    ASSUME IInv, NEW m \in Reply, ReceiveLateAck(m) PROVE IInv'
<1> USE DEF senderVars, receiverVars
<1>1. replies' \in [Reply -> Nat] /\ \A n \in Reply : replies'[n] > 0 => replies[n] > 0
  BY Taken DEF ReceiveLateAck
<1>2. TypeOK'
  BY <1>1 DEF IInv, TypeOK, ReceiveLateAck
<1>3. Opened' /\ Cumulative' /\ NotStranded'
  BY <1>1 DEF IInv, Opened, Cumulative, NotStranded, ReceiveLateAck
<1>4. QED
  BY <1>2, <1>3 DEF IInv

(* The timer fires: the flow goes back and has nothing on the fly.            *)
LEMMA TimeoutKeeps == IInv /\ HandleTimeout => IInv'
<1> SUFFICES ASSUME IInv, HandleTimeout PROVE IInv'
  OBVIOUS
<1> USE DEF receiverVars, networkVars
<1>1. timer' \in BOOLEAN
  BY DEF HandleTimeout
<1>2. nxt' \in 0..Size /\ una <= nxt' /\ una' = una
  BY SizeAssumption DEF IInv, TypeOK, Cumulative, HandleTimeout
<1>3. TypeOK'
  BY <1>1, <1>2 DEF IInv, TypeOK, HandleTimeout
<1>4. Opened'
  BY DEF IInv, Opened, HandleTimeout
<1>5. Cumulative'
  BY <1>2 DEF IInv, Cumulative, HandleTimeout
<1>6. NotStranded'
  <2>1. CASE qp = "live"
    <3>1. una \in 0..Size /\ una' = una /\ nxt' = una
      BY <2>1 DEF IInv, TypeOK, HandleTimeout
    <3>2. QED
      BY <3>1, SizeAssumption DEF NotStranded
  <2>2. CASE qp # "live"
    BY <2>2 DEF NotStranded, HandleTimeout
  <2>3. QED
    BY <2>1, <2>2
<1>7. QED
  BY <1>3, <1>4, <1>5, <1>6 DEF IInv

(* A loss: the timer runs, or the loss is recorded in untimed.                *)
LEMMA LoseKeeps == IInv /\ Lose => IInv'
<1> SUFFICES ASSUME IInv, Lose PROVE IInv'
  OBVIOUS
<1> USE DEF senderVars, receiverVars
<1>1. /\ data' \in [Packets -> Nat] /\ \A n \in Packets : data'[n] > 0 => data[n] > 0
      /\ replies' \in [Reply -> Nat] /\ \A n \in Reply : replies'[n] > 0 => replies[n] > 0
  <2>1. CASE \E s \in Packets :
               data[s] > 0 /\ data' = Remove(data, s) /\ UNCHANGED replies
    BY <2>1, PacketBag DEF IInv, TypeOK
  <2>2. CASE \E m \in Reply :
               replies[m] > 0 /\ replies' = Remove(replies, m) /\ UNCHANGED data
    BY <2>2, ReplyBag DEF IInv, TypeOK
  <2>3. QED
    BY <2>1, <2>2 DEF Lose
<1>2. losses' \in 0..MaxLoss
  BY BoundAssumption DEF IInv, TypeOK, Lose
<1>3. untimed' \in BOOLEAN
  BY DEF Lose
<1>4. TypeOK'
  BY <1>1, <1>2, <1>3 DEF IInv, TypeOK, Lose
<1>5. Opened'
  BY <1>1 DEF IInv, TypeOK, Opened, Lose
<1>6. Cumulative'
  BY <1>1 DEF IInv, Cumulative, Lose
<1>7. NotStranded'
  <2>1. timer' = timer /\ untimed' = (untimed \/ ~timer)
    BY DEF Lose
  <2>2. ~untimed' => timer'
    BY <2>1
  <2>3. QED
    BY <2>2 DEF NotStranded
<1>8. QED
  BY <1>4, <1>5, <1>6, <1>7 DEF IInv

LEMMA NextKeeps == IInv /\ [Next]_vars => IInv'
<1> SUFFICES ASSUME IInv, [Next]_vars PROVE IInv'
  OBVIOUS
<1>1. CASE UNCHANGED vars
  BY <1>1 DEF vars, senderVars, receiverVars, networkVars,
              IInv, TypeOK, Opened, Cumulative, NotStranded
<1>2. ASSUME NEW s \in Packets, Receive(s) PROVE IInv'
  BY <1>2, InOrderKeeps, OutOfOrderKeeps, FinishedKeeps DEF Receive
<1>3. ASSUME NEW m \in Reply, ReceiveReply(m) PROVE IInv'
  BY <1>3, LastAckKeeps, AckKeeps, LateAckKeeps DEF ReceiveReply
<1>4. QED
  BY <1>1, <1>2, <1>3, OpenKeeps, SendKeeps, TimeoutKeeps, LoseKeeps DEF Next

LEMMA Invariant == Spec => []IInv
BY InitIInv, NextKeeps, PTL DEF Spec

-----------------------------------------------------------------------------
(* Every variable has its type in every reachable state.                      *)
THEOREM TypeCorrect == Spec => []TypeOK
<1>1. IInv => TypeOK
  BY DEF IInv
<1>2. QED
  BY <1>1, Invariant, PTL

(* Neither una nor any ACK or NACK under way is ever beyond what the receiver *)
(* has, and snd_nxt never falls behind snd_una, whatever is reordered, copied *)
(* or lost.                                                                   *)
THEOREM CumulativeCorrect == Spec => []Cumulative
<1>1. IInv => Cumulative
  BY DEF IInv
<1>2. QED
  BY <1>1, Invariant, PTL

(* A flow that waits for an answer gets one or times out, unless something    *)
(* was lost while no timer was running.                                       *)
THEOREM NeverStranded == Spec => []NotStranded
<1>1. IInv => NotStranded
  BY DEF IInv
<1>2. QED
  BY <1>1, Invariant, PTL

-----------------------------------------------------------------------------
(* The refinement: the one flow of ReliableTransfer is this flow, and the     *)
(* packets below expected are those it delivered.                             *)

(* A step that changes neither qp nor expected is a stutter of the abstract   *)
(* specification.                                                             *)
LEMMA Stutter == qp' = qp /\ expected' = expected => UNCHANGED Transfer!vars
BY DEF Transfer!vars

LEMMA OpenIsStart == AddQueuePair => Transfer!Start("flow")
BY DEF AddQueuePair, receiverVars, Transfer!Start

(* A packet in order delivers the next packet of a live flow; one that was    *)
(* received before delivers nothing.                                          *)
LEMMA InOrderDelivers ==
    ASSUME IInv, NEW s \in Packets, ReceiveInOrder(s)
    PROVE  Transfer!Deliver("flow") \/ UNCHANGED Transfer!vars
<1>1. /\ qp = "live" /\ qp' = qp
      /\ s \in 0..(Size - 1) /\ s <= expected /\ expected \in 0..Size
      /\ expected' = Larger(expected, s + 1)
  BY DEF IInv, TypeOK, Opened, ReceiveInOrder, senderVars, Packets
<1>2. CASE s = expected
  <2>1. expected \in 0..(Size - 1) /\ expected' = expected + 1
    BY <1>1, <1>2, SizeAssumption DEF Larger
  <2>2. expected \in (0..(Size - 1)) \ (0..(expected - 1))
    BY <2>1, SizeAssumption
  <2>3. 0..(expected' - 1) = (0..(expected - 1)) \cup {expected}
    BY <2>1, SizeAssumption
  <2>4. QED
    BY <1>1, <2>2, <2>3 DEF Transfer!Deliver, Transfer!Packets
<1>3. CASE s # expected
  <2>1. expected' = expected
    BY <1>1, <1>3, SizeAssumption DEF Larger
  <2>2. QED
    BY <1>1, <2>1, Stutter
<1>4. QED
  BY <1>2, <1>3

(* The last ACK comes when the receiver has every packet.                     *)
LEMMA LastAckIsFinish ==
    ASSUME IInv, NEW m \in Reply, ReceiveLastAck(m) PROVE Transfer!Finish("flow")
<1>1. expected \in 0..Size /\ Larger(una, m.seq) <= expected /\ Larger(una, m.seq) \in 0..Size
  BY Acknowledged DEF ReceiveLastAck
<1>2. expected = Size
  BY <1>1, SizeAssumption DEF ReceiveLastAck
<1>3. QED
  BY <1>2 DEF ReceiveLastAck, Transfer!Finish, Transfer!Packets

LEMMA StepRefines == IInv /\ [Next]_vars => [Transfer!Next]_Transfer!vars
<1> SUFFICES ASSUME IInv, [Next]_vars PROVE [Transfer!Next]_Transfer!vars
  OBVIOUS
<1>1. CASE AddQueuePair
  BY <1>1, OpenIsStart DEF Transfer!Next
<1>2. CASE GetNxtPacket \/ HandleTimeout \/ Lose \/ UNCHANGED vars
  <2>1. qp' = qp /\ expected' = expected
    BY <1>2 DEF GetNxtPacket, HandleTimeout, Lose, vars, senderVars, receiverVars
  <2>2. QED
    BY <2>1, Stutter
<1>3. ASSUME NEW s \in Packets, Receive(s) PROVE [Transfer!Next]_Transfer!vars
  <2>1. CASE ReceiveInOrder(s)
    BY <2>1, InOrderDelivers DEF Transfer!Next
  <2>2. CASE ReceiveOutOfOrder(s) \/ ReceiveFinished(s)
    <3>1. qp' = qp /\ expected' = expected
      BY <2>2 DEF ReceiveOutOfOrder, ReceiveFinished, senderVars, receiverVars
    <3>2. QED
      BY <3>1, Stutter
  <2>3. QED
    BY <1>3, <2>1, <2>2 DEF Receive
<1>4. ASSUME NEW m \in Reply, ReceiveReply(m) PROVE [Transfer!Next]_Transfer!vars
  <2>1. CASE ReceiveLastAck(m)
    BY <2>1, LastAckIsFinish DEF Transfer!Next
  <2>2. CASE ReceiveAck(m) \/ ReceiveLateAck(m)
    <3>1. qp' = qp /\ expected' = expected
      BY <2>2 DEF ReceiveAck, ReceiveLateAck, senderVars, receiverVars
    <3>2. QED
      BY <3>1, Stutter
  <2>3. QED
    BY <1>4, <2>1, <2>2 DEF ReceiveReply
<1>5. QED
  BY <1>1, <1>2, <1>3, <1>4 DEF Next

(* Go back N implements a reliable transfer: every packet is delivered before *)
(* the flow completes.                                                        *)
THEOREM Refines == Spec => TransferSafe
<1>1. Init => Transfer!Init
  BY DEF Init, Transfer!Init
<1>2. QED
  BY <1>1, StepRefines, Invariant, PTL DEF Spec, TransferSafe, Transfer!Spec

=============================================================================
