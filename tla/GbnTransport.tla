---------------------------- MODULE GbnTransport ----------------------------
(* One flow in mode GBN (go back N), the transport under every load balancer  *)
(* but LAPS: the QP of the sender (AddQueuePair, GetNxtPacket, ReceiveAck,    *)
(* HandleTimeout), the receiver (ReceiveUdp, ReceiverCheckSeq) and a network  *)
(* that reorders, because RPS, DRILL and the others choose a path per packet  *)
(* or per flowlet, and that may lose packets.                                 *)
(*                                                                            *)
(* A flow is cut into packets at fixed places, so a sequence number counts    *)
(* packets.  The receiver acknowledges every packet it takes                  *)
(* (L2AckInterval 1) and L2BackToZero is off, as in every shipped             *)
(* configuration.                                                             *)
EXTENDS Integers, Functions

CONSTANTS
    Size,       \* packets of the flow
    Window,     \* m_win in packets; 0: no window
    Capacity,   \* bound: the sender waits while the network holds this much
    MaxLoss     \* bound: packets and replies lost in a behaviour

ASSUME SizeAssumption == Size \in Nat \ {0}
ASSUME WindowAssumption == Window \in Nat
ASSUME BoundAssumption == Capacity \in Nat /\ MaxLoss \in Nat

VARIABLES
    qp,         \* "new", "live" (in m_qpMap) or "done" (in m_finishedQpMap)
    una, nxt,   \* snd_una, snd_nxt
    timer,      \* m_retransmit is scheduled
    rx,         \* receive QP: "none", "live" or "gone" (finished)
    expected,   \* ReceiverNextExpectedSeq
    lastNack,   \* m_lastNACK; -1 while m_nackTimer was never set
    data,       \* [Packets -> copies of the packet in the network]
    replies,    \* [Reply -> copies of the ACK or NACK in the network]
    losses,     \* what was lost so far (bounds the model only)
    untimed     \* history: something was lost while no timer was running

senderVars == <<qp, una, nxt, timer>>
receiverVars == <<rx, expected, lastNack>>
networkVars == <<data, replies, losses, untimed>>
vars == <<senderVars, receiverVars, networkVars>>

Packets == 0..(Size - 1)

\* Both kinds carry ReceiverNextExpectedSeq and acknowledge what is below it.
Reply == [nack : BOOLEAN, seq : 0..Size]

None == [m \in Reply |-> 0]
Add(bag, m) == [bag EXCEPT ![m] = @ + 1]
Remove(bag, m) == [bag EXCEPT ![m] = @ - 1]

\* The network has room: without a limit the model would not be finite.
Room == FoldFunction(+, 0, data) + FoldFunction(+, 0, replies) < Capacity

Larger(a, b) == IF a < b THEN b ELSE a

\* GetOnTheFly.
OnTheFly == nxt - una

\* IsWinBound.
IsWinBound == Window # 0 /\ OnTheFly >= Window

-----------------------------------------------------------------------------
Init ==
    /\ qp = "new" /\ una = 0 /\ nxt = 0 /\ timer = FALSE
    /\ rx = "none" /\ expected = 0 /\ lastNack = -1
    /\ data = [s \in Packets |-> 0] /\ replies = None
    /\ losses = 0 /\ untimed = FALSE

\* AddQueuePair.
AddQueuePair ==
    /\ qp = "new"
    /\ qp' = "live"
    /\ UNCHANGED <<una, nxt, timer, receiverVars, networkVars>>

\* The NIC picks the QP (GetNextQindex) and takes its next packet (GetNxtPacket).
\* No timer is started.
GetNxtPacket ==
    /\ qp = "live" /\ nxt < Size /\ ~IsWinBound /\ Room
    /\ nxt' = nxt + 1
    /\ data' = Add(data, nxt)
    /\ UNCHANGED <<qp, una, timer, receiverVars, replies, losses, untimed>>

\* Mutants of ReceiveInOrder: a packet received before advances the number too; it
\* is not answered.
ReceiveInOrderAgain(s) ==
    /\ data[s] > 0 /\ rx # "gone" /\ s <= expected
    /\ data' = Remove(data, s)
    /\ rx' = "live"
    /\ expected' = expected + 1
    /\ replies' = Add(replies, [nack |-> FALSE, seq |-> Larger(expected, s + 1)])
    /\ UNCHANGED <<senderVars, lastNack, losses, untimed>>

ReceiveInOrderSilent(s) ==
    /\ data[s] > 0 /\ rx # "gone" /\ s <= expected
    /\ data' = Remove(data, s)
    /\ rx' = "live"
    /\ expected' = Larger(expected, s + 1)
    /\ replies' = IF s = expected THEN Add(replies, [nack |-> FALSE, seq |-> s + 1])
                   ELSE replies
    /\ UNCHANGED <<senderVars, lastNack, losses, untimed>>

\* ReceiveUdp with ReceiverCheckSeq, when the packet is the expected one or was
\* received before: an ACK with the next expected number.
ReceiveInOrder(s) ==
    /\ data[s] > 0 /\ rx # "gone" /\ s <= expected
    /\ data' = Remove(data, s)
    /\ rx' = "live"
    /\ expected' = Larger(expected, s + 1)
    /\ replies' = Add(replies, [nack |-> FALSE, seq |-> Larger(expected, s + 1)])
    /\ UNCHANGED <<senderVars, lastNack, losses, untimed>>

\* The same, when a packet before it is missing: it is dropped with a NACK, or
\* silently while the timer of the last NACK, for the same number, runs.
ReceiveOutOfOrder(s) ==
    /\ data[s] > 0 /\ rx # "gone" /\ s > expected
    /\ data' = Remove(data, s)
    /\ rx' = "live"
    /\ \/ /\ lastNack' = expected
          /\ replies' = Add(replies, [nack |-> TRUE, seq |-> expected])
       \/ /\ lastNack = expected
          /\ UNCHANGED <<lastNack, replies>>
    /\ UNCHANGED <<senderVars, expected, losses, untimed>>

\* The flow is complete (checkRxQpFinishedOnDstHost): the packet is dropped.
ReceiveFinished(s) ==
    /\ data[s] > 0 /\ rx = "gone"
    /\ data' = Remove(data, s)
    /\ UNCHANGED <<senderVars, receiverVars, replies, losses, untimed>>

\* Mutant of ReceiveLastAck: the flow counts as complete one packet early.
ReceiveLastAckEarly(m) ==
    /\ replies[m] > 0 /\ qp = "live"
    /\ Larger(una, m.seq) >= Size - 1
    /\ replies' = Remove(replies, m)
    /\ una' = Larger(una, m.seq)
    /\ nxt' = Larger(nxt, una')
    /\ qp' = "done" /\ rx' = "gone"
    /\ UNCHANGED <<timer, expected, lastNack, data, losses, untimed>>

\* ReceiveAck up to QpComplete, which makes qp_finish delete the receive QP.  The
\* timer is left as it is.
ReceiveLastAck(m) ==
    /\ replies[m] > 0 /\ qp = "live"
    /\ Larger(una, m.seq) >= Size
    /\ replies' = Remove(replies, m)
    /\ una' = Larger(una, m.seq)
    /\ nxt' = Larger(nxt, una')
    /\ qp' = "done" /\ rx' = "gone"
    /\ UNCHANGED <<timer, expected, lastNack, data, losses, untimed>>

\* Mutant of ReceiveAck: a NACK sends the QP back to the number it names.
ReceiveAckToNack(m) ==
    /\ replies[m] > 0 /\ qp = "live"
    /\ Larger(una, m.seq) < Size
    /\ replies' = Remove(replies, m)
    /\ una' = Larger(una, m.seq)
    /\ timer' = (timer \/ Larger(nxt, una') > una')
    /\ nxt' = IF m.nack THEN m.seq ELSE Larger(nxt, una')
    /\ UNCHANGED <<qp, receiverVars, data, losses, untimed>>

\* ReceiveAck: the timer is restarted if anything is on the fly, and after that a
\* NACK sends the QP back to snd_una (RecoverQueue).
ReceiveAck(m) ==
    /\ replies[m] > 0 /\ qp = "live"
    /\ Larger(una, m.seq) < Size
    /\ replies' = Remove(replies, m)
    /\ una' = Larger(una, m.seq)
    /\ timer' = (timer \/ Larger(nxt, una') > una')
    /\ nxt' = IF m.nack THEN una' ELSE Larger(nxt, una')
    /\ UNCHANGED <<qp, receiverVars, data, losses, untimed>>

\* ReceiveAck of a flow in m_finishedQpMap.
ReceiveLateAck(m) ==
    /\ replies[m] > 0 /\ qp = "done"
    /\ replies' = Remove(replies, m)
    /\ UNCHANGED <<senderVars, receiverVars, data, losses, untimed>>

\* Mutant of HandleTimeout: it does not go back.
HandleTimeoutOnly ==
    /\ timer
    /\ timer' = FALSE
    /\ UNCHANGED <<qp, una, nxt, receiverVars, networkVars>>

\* m_retransmit fires.  HandleTimeout goes back to snd_una, unless the flow is
\* complete; it does not start the timer again.
HandleTimeout ==
    /\ timer
    /\ timer' = FALSE
    /\ nxt' = IF qp = "done" THEN nxt ELSE una
    /\ UNCHANGED <<qp, una, receiverVars, networkVars>>

\* A switch drops a packet or a reply.
Lose ==
    /\ losses < MaxLoss
    /\ losses' = losses + 1
    /\ untimed' = (untimed \/ ~timer)
    /\ \/ \E s \in Packets :
             data[s] > 0 /\ data' = Remove(data, s) /\ UNCHANGED replies
       \/ \E m \in Reply :
             replies[m] > 0 /\ replies' = Remove(replies, m) /\ UNCHANGED data
    /\ UNCHANGED <<senderVars, receiverVars>>

Receive(s) == ReceiveInOrder(s) \/ ReceiveOutOfOrder(s) \/ ReceiveFinished(s)
ReceiveReply(m) == ReceiveLastAck(m) \/ ReceiveAck(m) \/ ReceiveLateAck(m)

Next ==
    \/ AddQueuePair \/ GetNxtPacket \/ HandleTimeout \/ Lose
    \/ \E s \in Packets : Receive(s)
    \/ \E m \in Reply : ReceiveReply(m)

Spec == Init /\ [][Next]_vars

\* The application starts, the NIC serves the QP, the network delivers what it does
\* not lose, and a timer that is not restarted fires.
Fairness ==
    /\ WF_vars(AddQueuePair) /\ WF_vars(GetNxtPacket) /\ WF_vars(HandleTimeout)
    /\ \A s \in Packets : WF_vars(Receive(s))
    /\ \A m \in Reply : WF_vars(ReceiveReply(m))

FairSpec == Spec /\ Fairness

-----------------------------------------------------------------------------
(* Properties                                                                 *)

\* The types of the variables: sequence numbers within the flow, counts of copies.
TypeOK ==
    /\ qp \in {"new", "live", "done"} /\ rx \in {"none", "live", "gone"}
    /\ una \in 0..Size /\ nxt \in 0..Size /\ expected \in 0..Size
    /\ lastNack \in -1..Size
    /\ timer \in BOOLEAN /\ untimed \in BOOLEAN
    /\ data \in [Packets -> Nat] /\ replies \in [Reply -> Nat]
    /\ losses \in 0..MaxLoss

\* However replies are reordered and copied, the sender never believes that more
\* arrived than did (una, and each ACK or NACK under way, is at most expected), and
\* the assertion of GetOnTheFly holds: snd_nxt never falls behind snd_una.
Cumulative ==
    /\ una <= expected /\ una <= nxt
    /\ \A m \in Reply : replies[m] > 0 => m.seq <= expected

\* A flow that waits for an answer will get one or time out: a reply is under way,
\* or a packet that will cause one, or m_retransmit runs.  The code has one gap,
\* untimed: the timer starts with an ACK, not with a packet sent, and not again after
\* it fired, so what is lost in between is lost for good.
NotStranded ==
    qp = "live" /\ nxt > una /\ ~untimed =>
        \/ timer
        \/ \E m \in Reply : replies[m] > 0
        \/ \E s \in Packets : data[s] > 0 /\ s <= expected

\* GBN implements a reliable transfer: the packets below expected are delivered, and
\* the flow completes only when all are.
Transfer == INSTANCE ReliableTransfer WITH
    Flows <- {"flow"}, Size <- [f \in {"flow"} |-> Size],
    status <- [f \in {"flow"} |-> qp],
    delivered <- [f \in {"flow"} |-> 0..(expected - 1)]

TransferSafe == Transfer!Spec

\* A flow that was opened completes, whatever order the network delivers in, however
\* early the timer fires and whatever is lost while the timer runs.
Completes == qp = "live" ~> qp = "done" \/ untimed

=============================================================================
