------------------------------ MODULE ConWeave ------------------------------
(* ConWeaveRouting for one flow: the switch of the sender (TxToR) moves the   *)
(* flow to another path when it hears nothing of an INIT packet in time, and  *)
(* the switch of the receiver (RxToR) keeps the packets of the new path in a  *)
(* queue (VOQ) until the TAIL packet, the last one of the old path, arrived.  *)
(*                                                                            *)
(* A path is FIFO.  Times are not modelled: a deadline passes at any moment,  *)
(* and a choice of path by load or ECN marks is any choice.                   *)
EXTENDS Integers, Sequences, FiniteSets, SequencesExt

CONSTANTS
    Paths,      \* paths between the two switches
    MaxSeq,     \* bound: packets of the flow
    MaxFaults   \* bound: kinds of fault in a behaviour, see Fault

ASSUME PathsAssumption == Paths # {} /\ IsFiniteSet(Paths)
ASSUME BoundAssumption == MaxSeq \in Nat /\ MaxFaults \in Nat

VARIABLES
    tx,         \* conweaveTxState of the flow
    rx,         \* conweaveRxState of the flow
    voq,        \* m_FIFO of its ConWeaveVOQ, numbers of packets
    flush,      \* m_checkFlushEvent: "none" (no VOQ), "later", or "now": in 1 ns
    sent,       \* packets sent so far; they are numbered from 1
    wire,       \* [Paths -> Seq(Packet)]
    replies,    \* Seq(ReplyTag), on their way to TxToR
    delivered,  \* history: packets sent on to the receiver
    lost,       \* history: packets that were dropped
    misordered, \* history: a packet was delivered after a later one
    faults      \* history: the kinds of fault that happened

rxVars == <<rx, voq, flush>>
endVars == <<delivered, misordered>>
vars == <<tx, rxVars, sent, wire, replies, endVars, lost, faults>>

Packet == [n : 1..MaxSeq, epoch : 1..MaxSeq, phase : {0, 1},
           flag : {"INIT", "TAIL", "DATA"}]
ReplyTag == [flag : {"INIT", "TAIL"}, epoch : 1..MaxSeq]

\* "expiry": the flow paused longer than m_txExpiryTime with packets under way.
\* "flush": a VOQ was flushed by its timer before all older packets arrived.
\* "aged": AgingEvent erased the entry of the flow at TxToR and not the one at RxToR.
\* "loss": a packet or a reply was dropped.
Fault == {"expiry", "flush", "aged", "loss"}

Blame(kinds) ==
    /\ Cardinality(faults \cup kinds) <= MaxFaults
    /\ faults' = faults \cup kinds

\* What operator[] of the two tables creates.  known: pkt_flowkey is set; expired: the
\* last packet is longer ago than m_txExpiryTime; reply is _replyTimer: "off"
\* (CW_MAX_TIME), "running", or "over".
NewTx == [known |-> FALSE, expired |-> TRUE, stabilized |-> TRUE, reply |-> "over",
          epoch |-> 0, phase |-> 0, path |-> CHOOSE p \in Paths : TRUE]

\* Mutant of NewRx: the first epoch is 0.
NewRxZero == [epoch |-> 0, phase |-> 0, reordering |-> FALSE]

NewRx == [epoch |-> 1, phase |-> 0, reordering |-> FALSE]

OnWire == UNION {ToSet(wire[p]) : p \in Paths}
Quiet == OnWire = {} /\ voq = <<>>

-----------------------------------------------------------------------------
Init ==
    /\ tx = NewTx /\ rx = NewRx
    /\ voq = <<>> /\ flush = "none"
    /\ sent = 0 /\ wire = [p \in Paths |-> <<>>] /\ replies = <<>>
    /\ delivered = {} /\ lost = {} /\ misordered = FALSE /\ faults = {}

\* forwardSrctorPacket: the next packet of the flow leaves on path p.
Forward(p, flag, epoch, phase) ==
    /\ sent < MaxSeq
    /\ sent' = sent + 1
    /\ wire' = [wire EXCEPT ![p] = Append(@,
                   [n |-> sent + 1, epoch |-> epoch, phase |-> phase, flag |-> flag])]
    /\ UNCHANGED <<rxVars, replies, endVars, lost>>

\* No packet comes for longer than m_txExpiryTime.
Pause ==
    /\ ~tx.expired
    /\ tx' = [tx EXCEPT !.expired = TRUE]
    /\ UNCHANGED <<rxVars, sent, wire, replies, endVars, lost, faults>>

\* The first packet, and one after a pause: a new epoch, on any path.
SendExpired(p) ==
    /\ tx.expired
    /\ Forward(p, "INIT", tx.epoch + 1, 0)
    /\ tx' = [known |-> TRUE, expired |-> FALSE, stabilized |-> FALSE,
              reply |-> "running", epoch |-> tx.epoch + 1, phase |-> 0, path |-> p]
    /\ Blame({k \in {"expiry", "aged"} :
                 \/ k = "expiry" /\ tx.known /\ ~Quiet
                 \/ k = "aged" /\ ~tx.known /\ rx # NewRx})

\* The epoch is stabilized: a new one begins on the same path.
SendStabilized ==
    /\ ~tx.expired /\ tx.stabilized
    /\ Forward(tx.path, "INIT", tx.epoch + 1, 0)
    /\ tx' = [tx EXCEPT !.stabilized = FALSE, !.reply = "running",
                        !.epoch = @ + 1, !.phase = 0]
    /\ UNCHANGED faults

\* Mutant of SendTail: the TAIL already takes the new path.
SendTailOnNewPath(p) ==
    /\ ~tx.expired /\ ~tx.stabilized /\ tx.reply = "over"
    /\ Forward(p, "TAIL", tx.epoch, 0)
    /\ tx' = [tx EXCEPT !.reply = "off", !.phase = 1, !.path = p]
    /\ UNCHANGED faults

\* No reply in time: this packet is the last one of its path, those after it take p.
SendTail(p) ==
    /\ ~tx.expired /\ ~tx.stabilized /\ tx.reply = "over"
    /\ Forward(tx.path, "TAIL", tx.epoch, 0)
    /\ tx' = [tx EXCEPT !.reply = "off", !.phase = 1, !.path = p]
    /\ UNCHANGED faults

SendData ==
    /\ ~tx.expired /\ ~tx.stabilized /\ tx.reply # "over"
    /\ Forward(tx.path, "DATA", tx.epoch, tx.phase)
    /\ UNCHANGED <<tx, faults>>

\* _replyTimer is over, which the next packet notices.
ReplyDeadline ==
    /\ tx.reply = "running"
    /\ tx' = [tx EXCEPT !.reply = "over"]
    /\ UNCHANGED <<rxVars, sent, wire, replies, endVars, lost, faults>>

\* Mutant of ReceiveReply: the reply to a TAIL is taken for one of phase 0.
ReceiveReplyPhase0 ==
    LET m == Head(replies)
        matches == m.epoch = tx.epoch /\ tx.phase = 0
        timely == m.flag = "INIT" => tx.reply = "running"
    IN
    /\ replies # <<>> /\ flush # "now"
    /\ replies' = Tail(replies)
    /\ tx' = IF matches /\ timely THEN [tx EXCEPT !.stabilized = TRUE, !.reply = "off"]
             ELSE tx
    /\ UNCHANGED <<rxVars, sent, wire, endVars, lost, faults>>

\* disposeReplyPacket.  A flush that is due in 1 ns precedes the reply, which takes the
\* delay of a link at least.
ReceiveReply ==
    LET m == Head(replies)
        matches == m.epoch = tx.epoch /\ tx.phase = (IF m.flag = "TAIL" THEN 1 ELSE 0)
        timely == m.flag = "INIT" => tx.reply = "running"
    IN
    /\ replies # <<>> /\ flush # "now"
    /\ replies' = Tail(replies)
    /\ tx' = IF matches /\ timely THEN [tx EXCEPT !.stabilized = TRUE, !.reply = "off"]
             ELSE tx
    /\ UNCHANGED <<rxVars, sent, wire, endVars, lost, faults>>

-----------------------------------------------------------------------------
\* DoSwitchSendToDev of the packets ns, in this order.
Deliver(ns) ==
    /\ delivered' = delivered \cup ToSet(ns)
    /\ misordered' =
           \/ misordered
           \/ \E i \in DOMAIN ns :
                 \/ \E d \in delivered : d > ns[i]
                 \/ \E j \in 1..(i - 1) : ns[j] > ns[i]

Take(p) ==
    /\ wire[p] # <<>>
    /\ wire' = [wire EXCEPT ![p] = Tail(@)]
    /\ UNCHANGED <<tx, sent, lost, faults>>

\* RouteInput at RxToR, packet of an earlier epoch: it is sent on.
ArriveOld(p) ==
    LET m == Head(wire[p]) IN
    /\ Take(p) /\ m.epoch < rx.epoch
    /\ Deliver(<<m.n>>)
    /\ UNCHANGED <<rxVars, replies>>

\* Mutant of PhaseAfter: a TAIL ends phase 0 although its VOQ is not flushed.
PhaseAfterTail(m) ==
    IF m.flag = "TAIL" THEN 1 ELSE IF m.epoch > rx.epoch THEN 0 ELSE rx.phase

\* _phase once epochToCheck has seen packet m.
PhaseAfter(m) ==
    IF m.epoch > rx.epoch THEN (IF m.flag = "TAIL" THEN 1 ELSE 0)
    ELSE IF m.flag = "TAIL" /\ ~rx.reordering THEN 1
    ELSE rx.phase

\* RouteInput at RxToR, packet of this epoch or a new one: a packet of the new path
\* that comes before the TAIL goes into the VOQ, one of the old path moves the flush.
Arrive(p) ==
    LET m == Head(wire[p])
        outOfOrder == m.phase > PhaseAfter(m)
    IN
    /\ Take(p) /\ m.epoch >= rx.epoch
    /\ rx' = [epoch |-> m.epoch, phase |-> PhaseAfter(m),
              reordering |-> rx.reordering \/ outOfOrder]
    /\ flush' = IF rx.reordering /\ m.phase = 0
                THEN (IF m.flag = "TAIL" THEN "now" ELSE "later")
                ELSE IF outOfOrder /\ ~rx.reordering THEN "later"
                ELSE flush
    /\ IF outOfOrder
       THEN voq' = Append(voq, m.n) /\ UNCHANGED endVars
       ELSE Deliver(<<m.n>>) /\ UNCHANGED voq
    /\ replies' = IF m.flag = "DATA" THEN replies
                  ELSE Append(replies, [flag |-> m.flag, epoch |-> m.epoch])

\* Mutant of FlushVOQ: only the first packet of the VOQ is sent on.
FlushVOQHead ==
    /\ flush # "none"
    /\ Blame({k \in {"flush"} : flush = "later" /\
                 \E m \in OnWire : \E n \in ToSet(voq) : m.n < n})
    /\ rx' = [rx EXCEPT !.reordering = FALSE, !.phase = 1]
    /\ Deliver(<<Head(voq)>>)
    /\ voq' = <<>> /\ flush' = "none"
    /\ UNCHANGED <<tx, sent, wire, replies, lost>>

\* EnforceFlushAll: everything in the VOQ is sent on, in the order it came.
FlushVOQ ==
    /\ flush # "none"
    /\ Blame({k \in {"flush"} : flush = "later" /\
                 \E m \in OnWire : \E n \in ToSet(voq) : m.n < n})
    /\ rx' = [rx EXCEPT !.reordering = FALSE, !.phase = 1]
    /\ Deliver(voq)
    /\ voq' = <<>> /\ flush' = "none"
    /\ UNCHANGED <<tx, sent, wire, replies, lost>>

-----------------------------------------------------------------------------
\* AgingEvent erases an entry that was idle for m_agingTime (2 ms), which is longer
\* than m_txExpiryTime and than anything stays on the wire or in a VOQ.
AgeTx ==
    /\ tx.known /\ tx.expired /\ Quiet /\ replies = <<>>
    /\ tx' = NewTx
    /\ UNCHANGED <<rxVars, sent, wire, replies, endVars, lost, faults>>

AgeRx ==
    /\ rx # NewRx /\ tx.expired /\ Quiet /\ replies = <<>>
    /\ rx' = NewRx
    /\ UNCHANGED <<tx, voq, flush, sent, wire, replies, endVars, lost, faults>>

\* A switch drops a packet or a reply.
Lose ==
    /\ Blame({"loss"})
    /\ \/ \E p \in Paths :
             /\ wire[p] # <<>>
             /\ wire' = [wire EXCEPT ![p] = Tail(@)]
             /\ lost' = lost \cup {Head(wire[p]).n}
             /\ UNCHANGED replies
       \/ /\ replies # <<>>
          /\ replies' = Tail(replies)
          /\ UNCHANGED <<wire, lost>>
    /\ UNCHANGED <<tx, rxVars, sent, endVars>>

Next ==
    \/ \E p \in Paths : SendExpired(p) \/ SendTail(p) \/ ArriveOld(p) \/ Arrive(p)
    \/ Pause \/ SendStabilized \/ SendData \/ ReplyDeadline \/ ReceiveReply
    \/ FlushVOQ \/ AgeTx \/ AgeRx \/ Lose

Spec == Init /\ [][Next]_vars

\* Packets and replies arrive, and a flush that is scheduled happens.  Nobody has to
\* send.
Fairness ==
    /\ \A p \in Paths : WF_vars(ArriveOld(p) \/ Arrive(p))
    /\ WF_vars(ReceiveReply) /\ WF_vars(FlushVOQ)

FairSpec == Spec /\ Fairness

-----------------------------------------------------------------------------
(* Properties                                                                 *)

\* The types of the variables.
TypeOK ==
    /\ tx \in [known : BOOLEAN, expired : BOOLEAN, stabilized : BOOLEAN,
               reply : {"off", "running", "over"},
               epoch : 0..MaxSeq, phase : {0, 1}, path : Paths]
    /\ rx \in [epoch : 1..(MaxSeq + 1), phase : {0, 1}, reordering : BOOLEAN]
    /\ voq \in Seq(1..MaxSeq) /\ flush \in {"none", "later", "now"}
    /\ sent \in 0..MaxSeq
    /\ wire \in [Paths -> Seq(Packet)] /\ replies \in Seq(ReplyTag)
    /\ delivered \subseteq 1..sent /\ lost \subseteq 1..sent
    /\ misordered \in BOOLEAN /\ faults \subseteq Fault

\* The assertions of the code hold across epochs: _reordering says whether a VOQ
\* exists and a flush is scheduled (epochToCheck, CallbackByVOQFlush), a packet of the
\* new path is in order only without a VOQ (phaseToDisposeVqq), and TxToR times out at
\* most once in an epoch (initializeConweaveTxData).
AssertionsHold ==
    /\ rx.reordering = (flush # "none")
    /\ rx.reordering = (voq # <<>>)
    /\ rx.reordering => rx.phase = 0
    /\ tx.phase = 1 => tx.reply = "off"

\* The purpose of ConWeave: however often a flow is rerouted, the receiver gets its
\* packets in order.  Losses alone do not change that; the other faults may.
InOrder == misordered => faults \cap {"expiry", "flush", "aged"} # {}

\* No packet is left in a VOQ: what is sent is delivered or was dropped.
AllDelivered ==
    \A n \in 1..MaxSeq : sent >= n ~> n \in delivered \cup lost

\* A rerouted flow can be rerouted again: the TAIL is answered and the epoch is
\* stabilized, unless the switches disagree about the epoch or a packet was lost.
ReroutingEnds ==
    tx.phase = 1 ~> tx.phase = 0 \/ tx.stabilized \/ faults # {}

=============================================================================
