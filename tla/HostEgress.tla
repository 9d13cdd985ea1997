----------------------------- MODULE HostEgress -----------------------------
(* The egress scheduler of a host's NIC: DequeueAndTransmit (the branch of a  *)
(* server) with GetNextQindex.  The QPs of the NIC share one transmitter, in  *)
(* round robin; a QP is held back by its window, by PFC or by its pacing time *)
(* m_nextAvail.  Nothing polls: an idle NIC looks at its QPs again only when  *)
(* an event calls DequeueAndTransmit, and m_nextSend is the event that the    *)
(* scheduler sets for itself.                                                 *)
(*                                                                            *)
(* The QPs run go back N with a congestion control that calls ChangeRate      *)
(* (HPCC).  What the peer does is left open: an acknowledgement may carry any *)
(* number that was sent.  Time is relative: m_nextAvail is gap - age, where   *)
(* gap is the sending time at the current rate and age the time since the     *)
(* last send.                                                                 *)
EXTENDS Integers, Sequences, FiniteSets, FiniteSetsExt, SequencesExt

CONSTANTS
    Flows,      \* the QPs
    Group,      \* [Flows -> priority group], m_pg
    AckGroup,   \* priority group of the queue of acknowledgements
    Size,       \* packets of a flow
    Window,     \* [Flows -> packets], m_win; 0: no window
    VarWin,     \* m_var_win: the window follows the rate
    Gaps,       \* sending times of a packet at the rates of a QP
    TxTime,     \* sending time at the rate of the link
    MaxAcks,    \* bound: data packets received, each to be acknowledged
    MaxPauses,  \* bound: PAUSE frames received
    MaxBacks    \* bound: timeouts and NACKs

ASSUME FlowAssumption == IsFiniteSet(Flows) /\ Flows # {} /\ Size \in Nat \ {0}
ASSUME WindowAssumption == Window \in [Flows -> Nat] /\ VarWin \in BOOLEAN
ASSUME TimeAssumption ==
    /\ TxTime \in Nat \ {0}
    /\ Gaps \subseteq Nat \ {0} /\ Gaps # {} /\ IsFiniteSet(Gaps)
ASSUME BoundAssumption == MaxAcks \in Nat /\ MaxPauses \in Nat /\ MaxBacks \in Nat

VARIABLES
    host,   \* the state of the NIC and of its QPs, a record (see HostType)
    spent   \* what was used of the three bounds

vars == <<host, spent>>

Groups == {AckGroup} \cup {Group[q] : q \in Flows}
MaxGap == Max(Gaps)
Never == -1     \* no event is scheduled

FlowType == [una : 0..Size, nxt : 0..Size, high : 0..Size, gap : Gaps, age : 0..MaxGap]

HostType ==
    [qp     : [Flows -> FlowType],
     qpGrp  : SeqOf(Flows, Cardinality(Flows)),
     rrlast : 0..(Cardinality(Flows) - 1),
     acks   : 0..MaxAcks,
     paused : SUBSET Groups,
     tx     : {Never} \cup 0..TxTime,       \* time to TransmitComplete; Never: READY
     wake   : {Never} \cup 0..MaxGap]       \* time to m_nextSend

Larger(a, b) == IF a < b THEN b ELSE a

-----------------------------------------------------------------------------
(* The scheduler: functions from the state of the host to its next state.     *)

InGroup(h) == {h.qpGrp[i] : i \in 1..Len(h.qpGrp)}

\* GetBytesLeft of q is positive.
DataLeft(h, q) == q \in InGroup(h) /\ h.qp[q].nxt < Size

\* GetWin and IsWinBound of q, whose state is f.
Win(q, f) == IF VarWin THEN Larger(1, (Window[q] * Min(Gaps)) \div f.gap) ELSE Window[q]
IsWinBound(q, f) == Window[q] # 0 /\ f.nxt - f.una >= Win(q, f)

\* q may not send, whatever the time.
Blocked(h, q) == Group[q] \in h.paused \/ IsWinBound(q, h.qp[q])

\* m_nextAvail - Simulator::Now().
Wait(f) == f.gap - f.age

Sendable(h, q) == DataLeft(h, q) /\ ~Blocked(h, q) /\ Wait(h.qp[q]) <= 0

AckSendable(h) == h.acks > 0 /\ AckGroup \notin h.paused

\* GetNextQindex: the indices of the group in the order they are looked at, from the
\* one after m_rrlast, and those that may send.
Turn(h, k) == (k + h.rrlast) % Len(h.qpGrp)
Turns(h) == {k \in 1..Len(h.qpGrp) : Sendable(h, h.qpGrp[Turn(h, k) + 1])}

\* DequeueQindex and TransmitStart of an acknowledgement.
SendAck(h) == [h EXCEPT !.acks = @ - 1, !.tx = TxTime]

\* The same of the next packet of the QP at idx, and UpdateNextAvail of RdmaHw.
SendData(h, idx) ==
    LET q == h.qpGrp[idx + 1]
        nxt == h.qp[q].nxt + 1
    IN [h EXCEPT !.qp[q].nxt = nxt,
                 !.qp[q].high = Larger(@, nxt),
                 !.qp[q].age = 0,
                 !.rrlast = idx,
                 !.tx = TxTime]

\* Nothing can be sent: m_nextSend is set to the earliest m_nextAvail of the QPs
\* with data, unless it is set already or that time has passed.
ScheduleNextSend(h) ==
    LET waits == {Wait(h.qp[q]) : q \in {p \in Flows : DataLeft(h, p)}}
    IN IF waits # {} /\ h.wake = Never /\ Min(waits) > 0
       THEN [h EXCEPT !.wake = Min(waits)]
       ELSE h

DequeueAndTransmit(h) ==
    LET turns == Turns(h)
    IN IF h.tx # Never THEN h
       ELSE IF AckSendable(h) THEN SendAck(h)
       ELSE IF turns # {} THEN SendData(h, Turn(h, Min(turns)))
       ELSE ScheduleNextSend(h)

\* ChangeRate, and UpdateNextAvail of QbbNetDevice: m_nextAvail follows the rate, and
\* a pending m_nextSend is moved to it when it is earlier.  The code compares the low
\* 32 bits of the new time with the time of the event: "late", when more than 2^32 ns
\* have passed, the comparison is always true.
ChangeRate(h, q, gap, late) ==
    LET changed == [h EXCEPT !.qp[q].gap = gap]
        wait == Wait(changed.qp[q])
    IN IF h.wake # Never /\ (late \/ wait < h.wake)
       THEN [changed EXCEPT !.wake = Larger(0, wait)]
       ELSE changed

-----------------------------------------------------------------------------
Init ==
    /\ host = [qp     |-> [q \in Flows |-> [una |-> 0, nxt |-> 0, high |-> 0,
                                            gap |-> Min(Gaps), age |-> MaxGap]],
               qpGrp  |-> <<>>,
               rrlast |-> 0,
               acks   |-> 0,
               paused |-> {},
               tx     |-> Never,
               wake   |-> Never]
    /\ spent = [acks |-> 0, pauses |-> 0, backs |-> 0]

\* A flow starts (AddQueuePair, NewQp): it may send at once.
NewQp(q) ==
    /\ q \notin InGroup(host)
    /\ host' = DequeueAndTransmit([host EXCEPT !.qpGrp = Append(@, q)])
    /\ UNCHANGED spent

\* ReceiveUdp: the acknowledgement goes to the high-priority queue.
ReceiveUdp ==
    /\ spent.acks < MaxAcks
    /\ host' = DequeueAndTransmit([host EXCEPT !.acks = @ + 1])
    /\ spent' = [spent EXCEPT !.acks = @ + 1]

\* The mutant of Acknowledged: snd_nxt is left behind snd_una.
AcknowledgedBehind(h, q, seq) == [h EXCEPT !.qp[q].una = seq]

\* Acknowledge: all below seq has arrived.
Acknowledged(h, q, seq) ==
    [h EXCEPT !.qp[q].una = seq, !.qp[q].nxt = Larger(@, seq)]

\* The mutant of ReceiveAck: no QP is looked at, although the window may have opened.
ReceiveAckOnly(q, seq, gap, late) ==
    /\ host.qp[q].una < seq /\ seq <= host.qp[q].high /\ seq < Size
    /\ host' = ChangeRate(Acknowledged(host, q, seq), q, gap, late)
    /\ UNCHANGED spent

\* ReceiveAck, an ACK that leaves something to be acknowledged: the rate may change.
ReceiveAck(q, seq, gap, late) ==
    /\ host.qp[q].una < seq /\ seq <= host.qp[q].high /\ seq < Size
    /\ host' = DequeueAndTransmit(ChangeRate(Acknowledged(host, q, seq), q, gap, late))
    /\ UNCHANGED spent

\* ReceiveAck, the last ACK of a flow: QpComplete, and the handler returns before it
\* has called TriggerTransmit.
ReceiveLastAck(q) ==
    /\ host.qp[q].una < Size /\ host.qp[q].high = Size
    /\ host' = Acknowledged(host, q, Size)
    /\ UNCHANGED spent

GoBack(h, q) == [h EXCEPT !.qp[q].nxt = h.qp[q].una]

\* ReceiveAck, a NACK: what is below seq has arrived, the rest is sent again.
ReceiveNack(q, seq, gap, late) ==
    /\ spent.backs < MaxBacks
    /\ host.qp[q].una <= seq /\ seq < host.qp[q].high
    /\ host' = DequeueAndTransmit(ChangeRate(GoBack(Acknowledged(host, q, seq), q), q, gap, late))
    /\ spent' = [spent EXCEPT !.backs = @ + 1]

\* HandleTimeout.
HandleTimeout(q) ==
    /\ spent.backs < MaxBacks
    /\ host.qp[q].una < host.qp[q].high
    /\ host' = DequeueAndTransmit(GoBack(host, q))
    /\ spent' = [spent EXCEPT !.backs = @ + 1]

\* Receive, a PAUSE frame: a packet on its way is not stopped.
Pause(g) ==
    /\ g \notin host.paused /\ spent.pauses < MaxPauses
    /\ host' = [host EXCEPT !.paused = @ \cup {g}]
    /\ spent' = [spent EXCEPT !.pauses = @ + 1]

\* The mutant of Resume: the NIC is not told to look at its QPs.
ResumeOnly(g) ==
    /\ g \in host.paused
    /\ host' = [host EXCEPT !.paused = @ \ {g}]
    /\ UNCHANGED spent

\* Resume: a RESUME frame arrives or the pause time is over.
Resume(g) ==
    /\ g \in host.paused
    /\ host' = DequeueAndTransmit([host EXCEPT !.paused = @ \ {g}])
    /\ UNCHANGED spent

TransmitComplete ==
    /\ host.tx = 0
    /\ host' = DequeueAndTransmit([host EXCEPT !.tx = Never])
    /\ UNCHANGED spent

\* m_nextSend fires.
NextSend ==
    /\ host.wake = 0
    /\ host' = DequeueAndTransmit([host EXCEPT !.wake = Never])
    /\ UNCHANGED spent

\* Time passes, never beyond a scheduled event.
Sooner(t) == IF t = Never THEN Never ELSE t - 1
Aged(f) == [f EXCEPT !.age = IF @ < MaxGap THEN @ + 1 ELSE @]
Tick ==
    /\ host.tx # 0 /\ host.wake # 0
    /\ host' = [host EXCEPT !.qp = [q \in Flows |-> Aged(host.qp[q])],
                            !.tx = Sooner(@),
                            !.wake = Sooner(@)]
    /\ host' # host
    /\ UNCHANGED spent

\* What the simulator does by itself: the next scheduled event, or time passes.
Run == TransmitComplete \/ NextSend \/ Tick

Next ==
    \/ \E q \in Flows :
          \/ NewQp(q)
          \/ \E seq \in 1..Size, gap \in Gaps, late \in BOOLEAN : ReceiveAck(q, seq, gap, late)
          \/ ReceiveLastAck(q)
          \/ \E seq \in 0..Size, gap \in Gaps, late \in BOOLEAN : ReceiveNack(q, seq, gap, late)
          \/ HandleTimeout(q)
    \/ ReceiveUdp
    \/ \E g \in Groups : Pause(g) \/ Resume(g)
    \/ Run

\* What has arrived at a peer is acknowledged.
Answer ==
    \E q \in Flows :
        \/ \E seq \in 1..Size, gap \in Gaps, late \in BOOLEAN : ReceiveAck(q, seq, gap, late)
        \/ ReceiveLastAck(q)

\* The simulator goes on, a pause ends (its timer), and the peers answer.  Pauses and
\* answers are finitely many, so fairness to each of them is fairness to all.  A flow
\* need not start.
Fairness == WF_vars(Run) /\ WF_vars(\E g \in Groups : Resume(g)) /\ WF_vars(Answer)

FairSpec == Init /\ [][Next]_vars /\ Fairness

-----------------------------------------------------------------------------
\* Type invariant.  A QP has acknowledged no more than it considers sent, and sent no
\* more than it ever sent.
TypeOK ==
    /\ host \in HostType
    /\ spent \in [acks : 0..MaxAcks, pauses : 0..MaxPauses, backs : 0..MaxBacks]
    /\ \A q \in Flows : LET f == host.qp[q] IN f.una <= f.nxt /\ f.nxt <= f.high

\* A QP with data that neither its window nor PFC holds back is not forgotten: if the
\* transmitter is READY, m_nextSend is scheduled, or there is a QP whose window, or a
\* group whose pause, will open with an event that looks at every QP.  This is what
\* the early exit of ScheduleNextSend relies on: the earliest m_nextAvail may be that
\* of a blocked QP and in the past, and then nothing is scheduled for the others.
\* The last ACK of a blocked QP looks at no QP: it must never be what was waited for.
NotForgotten ==
    \A q \in Flows :
        host.tx = Never /\ DataLeft(host, q) /\ ~Blocked(host, q) =>
            \/ host.wake # Never
            \/ host.paused # {}
            \/ \E p \in Flows : DataLeft(host, p) /\ IsWinBound(p, host.qp[p])

\* Every flow that starts is sent and acknowledged in full, whatever the windows, the
\* pauses and the rates do and whatever was truncated in the time of m_nextSend.
Completes ==
    \A q \in Flows : q \in InGroup(host) ~> host.qp[q].una = Size
=============================================================================
