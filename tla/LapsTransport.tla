---------------------------- MODULE LapsTransport ----------------------------
(* The LAPS transport between one source host and its receivers: RdmaHw and   *)
(* RdmaQueuePair in mode Irn::NACK, load balancing e2elaps.                   *)
(*                                                                            *)
(* The source host sprays the packets of each queue pair (QP, here a flow)    *)
(* over several source-routed paths.  Data and ACKs of one path stay in FIFO  *)
(* order, so the host keeps one FIFO list of outstanding packets per path,    *)
(* shared by the flows that use the path: an ACK tells that every packet      *)
(* listed before the acknowledged one is lost.  A per-path inactivity timer   *)
(* catches the losses that no later ACK reveals.                              *)
(*                                                                            *)
(* Sequence numbers count packets.  The code counts bytes, but a flow is cut  *)
(* into fixed packets: new data is cut at the MTU from m_max_next_seq, and a  *)
(* retransmission resends exactly one recorded (seq, size) pair.              *)
EXTENDS Naturals, Sequences, FiniteSets

CONSTANTS
    Flows,        \* the QPs of the source host
    Paths,        \* the paths (pid) its packets may take
    Size,         \* [Flows -> packets of the flow], m_size in packets
    PathsOf,      \* [Flows -> candidate paths of the flow's host pair]
    Win,          \* m_win in packets, the window of a QP
    MaxLoss,      \* bound: packets the network drops in a behaviour
    MaxEarly      \* bound: timers that expire with packets in flight

ASSUME SizeAssumption == Size \in [Flows -> Nat \ {0}]
ASSUME PathsAssumption == PathsOf \in [Flows -> SUBSET Paths]
ASSUME WinAssumption == Win \in Nat
ASSUME BoundAssumption == MaxLoss \in Nat /\ MaxEarly \in Nat

VARIABLES
    qp,           \* [Flows -> {"new", "live", "done"}], m_qpMap / m_finishedQpMap
    una,          \* [Flows -> Nat], snd_una
    maxNext,      \* [Flows -> Nat], m_irn.m_max_next_seq
    sacked,       \* [Flows -> SUBSET Nat], the packets in m_irn.m_sack.m_data
    lossy,        \* the m_lossy_data lists of all QPs, in one list: the list of
                  \* a QP is the subsequence of its own entries
    outstanding,  \* [Paths -> Seq(Entry)], RdmaHw::m_outstanding_data
    rto,          \* [Paths -> BOOLEAN], is m_rtoEventsPerPath[pid] running?
    data,         \* [Paths -> Seq(Entry)], data packets in flight
    acks,         \* [Paths -> Seq(Entry)], ACKs in flight
    rx,           \* [Flows -> {"none", "active", "finished"}], m_rxQpMap
    rcvd,         \* [Flows -> SUBSET Nat], packets the receiver took (history)
    losses,       \* packets dropped so far (bounds the model only)
    early         \* timers expired early so far (bounds the model only)

senderVars   == <<qp, una, maxNext, sacked, lossy, outstanding, rto>>
networkVars  == <<data, acks, losses, early>>
receiverVars == <<rx, rcvd>>
vars == <<senderVars, networkVars, receiverVars>>

Entry == [flow : Flows, seq : Nat]    \* OutStandingDataEntry

-----------------------------------------------------------------------------
(* Helpers                                                                    *)

Elems(q) == {q[i] : i \in DOMAIN q}

\* The list without its i-th element.
Without(q, i) == SubSeq(q, 1, i - 1) \o SubSeq(q, i + 1, Len(q))

LossyAt(f) == {i \in DOMAIN lossy : lossy[i].flow = f}

\* Mutant of OnTheFly: the selectively acknowledged packets are not subtracted.
OnTheFlyNoSack(f) == maxNext[f] - una[f] - Cardinality(LossyAt(f))

\* GetOnTheFlyForLaps: sent minus lost minus selectively acknowledged.
OnTheFly(f) ==
    maxNext[f] - una[f] - Cardinality(LossyAt(f)) - Cardinality(sacked[f])

\* Mutant of Advance: the end of the last SACK block instead of the front one.
AdvanceToLast(f, S) ==
    CHOOSE v \in 1..Size[f] : (v - 1) \in S /\ \A s \in S : s < v

\* snd_una once S are the selectively acknowledged packets: the end of the front
\* SACK block when that block starts at snd_una.
Advance(f, S) ==
    CHOOSE v \in una[f]..Size[f] : v \notin S /\ una[f]..(v - 1) \subseteq S

\* First packet to send: the head of the QP's lossy list, else new data.
NextLossy(f) == CHOOSE i \in LossyAt(f) : \A j \in LossyAt(f) : i <= j

WindowOpen(f) == OnTheFly(f) + 1 <= Win

-----------------------------------------------------------------------------
Init ==
    /\ qp = [f \in Flows |-> "new"]
    /\ una = [f \in Flows |-> 0]
    /\ maxNext = [f \in Flows |-> 0]
    /\ sacked = [f \in Flows |-> {}]
    /\ lossy = <<>>
    /\ outstanding = [p \in Paths |-> <<>>]
    /\ rto = [p \in Paths |-> FALSE]
    /\ data = [p \in Paths |-> <<>>]
    /\ acks = [p \in Paths |-> <<>>]
    /\ rx = [f \in Flows |-> "none"]
    /\ rcvd = [f \in Flows |-> {}]
    /\ losses = 0
    /\ early = 0

\* Mutant of StartFlow: a flow that completed can be opened again.
StartFlowAgain(f) ==
    /\ qp[f] # "live"
    /\ qp' = [qp EXCEPT ![f] = "live"]
    /\ UNCHANGED <<una, maxNext, sacked, lossy, outstanding, rto,
                   networkVars, receiverVars>>

\* RdmaHw::AddQueuePair: a flow starts.
StartFlow(f) ==
    /\ qp[f] = "new"
    /\ qp' = [qp EXCEPT ![f] = "live"]
    /\ UNCHANGED <<una, maxNext, sacked, lossy, outstanding, rto,
                   networkVars, receiverVars>>

\* Mutants of Transmit: the packet is listed under the number before its own; it is
\* listed first instead of last; the timer of the path is not started.
TransmitMislabelled(f, p, s) ==
    /\ outstanding' = [outstanding EXCEPT ![p] = Append(@, [flow |-> f, seq |-> s - 1])]
    /\ rto' = [rto EXCEPT ![p] = TRUE]
    /\ data' = [data EXCEPT ![p] = Append(@, [flow |-> f, seq |-> s])]
    /\ UNCHANGED <<qp, una, sacked, acks, losses, early, receiverVars>>

TransmitListedFirst(f, p, s) ==
    /\ outstanding' = [outstanding EXCEPT ![p] = <<[flow |-> f, seq |-> s]>> \o @]
    /\ rto' = [rto EXCEPT ![p] = TRUE]
    /\ data' = [data EXCEPT ![p] = Append(@, [flow |-> f, seq |-> s])]
    /\ UNCHANGED <<qp, una, sacked, acks, losses, early, receiverVars>>

TransmitUntimed(f, p, s) ==
    /\ outstanding' = [outstanding EXCEPT ![p] = Append(@, [flow |-> f, seq |-> s])]
    /\ data' = [data EXCEPT ![p] = Append(@, [flow |-> f, seq |-> s])]
    /\ UNCHANGED <<qp, una, sacked, rto, acks, losses, early, receiverVars>>

\* The egress queue picked QP f, the routing picked path p: the packet enters
\* the path and AppendOutStandingDataPerPath lists it and restarts the timer.
Transmit(f, p, s) ==
    /\ outstanding' = [outstanding EXCEPT ![p] = Append(@, [flow |-> f, seq |-> s])]
    /\ rto' = [rto EXCEPT ![p] = TRUE]
    /\ data' = [data EXCEPT ![p] = Append(@, [flow |-> f, seq |-> s])]
    /\ UNCHANGED <<qp, una, sacked, acks, losses, early, receiverVars>>

\* GetNxtPacket with an empty lossy list: the next packet never sent.
SendNew(f, p) ==
    /\ qp[f] = "live" /\ WindowOpen(f)
    /\ LossyAt(f) = {} /\ maxNext[f] < Size[f]
    /\ Transmit(f, p, maxNext[f])
    /\ maxNext' = [maxNext EXCEPT ![f] = @ + 1]
    /\ UNCHANGED lossy

\* GetNxtPacket with lossy data: the oldest packet declared lost.
Resend(f, p) ==
    /\ qp[f] = "live" /\ WindowOpen(f)
    /\ LossyAt(f) # {}
    /\ Transmit(f, p, lossy[NextLossy(f)].seq)
    /\ lossy' = Without(lossy, NextLossy(f))
    /\ UNCHANGED maxNext

\* A switch drops the head of the data, or of the ACKs, of path p.
LoseData(p) ==
    /\ losses < MaxLoss /\ data[p] # <<>>
    /\ data' = [data EXCEPT ![p] = Tail(@)]
    /\ losses' = losses + 1
    /\ UNCHANGED <<acks, early, senderVars, receiverVars>>

LoseAck(p) ==
    /\ losses < MaxLoss /\ acks[p] # <<>>
    /\ acks' = [acks EXCEPT ![p] = Tail(@)]
    /\ losses' = losses + 1
    /\ UNCHANGED <<data, early, senderVars, receiverVars>>

\* ReceiveUdpOnDstHostForLaps: the first packet creates the receive QP, every
\* packet is answered with one ACK on the path it came from.
ReceiveUdp(p) ==
    LET e == Head(data[p]) IN
    /\ data[p] # <<>> /\ rx[e.flow] # "finished"
    /\ data' = [data EXCEPT ![p] = Tail(@)]
    /\ acks' = [acks EXCEPT ![p] = Append(@, e)]
    /\ rx' = [rx EXCEPT ![e.flow] = "active"]
    /\ rcvd' = [rcvd EXCEPT ![e.flow] = @ \cup {e.seq}]
    /\ UNCHANGED <<losses, early, senderVars>>

\* checkRxQpFinishedOnDstHost: a packet of a finished flow is dropped unanswered.
ReceiveUdpFinished(p) ==
    /\ data[p] # <<>> /\ rx[Head(data[p]).flow] = "finished"
    /\ data' = [data EXCEPT ![p] = Tail(@)]
    /\ UNCHANGED <<acks, losses, early, senderVars, receiverVars>>

\* ReceiveAckForLaps when the path lists the acknowledged packet at place k
\* (checkOutstandingDataAndUpdateLossyData): the packets listed before it are
\* lost, the timer restarts or stops, then AcknowledgeForLaps updates the SACK
\* blocks and snd_una, and a fully acknowledged QP completes (QpComplete, whose
\* callback deletes the receive QP).
ReceiveAck(p) ==
    LET e == Head(acks[p])
        q == outstanding[p]
        u == Advance(e.flow, sacked[e.flow] \cup {e.seq})
        finished == u >= Size[e.flow]
    IN \E k \in DOMAIN q :
    /\ acks[p] # <<>> /\ qp[e.flow] = "live" /\ q[k] = e
    /\ \A j \in 1..(k - 1) : q[j] # e
    /\ acks' = [acks EXCEPT ![p] = Tail(@)]
    /\ lossy' = lossy \o SubSeq(q, 1, k - 1)
    /\ outstanding' = [outstanding EXCEPT ![p] = SubSeq(q, k + 1, Len(q))]
    /\ rto' = [rto EXCEPT ![p] = k < Len(q)]
    /\ una' = [una EXCEPT ![e.flow] = u]
    /\ sacked' = [sacked EXCEPT ![e.flow] = {s \in @ \cup {e.seq} : s >= u}]
    /\ qp' = IF finished THEN [qp EXCEPT ![e.flow] = "done"] ELSE qp
    /\ rx' = IF finished THEN [rx EXCEPT ![e.flow] = "finished"] ELSE rx
    /\ UNCHANGED <<maxNext, data, losses, early, rcvd>>

\* ReceiveAckForLaps for a QP that completed: returns before it looks at the path.
ReceiveAckFinished(p) ==
    /\ acks[p] # <<>> /\ qp[Head(acks[p]).flow] = "done"
    /\ acks' = [acks EXCEPT ![p] = Tail(@)]
    /\ UNCHANGED <<data, losses, early, senderVars, receiverVars>>

\* Mutants of Expire: the outstanding packets are forgotten; the timer is left on.
ExpireForgets(p) ==
    /\ rto[p]
    /\ outstanding' = [outstanding EXCEPT ![p] = <<>>]
    /\ rto' = [rto EXCEPT ![p] = FALSE]
    /\ UNCHANGED <<qp, una, maxNext, sacked, lossy, data, acks, losses, receiverVars>>

ExpireStaysOn(p) ==
    /\ rto[p]
    /\ lossy' = lossy \o outstanding[p]
    /\ outstanding' = [outstanding EXCEPT ![p] = <<>>]
    /\ UNCHANGED <<qp, una, maxNext, sacked, rto, data, acks, losses, receiverVars>>

\* HandleTimeoutForLapsPerPath: everything outstanding on the path is lost.
Expire(p) ==
    /\ rto[p]
    /\ lossy' = lossy \o outstanding[p]
    /\ outstanding' = [outstanding EXCEPT ![p] = <<>>]
    /\ rto' = [rto EXCEPT ![p] = FALSE]
    /\ UNCHANGED <<qp, una, maxNext, sacked, data, acks, losses, receiverVars>>

\* Mutant of Timeout: the period is shorter than the round trip.
TimeoutTooShort(p) == Expire(p) /\ UNCHANGED early

\* The period (8 ms without a packet or an ACK on the path) is far above a round
\* trip: as a rule the path is silent when its timer expires.
Timeout(p) ==
    /\ data[p] = <<>> /\ acks[p] = <<>>
    /\ Expire(p)
    /\ UNCHANGED early

\* Nothing in the code ties the period to the state of the path: a path that PFC
\* holds for longer still has its packets when the timer expires.
EarlyTimeout(p) ==
    /\ early < MaxEarly
    /\ data[p] # <<>> \/ acks[p] # <<>>
    /\ Expire(p)
    /\ early' = early + 1

Next ==
    \/ \E f \in Flows :
          \/ StartFlow(f)
          \/ \E p \in PathsOf[f] : SendNew(f, p) \/ Resend(f, p)
    \/ \E p \in Paths :
          \/ LoseData(p) \/ LoseAck(p)
          \/ ReceiveUdp(p) \/ ReceiveUdpFinished(p)
          \/ ReceiveAck(p) \/ ReceiveAckFinished(p)
          \/ Timeout(p) \/ EarlyTimeout(p)

Spec == Init /\ [][Next]_vars

-----------------------------------------------------------------------------
(* Fairness: every event the simulator has scheduled is executed.  The egress *)
(* queue serves every QP that may send (round robin), but which of the paths  *)
(* a packet takes is the routing's choice; the links deliver; a running timer *)
(* expires unless it is restarted.  Nothing forces a loss.                    *)
Fairness ==
    /\ \A f \in Flows :
          /\ WF_vars(StartFlow(f))
          /\ WF_vars(\E p \in PathsOf[f] : SendNew(f, p) \/ Resend(f, p))
    /\ \A p \in Paths :
          /\ WF_vars(ReceiveUdp(p) \/ ReceiveUdpFinished(p))
          /\ WF_vars(ReceiveAck(p) \/ ReceiveAckFinished(p))
          /\ WF_vars(Timeout(p))

FairSpec == Spec /\ Fairness

-----------------------------------------------------------------------------
(* Properties                                                                 *)

\* Every variable has its type.
TypeOK ==
    /\ qp \in [Flows -> {"new", "live", "done"}]
    /\ una \in [Flows -> Nat]
    /\ maxNext \in [Flows -> Nat]
    /\ sacked \in [Flows -> SUBSET Nat]
    /\ lossy \in Seq(Entry)
    /\ outstanding \in [Paths -> Seq(Entry)]
    /\ rto \in [Paths -> BOOLEAN]
    /\ data \in [Paths -> Seq(Entry)]
    /\ acks \in [Paths -> Seq(Entry)]
    /\ rx \in [Flows -> {"none", "active", "finished"}]
    /\ rcvd \in [Flows -> SUBSET Nat]
    /\ losses \in 0..MaxLoss
    /\ early \in 0..MaxEarly

\* The packets flow f has sent and the sender knows no acknowledgement of.
Unacked(f) == {s \in una[f]..(maxNext[f] - 1) : s \notin sacked[f]}

IsUnacked(e) == e.seq \in Unacked(e.flow)

Listed == UNION {Elems(outstanding[p]) : p \in Paths}
InFlight == UNION {Elems(data[p]) \cup Elems(acks[p]) : p \in Paths}

\* Every packet that is sent and not acknowledged is listed exactly once: as
\* outstanding on one path or as lossy, and nothing else is listed.  Hence a
\* loss is never forgotten, never repaired twice, and the assertions
\* "Invalid nackSeq" (AcknowledgeForLaps) and "Invalid lossy data"
\* (CheckAndUpdateQpStateForLaps) hold.
OnlyUnackedListed ==
    /\ \A p \in Paths : \A i \in 1..Len(outstanding[p]) : IsUnacked(outstanding[p][i])
    /\ \A i \in 1..Len(lossy) : IsUnacked(lossy[i])

ListedAtMostOnce ==
    /\ \A p, q \in Paths : \A i \in 1..Len(outstanding[p]), j \in 1..Len(outstanding[q]) :
          outstanding[p][i] = outstanding[q][j] => p = q /\ i = j
    /\ \A i, j \in 1..Len(lossy) : lossy[i] = lossy[j] => i = j
    /\ \A p \in Paths : \A i \in 1..Len(outstanding[p]), j \in 1..Len(lossy) :
          outstanding[p][i] # lossy[j]

UnackedListed ==
    \A f \in Flows : \A s \in Unacked(f) :
        \/ \E p \in Paths : \E i \in 1..Len(outstanding[p]) :
              outstanding[p][i] = [flow |-> f, seq |-> s]
        \/ \E i \in 1..Len(lossy) : lossy[i] = [flow |-> f, seq |-> s]

AccountedOnce == OnlyUnackedListed /\ ListedAtMostOnce /\ UnackedListed

\* What is in flight on a path (its ACKs, then its data) is an ordered part of
\* the path's outstanding list: reading a gap as a loss is sound, and the
\* assertions "Invalid outstanding data" of checkOutstandingDataAndUpdateLossyData
\* hold.
InFlightListed ==
    \A p \in Paths :
        LET q == acks[p] \o data[p]
            out == outstanding[p]
        IN \E at \in [DOMAIN q -> DOMAIN out] :
              /\ \A i \in DOMAIN q : out[at[i]] = q[i]
              /\ \A i, j \in DOMAIN q : i < j => at[i] < at[j]

\* A packet the sender takes for lost has left the network: it is never resent
\* while a copy or the ACK of a copy is still on its way.
NoFalseLoss == Elems(lossy) \cap InFlight = {}

\* The timer of a path runs exactly while the path has outstanding data: no loss
\* goes undetected, and HandleTimeoutForLapsPerPath finds a QP to retransmit for
\* (its assertion "Retransmit NIC should exist").
TimerArmed == \A p \in Paths : rto[p] <=> outstanding[p] # <<>>

\* GetOnTheFlyForLaps computes the on-the-fly packets from four counters; they
\* are exactly the QP's outstanding packets, never negative, within the window.
OnTheFlyExact ==
    \A f \in Flows :
        /\ OnTheFly(f) = Cardinality({e \in Listed : e.flow = f})
        /\ OnTheFly(f) <= Win

\* The sender takes for delivered only what the receiver has, so a completed flow
\* has delivered every packet; the receive QP that completion deletes exists.
Delivered ==
    \A f \in Flows :
        /\ 0..(una[f] - 1) \cup sacked[f] \subseteq rcvd[f]
        /\ qp[f] = "done" => rcvd[f] = 0..(Size[f] - 1)
        /\ rcvd[f] # {} => rx[f] # "none"
        /\ rx[f] = "finished" <=> qp[f] = "done"

\* A completed flow leaves nothing behind: no packet, ACK or list entry of it
\* exists, so the receiver never meets a packet of a deleted receive QP ("The RxQp
\* is wrongly finished") and the sender no ACK of a deleted QP.
QuiescentWhenDone ==
    \A f \in Flows : qp[f] = "done" =>
        \A e \in InFlight \cup Listed \cup Elems(lossy) : e.flow # f

\* ReceiveAckForLaps asserts that the packet an ACK names is outstanding on the
\* ACK's path (rdma-hw.cc, "Invalid outstanding data").
AckFindsEntry ==
    \A p \in Paths : acks[p] # <<>> /\ qp[Head(acks[p]).flow] = "live"
        => Head(acks[p]) \in Elems(outstanding[p])

\* The abstract service: a flow completes only after every packet reached the
\* receiver, and the receiver takes nothing once the flow has completed.
Transfer == INSTANCE ReliableTransfer WITH status <- qp, delivered <- rcvd

TransferSafe == Transfer!Spec

\* Every flow that starts completes, whatever the losses (TransferLive demands it
\* of the abstract service's steps, packet by packet).
TransferLive == Transfer!FairSpec

=============================================================================
