---------------------------- MODULE BEgressQueue ----------------------------
(* The egress queues of a switch port (BEgressQueue) and the transmitter that *)
(* they feed (QbbNetDevice, the branch of a switch of DequeueAndTransmit).    *)
(* Queue 0 (ACKs, PFC frames) goes first and knows no pause; the others take  *)
(* turns, from the one after m_rrlast, past those that PFC has paused.        *)
(* A packet is its size in bytes.                                             *)
EXTENDS Integers, Sequences, FiniteSets, FiniteSetsExt, SequencesExt

CONSTANTS
    QCnt,       \* qCnt, the number of queues
    Sizes,      \* packet sizes
    MaxBytes    \* m_maxBytes

ASSUME QueueAssumption == QCnt \in Nat /\ QCnt > 1
ASSUME SizeAssumption == Sizes \subseteq Nat \ {0} /\ MaxBytes \in Nat

VARIABLES
    port,   \* the state of the port, a record (see PortType)
    passed  \* history: [q][r] data packets of r sent while q might have sent

vars == <<port, passed>>

Queues == 0..(QCnt - 1)
DataQueues == Queues \ {0}
None == -1

PortType ==
    [queues : [Queues -> Seq(Sizes)],   \* m_queues
     bytes  : [Queues -> Nat],          \* m_bytesInQueue
     total  : Nat,                      \* m_bytesInQueueTotal
     rrlast : Queues,                   \* m_rrlast
     paused : SUBSET DataQueues,        \* m_paused; no pause is sent for queue 0
     ready  : BOOLEAN]                  \* m_txMachineState

-----------------------------------------------------------------------------
(* Functions from the state of the port to its next state.                    *)

\* The mutant of Enqueue: nothing is refused.
EnqueueAlways(p, q, z) ==
    [p EXCEPT !.queues[q] = Append(@, z), !.bytes[q] = @ + z, !.total = @ + z]

\* DoEnqueue: a packet that would fill the queues is refused; SwitchSend, its caller,
\* does not notice.
Enqueue(p, q, z) ==
    IF p.total + z < MaxBytes
    THEN [p EXCEPT !.queues[q] = Append(@, z), !.bytes[q] = @ + z, !.total = @ + z]
    ELSE p

HasPacket(p, q) == p.queues[q] # <<>>

\* q has a packet and may send it.
MaySend(p, q) == HasPacket(p, q) /\ q \notin p.paused

\* DoDequeueRR, the queue it chooses.
Turn(p, k) == (k + p.rrlast) % QCnt
Turns(p) == {k \in 1..QCnt : MaySend(p, Turn(p, k))}
Chosen(p) ==
    IF HasPacket(p, 0) THEN 0
    ELSE IF Turns(p) # {} THEN Turn(p, Min(Turns(p)))
    ELSE None

\* The mutant of RRLast: a packet of queue 0 takes a turn.
RRLastAlways(p, q) == q

RRLast(p, q) == IF q # 0 THEN q ELSE p.rrlast

\* DoDequeueRR, the packet it takes, and TransmitStart.
Send(p, q) ==
    LET z == Head(p.queues[q])
    IN [p EXCEPT !.queues[q] = Tail(@), !.bytes[q] = @ - z, !.total = @ - z,
                 !.rrlast = RRLast(p, q),
                 !.ready = FALSE]

Sends(p) == p.ready /\ Chosen(p) # None

DequeueAndTransmit(p) == IF Sends(p) THEN Send(p, Chosen(p)) ELSE p

\* What the history becomes when DequeueAndTransmit looks at p.
Overtake(p) ==
    IF ~Sends(p) THEN passed
    ELSE [q \in Queues |-> [r \in DataQueues |->
            IF q = Chosen(p) \/ ~MaySend(p, q) THEN 0
            ELSE IF r = Chosen(p) THEN passed[q][r] + 1
            ELSE passed[q][r]]]

\* An event has changed the port to p and calls DequeueAndTransmit.
Look(p) == port' = DequeueAndTransmit(p) /\ passed' = Overtake(p)

-----------------------------------------------------------------------------
Init ==
    /\ port = [queues |-> [q \in Queues |-> <<>>],
               bytes  |-> [q \in Queues |-> 0],
               total  |-> 0,
               rrlast |-> 0,
               paused |-> {},
               ready  |-> TRUE]
    /\ passed = [q \in Queues |-> [r \in DataQueues |-> 0]]

\* SwitchSend.
SwitchSend(q, z) == Look(Enqueue(port, q, z))

TransmitComplete == ~port.ready /\ Look([port EXCEPT !.ready = TRUE])

\* Receive, a PAUSE frame.  A queue that is paused does not wait for its turn.
Pause(q) ==
    /\ port' = [port EXCEPT !.paused = @ \cup {q}]
    /\ passed' = [passed EXCEPT ![q] = [r \in DataQueues |-> 0]]

\* The mutant of Resume: the port is not told to look at its queues.
ResumeOnly(q) ==
    /\ q \in port.paused
    /\ port' = [port EXCEPT !.paused = @ \ {q}]
    /\ UNCHANGED passed

\* Resume: a RESUME frame arrives or the pause time is over.
Resume(q) == q \in port.paused /\ Look([port EXCEPT !.paused = @ \ {q}])

Next ==
    \/ \E q \in Queues, z \in Sizes : SwitchSend(q, z)
    \/ TransmitComplete
    \/ \E q \in DataQueues : Pause(q) \/ Resume(q)

Spec == Init /\ [][Next]_vars

-----------------------------------------------------------------------------
\* Type invariant.  The counters of bytes are those of the packets, and the queues
\* together never reach MaxBytes.
TypeOK ==
    /\ port \in PortType
    /\ passed \in [Queues -> [DataQueues -> Nat]]
    /\ \A q \in Queues : port.bytes[q] = FoldSeq(+, 0, port.queues[q])
    /\ port.total = MapThenSumSet(LAMBDA q : port.bytes[q], Queues)
    /\ port.total = 0 \/ port.total < MaxBytes

\* The port never idles beside a packet that it may send: each of the events that
\* make a packet sendable, or the transmitter READY, makes it look.  A packet in
\* queue 0 never waits for an idle transmitter; what waits there is paused.
WorkConserving == port.ready => \A q \in Queues : HasPacket(port, q) => q \in port.paused

\* Round robin: no data queue sends twice while another could send, however the
\* packets of queue 0 and the pauses of the others come between, and nothing passes
\* queue 0.
RoundRobin ==
    \A q \in Queues, r \in DataQueues :
        passed[q][r] <= (IF q = 0 THEN 0 ELSE 1)
=============================================================================
