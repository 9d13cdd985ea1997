# Formal models of the LAPS-in-ns-3 simulator

The repository is an ns-3 tree to which its authors added an RDMA data-centre network: hosts with
RDMA NICs, switches with a shared buffer and priority flow control (PFC), and the LAPS load balancer,
which sprays the packets of one flow over several source-routed paths and repairs losses per path.
This directory models that part. The rest of ns-3 is vendored and is not modelled.

Paths below are under `src/point-to-point/model/` of the tree unless they say otherwise.

## The system

| Component | State | Operations | Hard behaviour |
|---|---|---|---|
| LAPS transport: `RdmaHw`, `RdmaQueuePair`, mode `Irn::NACK` (`rdma-hw.cc`, `rdma-queue-pair.cc`) | per QP: `snd_una`, `m_max_next_seq`, SACK blocks, `m_lossy_data`; per path: `m_outstanding_data`, `m_rtoEventsPerPath`; per host: `m_qpMap`, `m_rxQpMap`, `m_finishedQpMap` | `AddQueuePairForLaps`, `GetNxtPacket`, `AppendOutStandingDataPerPath`, `ReceiveUdpOnDstHostForLaps`, `ReceiveAckForLaps`, `HandleTimeoutForLapsPerPath`, `QpComplete` | flows share the list and the timer of a path; ACKs, losses and timeouts interleave; completion deletes state at both ends |
| SACK block list: `IrnSackManager` | `m_data` | `sack`, `discardUpTo`, `blockExists`, `getSackBufferOverhead`, `peekFrontBlock` | every overlap, containment and adjacency of blocks |
| Switch accounting: `SwitchMmu` (`switch-mmu.cc`) | `ingress_bytes`, `hdrm_bytes`, `egress_bytes`, `paused`, `shared_used_bytes` | `CheckIngressAdmission`, `UpdateIngressAdmission`, `RemoveFromIngressAdmission`, `CheckShouldPause`, `CheckShouldResume`, ... | unsigned arithmetic at the thresholds, pause and resume conditions that must fit each other |
| PFC on a link: `QbbNetDevice`, `SwitchNode` | `m_paused`, `m_resumeEvt`, frames and packets on the wire, the egress queue | `DoSwitchSend`, `SwitchNotifyDequeue`, `SendPfc`, `Receive`, `Resume` | a frame takes time to reach the sender; pauses time out by themselves |
| Host egress scheduler: `RdmaEgressQueue`, `DequeueAndTransmit` of a server (`qbb-net-device.cc`) | `m_rrlast`, `m_ackQ`, per QP `m_nextAvail`, `m_nextSend`, `m_paused` | `GetNextQindex`, `NewQp`, `TriggerTransmit`, `UpdateNextAvail`, `Resume` | nothing polls: a QP that no event looks at is never served |
| Switch egress queue: `BEgressQueue` (`../../network/utils/broadcom-egress-queue.cc`) | `m_queues`, `m_rrlast`, byte counts | `Enqueue`, `DequeueRR` | strict priority of queue 0, round robin over the rest, pause |
| LAPS path selection and rate control: `RdmaSmartFlowRouting`, `UpdateRateForLaps*` | path delays, weights, rates, stage counters, LAPS-plus credit | `RouteOutputForDataPktOnSrcHostForLaps`, ... | stale delays; credit counted by several handlers |
| GBN transport (`AddQueuePair`, `ReceiveAck`, `ReceiverCheckSeq`, `HandleTimeout`) | `snd_una`, `snd_nxt`, `m_retransmit`; receiver: `ReceiverNextExpectedSeq`, `m_lastNACK`, `m_nackTimer` | as named | reordering by the load balancer, old ACKs and NACKs, the timer |
| ConWeave (`conweave-routing.cc`) | at the sender's switch: epoch, phase, path, reply deadline; at the receiver's: epoch, phase, `_reordering`, the VOQ and its flush | `RouteInput` at both switches, `disposeReplyPacket`, `EnforceFlushAll`, `AgingEvent` | two switches whose views of an epoch differ; deadlines |
| CONGA, LetFlow, DRILL, ECMP, RPS, PLB, and DCQCN, HPCC, TIMELY, DCTCP | tables and rates | | flowlet timers; floating point |
| Workloads and set-up (`../../userdefinedfunction`, `../../applications/model/rdma-client.cc`, `scratch/main.cc`) | flows, jobs, topology, configuration | `qp_finish`, `config_switch_mmu`, collectives | rounds that wait for each other |

How they interact. A client opens a QP (`RdmaClient::StartApplication`). Its NIC asks the egress
scheduler for a QP that may send, takes the packet from `RdmaHw::GetNxtPacket`, lets the routing
choose a path, and reports the packet back (`m_rdmaOutStanding_cb`) to the list of the path. Switches
admit packets against the MMU, which pauses the device upstream by a PFC frame. The receiver answers
every packet with one ACK that names the packet and its path. The sender reads from it which packets
of the path are lost. When `snd_una` reaches the size of the flow, `QpComplete` calls `qp_finish`, which
deletes the receive QP in the destination's `RdmaHw` by a direct call, and notifies the client.
Everything runs in one thread: a handler is atomic, and concurrency is the order of simulator events.

What makes each component correct: the transport delivers every packet, forgets no loss and repairs
none twice, and leaves nothing behind; the block list is exact; the accounting equals the bytes
queued; PFC loses no packet and stops nobody for ever. `PROJECT.json` lists the hazards of the
code with the properties that guard against them, and those nothing guards yet.

## Modules

| Module | Models | Runs |
|---|---|---|
| `ReliableTransfer` | abstract service of a QP: start, deliver packets in any order, finish | via `LapsTransport` and `GbnTransport` |
| `LapsTransport` | one source host, its flows and paths, the network and the receivers, mode NACK | `LapsSafety`, `LapsLive`, `LapsSpuriousRto`, `LapsLateAck` |
| `LapsTransportProofs` | theorems about `LapsTransport`, its refinement of `ReliableTransfer` included, and about `IrnSackManager` | TLAPS |
| `IrnSackManager` | the SACK block list and its two users | `SackBlocks` |
| `SwitchMmu` | the accounting, and the order in which `SwitchNode` calls it | `MmuAccounting`; an instance of it is part of `PfcLink` |
| `SwitchMmuProofs` | theorems about `SwitchMmu` | TLAPS |
| `PfcLink` | upstream devices, links, one switch with `SwitchMmu` as an instance, one egress port | `PfcLossless`, `PfcExpiry` |
| `PfcLinkProofs` | theorems about `PfcLink`, with those about `SwitchMmu` carried over | TLAPS |
| `BEgressQueue` | the queues of a switch port and its transmitter | `EgressQueue` |
| `BEgressQueueProofs` | theorems about `BEgressQueue` | TLAPS |
| `HostEgress` | the scheduler of a host's NIC and every event that makes it look at its QPs | `HostEgress` |
| `HostEgressProofs` | theorems about `HostEgress` | TLAPS |
| `GbnTransport` | one flow in mode GBN, sender, receiver and a network that reorders | `GbnReorder` |
| `GbnTransportProofs` | theorems about `GbnTransport`, its refinement of `ReliableTransfer` included | TLAPS |
| `ConWeave` | one flow at the two switches, the paths between them and the replies | `ConWeaveOrder` |
| `ConWeaveProofs` | theorems about `ConWeave` | TLAPS |
| `SumLemmas` | sums over finite sets (`MapThenSumSet`), for `SwitchMmuProofs`, `PfcLinkProofs` and `BEgressQueueProofs` | TLAPS |
| `MC*` | values of the constants for TLC | |

Definitions whose comment names them a mutant are faulty versions of the definition that follows
them; nothing uses them. `PROJECT.json` says which property each of them breaks.

### LapsTransport

State and code: `qp` is membership in `m_qpMap` and `m_finishedQpMap` of the source; `una`, `maxNext`,
`sacked` are `snd_una`, `m_max_next_seq` and the contents of the SACK blocks; `lossy` holds the
`m_lossy_data` lists of all QPs in one sequence (the list of a QP is its subsequence);
`outstanding` and `rto` are the per-path lists and timers; `rx` is the receive QP; `data` and `acks` are
the packets on a path. `rcvd` is a history variable.

* Sequence numbers count packets. A flow is cut into packets at fixed places and a retransmission
  resends one recorded (seq, size) pair, so bytes distinguish nothing more; the window is then counted in
  packets too (a short last packet could be sent slightly earlier in the code).
* The list of acknowledged packets is a set here. That the block list is that set is what `SackBlocks` checks and
  `BlocksExact` proves.
* A path is FIFO: packets of one data priority follow one source route, and in mode NACK the ACKs all
  take the first path back (`RouteOutputForAckPktOnSrcHostForLaps`).
* `ReceiveAck` is the whole of `ReceiveAckForLaps`: the gap in the path's list becomes lossy, the timer is
  restarted or cancelled, the block is inserted, `snd_una` moves, a finished QP is completed and the
  receive QP is deleted. Its guard contains the assertion of
  `checkOutstandingDataAndUpdateLossyData`: the program stops where it fails.
* The choice of a path is free among the candidates of the host pair; weights, pacing and rates only
  restrict or delay it.
* `Timeout` is an expiry on a silent path; `EarlyTimeout`, bounded by `MaxEarly`, is one while the path
  still carries something. The code sets 8 ms and checks nothing.

### SwitchMmu and PfcLink

A class is an ingress port and a queue. `Admit` is `UpdateIngressAdmission`, `UpdateEgressAdmission`
and `CheckAndSendPfc` under the check `CheckIngressAdmission`; `Release` is `SwitchNotifyDequeue`.
Subtractions are `uint32_t` subtractions modulo `Word`, so a wrong one shows as a huge number.
`SharedAssumption` says that the share of a port is positive and holds a packet, which
`ConfigNPort` computes but does not check.

`PfcLink` adds the wire. The time a PFC frame takes is bounded in packets: the upstream device sends at
most `RoundTrip` packets from the moment a frame is queued until it is honoured, and at most
`LinkPackets` are on the link then. These two numbers stand for propagation delay, the packet being sent
when the frame is queued, and the packet being sent upstream when it arrives. A switch releases only what it
admitted, which `SwitchMmu` takes as a guard of `Release`; `BytesHeld` says that this guard always lets the first
packet of the egress queue go. `unheeded` is history: the ports whose upstream device has let its pause run out in the present
congestion. Only the properties read it; it lets them excuse exactly these ports, and only as long as that congestion lasts.

### IrnSackManager

The model keeps the list and, as a history variable, the set of bytes it stands for. `Traverse` is
one turn of the loop of `sack`, in the order of its six cases; `Merge` is the pass after it. `Kept` are the blocks that the
loop of `discardUpTo` does not erase: it stops at the first that ends after the argument, whatever follows. The initial state and the
next-state relation have names of their own (`SackInit`, `SackNext`, `SackSpec`), since `LapsTransportProofs` extends this module
together with `LapsTransport`.

### BEgressQueue

`port` holds `m_queues`, the two byte counters, `m_rrlast`, `m_paused` and `m_txMachineState`. Each action is an event
and the call of `DequeueAndTransmit` that it ends with: a packet for the port, the end of a transmission, a RESUME or the
end of a pause. A PAUSE makes no call. A packet is its size; a packet that would fill the queues is refused, which
`SwitchSend` does not notice. `passed` is history: how often a queue was passed while it could have sent.

### HostEgress

`host` is the NIC with its QPs in one record, and each handler is a function on it, so that an action is the handler
followed by `DequeueAndTransmit`, as in the code. Time is relative: a QP keeps the gap of its rate and its age since the last
send (`m_nextAvail` is their sum), the transmitter and `m_nextSend` the time that is left; `Tick` never passes a scheduled event. A
rate is its gap, so `ChangeRate` moves `m_nextAvail`, and a pending wake-up with it; `late` is the comparison of the low 32 bits
in `UpdateNextAvail`, which after 4.3 s of simulated time is true whatever the times are. The peer is left open:
it may acknowledge anything that was sent, answer with a NACK, or not answer until the timer fires.

### GbnTransport

`qp`, `una`, `nxt`, `timer` are the sender's QP; `rx`, `expected`, `lastNack` the receiver's; the network is a bag of packets
and a bag of replies, since RPS, DRILL, LetFlow and CONGA choose a path per packet or flowlet. `ReceiveAck` is the whole handler:
acknowledge, move `snd_nxt` up, restart the timer if anything is on the fly, and then go back if it is a NACK. The order matters:
the timer runs after a NACK although nothing is on the fly any more. `m_nackTimer` is a choice: while it runs for the same number
the packet is dropped silently, and it may run or not. `untimed` is history: something was lost while no timer ran.
The model is that of a build without assertions: `ReceiveUdp` opens the receive QP with flow id -1 (`rdma-hw.cc:963`), which
`InitRxQp` asserts not to be (`769`).

### ConWeave

`tx` and `rx` are the entries of the flow in the two tables, `voq` the reorder queue, `flush` its event: none, at its deadline, or
1 ns after a TAIL. A path is FIFO, replies come back in order, and a deadline passes at any moment: the reply deadline, the
flow's expiry and the flush are actions without a guard on time. That allows faults that right constants exclude, so the model
names them: `faults` records an expiry with packets under way, a flush before the older packets came, an entry aged at one switch only,
and a loss. `InOrder` says that nothing else reorders; each of these three alone does.

## Runs

| Run | Question | Instance | Result |
|---|---|---|---|
| `LapsSafety` | do lists, counters, timers and network agree, whatever is lost? | a flow of 4 packets over two paths, one of 2 over one of them, window 3, 2 losses | holds |
| `LapsLive` | does every flow complete? | flows of 2 and 1 packets, 2 losses, fair | holds |
| `LapsSpuriousRto` | is delivery right even when a timer fires early? | as above, 1 loss, 1 early expiry | holds |
| `LapsLateAck` | may the assertion about the outstanding entry fail? | as above | it fails (finding) |
| `MmuAccounting` | are the counters exact and pause and resume consistent? | two ports, headrooms 5 and 2, packets of 1, 3, 4 bytes | holds |
| `PfcLossless` | who loses packets, when a pause times out and when a port has too little headroom? | two senders, packets of 1 and 2 bytes, one packet on the wire and one of reaction time, headrooms 3 and 2, one expiry | only the port itself, and only in that congestion |
| `PfcExpiry` | do both ends agree and does every pause end, with expiring pauses and drops? | one sender, two packets on the wire and two of reaction time, 2 expiries, fair | holds |
| `SackBlocks` | is the block list exact? | bytes 0 to 8, every block | holds |
| `GbnReorder` | is go back N a reliable transfer when packets and replies are reordered and lost? | 4 packets, window 3, 4 in the network, 2 losses, fair | holds, up to the gap of the timer |
| `ConWeaveOrder` | does a rerouted flow arrive in order and in full, and does every rerouting end? | 2 paths, 5 packets, one kind of fault, fair | holds |
| `HostEgress` | is a QP with something to send ever forgotten? | 2 QPs of different groups, 2 packets each, windows 1 and 2, 2 rates, one ACK to send, one PAUSE, one way back, fair | holds |
| `EgressQueue` | does the port serve what it may, in turn? | 4 queues, packets of 1 and 2 bytes, limit 7 | holds |

Why the bounds are enough. In `LapsSafety` the long flow exceeds the window and uses both paths, the short
one shares a path with it, so a gap can contain packets of the other flow, an ACK can be lost as well as a packet,
and a retransmission can be lost again. In `SackBlocks` nine bytes allow five separate
blocks, more than any case of `sack` looks at. In `MmuAccounting` no packet size divides a
threshold, and a packet can span reserve, share and headroom at once. In `PfcLossless` the headroom of the first port is
exactly that of `HeadroomSuffices`, the second port has a byte less: TLC finds a refused packet there when the premise of `Lossless` is
dropped, so the bound is tight, and one at the first port when the excuse of the expired pause is.
In `GbnReorder` four packets and a window of three
allow two copies of a packet beside a gap, an old NACK behind a new ACK, and a window that closes; with two losses the packet
and its retransmission, or the only reply, are lost. In `ConWeaveOrder` five packets are enough for two epochs with a rerouting in each,
two packets in the VOQ, and one of an older epoch behind them. One kind of fault may happen any number of times; with two kinds (an expiry while a
VOQ waits, and the loss of the INIT of the new epoch) `AssertionsHold` fails: the TAIL of the new epoch sets
phase 1 at once although the VOQ is flushed 1 ns later. In `HostEgress` two QPs are needed for one to hide the other's wake-up;
the two rates make a wait longer than a transmission. Two packets suffice to be sent and resent; three were tried for the
invariants. The QP with a window of 1 waits for the ACK of its first packet, which must make the NIC look again (the mutant of `Completes`); the
other may have both in flight. In `EgressQueue` three data queues are the least in which a turn can be given to the wrong one, and the
limit lets every queue hold a packet and refuses one. `MaxLoss`, `MaxEarly`, `MaxExpire`, `MaxSeq`, `Capacity`, `MaxFaults`, `MaxAcks`,
`MaxPauses` and `MaxBacks` are bounds of the model, not of the code.

Deadlock is checked in the runs of `SwitchMmu`, `PfcLink`, `IrnSackManager` and `BEgressQueue`. `LapsTransport`, `GbnTransport`
and `HostEgress` stop once every flow has completed, `ConWeave` once all packets were sent; their liveness properties cover what is
stuck before.

Fairness. In `LapsTransport`: a started flow that may send sends eventually (the round robin of
`GetNextQindexOnHostForLaps`, and the ACKs and timeouts that call `TriggerTransmit`), what is on the wire
is delivered or handled, a running timer expires (`Simulator::Schedule`). Losses are never required. The path of a packet
is not covered by fairness. In `PfcLink`: links deliver and the egress port is served; no device has to
send and no pause has to expire. In `GbnTransport`: the application opens the flow, the NIC serves the QP, the network delivers what it
does not lose, a timer fires. The timer may fire at any time, so fairness cannot stand for a timer that is long enough. In
`ConWeave`: packets and replies arrive and a scheduled flush happens; nobody has to send. In `HostEgress`: the simulator executes
its events, a pause ends (its timer), and what was sent is acknowledged in the end; the scheduler itself gets no fairness, since
that is the question.

### Finding

`LapsLateAck`: `checkOutstandingDataAndUpdateLossyData` (`rdma-hw.cc:1862`, `1949`) asserts that an acknowledged
packet is outstanding on its path. The timer of a path is a constant that nothing ties to what the
path still carries; after it expired, a late ACK fails the assertion. `LapsSpuriousRto` shows that up to that
point nothing is delivered wrongly.

Observations, stated as hazards. In mode GBN `m_retransmit` is started by an ACK (`rdma-hw.cc:1771`), neither by a send nor by
`HandleTimeout`: a flow whose first window is lost as a whole, or whose retransmission after a timeout is, stays where it is
(`NotStranded` and `Completes` hold up to that). The ACK that completes a flow returns before `TriggerTransmit`
(`rdma-hw.cc:1767`): with `VarWin` TRUE and three packets a flow that went back is held by a window that shrank with its rate, its
last ACK completes it, and the other QP, which only waited for its pacing time, has no wake-up (`NotForgotten` fails).
The configurations set `enableVarWin` to false. With modes IRN and IRN_OPT `GetBytesLeft` ends the program
(`rdma-queue-pair.cc:241`). In `ConWeave` an entry that ages at the sender's switch alone starts again with epoch 1, which the
receiver's switch takes for an old one and never reorders. `config_switch_mmu` grants `2 * delay * rate` and two packets of
headroom, with the rate of the NICs for every port; `HeadroomSuffices` needs one packet less a byte more, for the overshoot of
the packet that causes the PAUSE, and the rate of the port. The switch never repeats a PAUSE, so once the pause time
of 5 us is over the class is open although it is congested, for as long as the congestion lasts (`unheeded` in `PfcAgreement` and `Lossless`): a
port then may lose packets of a lossless class. The properties show that this is the only way, that no other port suffers, and that the next PAUSE
counts again.

## Proofs

Checked by TLAPS for all values of the constants under the named assumptions:

* `LapsTransportProofs`. For any losses and any number of early timeouts: `TypeCorrect` (`TypeOK`), `Accounted` (`AccountedOnce`), `Ordered`
  (`Ranges`: `snd_una`, the SACK set and `m_max_next_seq` are in order within the flow), `TimerCorrect` (`TimerArmed`), `OnlyDelivered`
  (`Delivered`), `Refines` (`TransferSafe`), `WindowRespected` (`OnTheFlyExact`). The inductive invariant starts from
  `TypeOK /\ Ranges /\ AccountedOnce`: a retransmission keeps `AccountedOnce` only because
  an entry of the lossy list is unacknowledged and nowhere else, a new packet only because all listed packets are
  below `m_max_next_seq`, and an ACK only because the packet it names was listed once. `DeliveryInv` relates the network to both ends: a
  packet under way was sent, an ACK under way names a packet that was
  received, `snd_una` and the SACK set hold received packets only, and the receive QP is finished exactly when the flow is. So
  a new packet at the receiver is a delivery, and the flow that finishes has delivered everything. For the window, the packets from
  `snd_una` to `m_max_next_seq` that are not in the SACK set are, by `AccountedOnce`, the entries of the two kinds of list; bijections count them
  against the lists. Under the hypothesis `MaxEarly = 0` (a timer expires on a silent path only): `InFlightOrdered` (`InFlightListed`),
  `LossesAreReal` (`NoFalseLoss`), `DoneIsQuiescent` (`QuiescentWhenDone`), and `AckIsExpected` (`AckFindsEntry`, the assertion that `LapsLateAck`
  finds violated otherwise). The invariant is that the packets and ACKs under way on a path, ACKs first, embed in
  order into the list of the path (`Embeds`, an increasing map of positions); there is a lemma for each thing a handler does to
  a list or to a channel. What an ACK jumps over is then on no channel, which is why it is lost. Assumptions: sizes are positive,
  `PathsOf` maps to subsets of `Paths`.
* `LapsTransportProofs`, last part: `BlocksCanonical` (`Canonical`) and `BlocksExact` (`Exact`) of `IrnSackManager`, for any `MaxSeq`. The inductive
  invariant `SackInv` says that the blocks are in order with a gap between neighbours, lie after `snd_una`, and hold exactly `bytes`.
  The two loops of `sack` and the sum of `getSackBufferOverhead` are folds; a lemma for each gives the sequence of intermediate values, and
  an invariant of the loop is shown along it (`Walked`, `Joined`). `Walked` is where the cases of the loop meet: what has
  been put out is in order and holds the blocks passed and the part of the new one passed; it has gaps as long as the rest to insert does
  not touch the last block, and always when the loop ends without asking for the merging pass. That is why the early return of a
  block found inside another needs no merging. `Settles` then needs of a handler only that `snd_una` is not
  acknowledged or that nothing acknowledged lies before it; a delayed NACK satisfies the first, a new one the second.
* `SwitchMmuProofs`: `TypeCorrect`, `HeadroomCorrect` (`HdrmExact`), `HeadroomBounded` (`HdrmBound`), `PauseCorrect`
  (`CongestedIsPaused`), `PauseCanEnd` (`PausedWillResume`), `BufferHolds` (`OccupancyBounded`). The invariant is stated per class: the headroom
  counter is the excess over reserve and share, and
  the pause flag lies between the pause and the resume condition. With it no `uint32_t` subtraction wraps, so `Minus` can be
  replaced by integer subtraction. A class holds at most its reserve, its share and its headroom; the sum over all of them is at most the
  buffer because of the integer division by which `ConfigNPort` computes the share. Assumptions: `ConfigAssumption`, `SharedAssumption`.
* `PfcLinkProofs`: `EndsAgree` (`PfcAgreement`), `NoLoss` (`Lossless`), `TypeCorrect` (`TypeOK`), `CountersExact`
  (`BytesHeld`), for any number of devices, sizes and delays. For `EndsAgree`, what a device is told is the last frame under way
  to it or, if there is none, its own state. The switch has the last word, a device that obeys a frame is told nothing new, and
  a pause that times out changes that only when no frame is under way. Since every step of the link is one of
  `SwitchMmu` or leaves it alone (the lemma `DrivesMmu`), the invariants of `SwitchMmuProofs` hold here too. `NoLoss` uses them, and `LinkFits`:
  the headroom that is left to a paused class covers the packets on its link and those its device may still send, unless the device has let this
  pause run out. A congestion that ends leaves no headroom in use, so the next PAUSE starts afresh whatever happened before. The property
  speaks of each port by itself: it is conditional on that port's `HeadroomSuffices` and on its own pause. `LinkAssumption` asks for `RoundTrip >= 1`, since `RoundTrip` counts the packet that is
  being sent when a frame arrives; with 0 the property would be false. `CountersExact` sums the
  bytes of the FIFO per ingress port under appending and taking the head.
* `GbnTransportProofs`: `TypeCorrect` (`TypeOK`), `CumulativeCorrect` (`Cumulative`), `NeverStranded` (`NotStranded`), `Refines`
  (`TransferSafe`). The inductive invariant adds `Opened`: before the flow is opened nothing was sent, and the receive QP is
  gone exactly when the flow is complete. `NotStranded` needs `Cumulative`, since the packet under way that will be answered is one not above `expected`;
  the refinement maps a delivered packet to one below `expected`, so that each receipt of a new packet is a delivery, and
  `ReceiveLastAck` may finish because `una`, which reached the size, never exceeds `expected`. The bags are functions to the naturals and
  `Room` only restricts, so `Capacity` and `MaxLoss` are arbitrary.
* `BEgressQueueProofs`: `TypeCorrect` (`TypeOK`), `NeverIdle` (`WorkConserving`), `FairTurns` (`RoundRobin`), for any number of queues. `TypeOK` says
  that the byte counters are the sums of what is queued and within the limit; `Counted` carries this through an append and a take. The
  strengthening of
  `RoundRobin` is by distance: how many queues `DoDequeueRR` looks at before it comes to a queue. A queue that passed q once is farther away
  than q until q has had its turn; the served queue becomes the farthest and all beyond it come nearer by the
  same amount. The remainder `(k + m_rrlast) % qCnt` and the minimum over a set are lemmas of their own.
* `ConWeaveProofs`: `TypeCorrect` (`TypeOK`), `OrderKept` (`InOrder`), `AssertionsKept`, `OneFault` (`AssertionsHold`), for any number of paths and packets.
  `InOrder` excuses three faults (an expiry with packets under way, an early flush, an entry aged at one switch). As long as none of them has
  happened (`Calm`), the invariant `Order` holds: the packets of the old epoch under way are on one path, all older than the VOQ, the VOQ is older than the
  new packets under way, and the TAIL is the last of the old ones. `Sound` (the types, and the assertions that hold whatever happens) needs no such
  hypothesis. The assertion that there is no VOQ in phase 1 does: it holds while no packet is lost (`NoLossOrder`: a TAIL follows its INIT
  on its path) and while nothing but losses happens (`Order`), which is `AssertionsKept`. `OneFault` is the case `MaxFaults <= 1`, the kind of run
  `ConWeaveOrder` checks; with two kinds of fault TLC finds a violation, so the hypothesis is needed.
* `HostEgressProofs`: `TypeCorrect` (`TypeOK`), for any window and any rates, and `NoneForgotten` (`NotForgotten`), for windows that are constant or none
  (`FixedWindows`): an idle NIC with a QP that could send has a wake-up, a pause that will end, or a flow that waits for an ACK of its own. The
  proof is about a round of the scheduler (what `DequeueAndTransmit` leaves behind, `LookOK`) and about the events that end without one.
  The case that needs the hypothesis is the last ACK of a flow (`LastAckStep`), which does not trigger the NIC: with a variable window it can be the
  only event another QP waits for (see the observations above).
* `SumLemmas`: the sum of a function over a finite set exists, does not depend on the order in which elements are chosen, and changes as expected
  when an element is added, removed or changed. `MapThenSumSet` chooses an arbitrary element at each step, so this is not by definition.

The library's induction theorems take an operator as a parameter and cannot be instantiated by the installed provers. Where a proof
needs induction it takes the least natural number for which the claim fails (`LeastNat`, from the well-foundedness of `<`). What is proved so is
about one fold each: nothing is proved about folds with an arbitrary operator.

Only model-checked: the liveness properties (`TransferLive`, `PauseEnds`, `Completes` of `GbnTransport` and `HostEgress`, `AllDelivered`,
`ReroutingEnds`) and the absence of deadlock, which need fairness and `ENABLED`, out of the prover's reach. Every invariant and every action property the passing
runs check is proved, under the hypotheses named above; `NotForgotten` with a variable window does not hold, and `AckFindsEntry` without `MaxEarly = 0` is
the finding.

## Not modelled

Rate control, congestion control and path weights (floating point); hashing and random choices of the other load balancers, which only
decide in which order packets arrive (`GbnTransport` allows every order); ECN marking; packet formats; topology, routing tables, link
failures; traces. In `ConWeave` the choice of a path and the prediction of the flush time. Modes IRN and IRN_OPT cannot run in this tree
(`GetBytesLeft` ends the program), so there is no behaviour to model; back-to-zero and acknowledging every n-th chunk are off in
every configuration. Chains of switches, several priorities of one flow's path, and LAPS-plus are not modelled.

The repository's Python is no part of the modelled logic: most of it are the generated bindings of the vendored ns-3 modules (`*/bindings/modulegen__*.py`)
and its build system; the authors' own scripts build command lines (`laps_share`) and draw figures. What is modelled is C++.

## Plan

1. Extend the model: `LapsPlus`, the path credit on top of `LapsTransport` (the credit is the bytes outstanding); the
   flowlet tables of LetFlow and CONGA; the variant of `HostEgress` that LAPS uses.
2. Prove more: that the SACK set of `LapsTransport` changes as the block list of `IrnSackManager` does, packet by packet, so that
   the composition of both implements `ReliableTransfer`; the theorems that the modules of item 1 deserve.
