------------------------------- MODULE PfcLink -------------------------------
(* Priority flow control between a switch and the devices upstream of it:     *)
(* QbbNetDevice on both ends of a link, SwitchNode and SwitchMmu behind it,   *)
(* for one data queue (priority group).                                       *)
(*                                                                            *)
(* Every ingress port has an upstream device that sends data packets over a   *)
(* link and honours the PFC frames that travel the other way; the packets     *)
(* leave the switch through one egress port, in FIFO order.                   *)
EXTENDS Integers, Sequences, FiniteSets, FiniteSetsExt

CONSTANTS
    In,             \* ingress ports of the switch
    Out,            \* its egress port
    Queue,          \* the data queue
    Sizes, BufferSize, Reserve, ResumeOffset, Headroom, Word,   \* see SwitchMmu
    LinkPackets,    \* data packets a link holds in flight
    RoundTrip,      \* data packets an upstream device sends, at most, from the
                    \* moment a PFC frame is queued until it takes effect
    MaxExpire       \* bound: pauses that time out in a behaviour

ASSUME OutAssumption == Out \notin In
\* RoundTrip counts at least the packet that is being sent when a frame arrives.
ASSUME LinkAssumption ==
    LinkPackets \in Nat /\ RoundTrip \in Nat \ {0} /\ MaxExpire \in Nat

VARIABLES
    upPaused,       \* [In -> BOOLEAN], m_paused of the upstream device: TRUE
                    \* exactly while its m_resumeEvt is scheduled
    wire,           \* [In -> Seq(Sizes)], data packets on the link
    frames,         \* [In -> Seq(Frame)], PFC frames on their way upstream
    fifo,           \* Seq([in : In, size : Sizes]), m_queue of the egress port
    expiries,       \* pauses that timed out so far (bounds the model only)
    unheeded,       \* SUBSET In, a history that no guard reads: the pause of the
                    \* device timed out, and its class is still the paused one
    ingress, hdrm, paused, egress, sharedUsed       \* the switch's MMU

mmuVars == <<ingress, hdrm, paused, egress, sharedUsed>>
vars == <<upPaused, wire, frames, fifo, expiries, unheeded, mmuVars>>

Mmu == INSTANCE SwitchMmu WITH Ports <- In \cup {Out}, Queues <- {Queue}

\* What SwitchMmu assumes of the configuration.
ASSUME MmuAssumption ==
    /\ IsFiniteSet(In) /\ BufferSize \in Nat
    /\ Reserve \in Nat /\ ResumeOffset \in Nat \ {0} /\ Word \in Nat
    /\ Headroom \in [In \cup {Out} -> Nat]
    /\ Mmu!SharedBytes \in Nat \ {0}
    /\ Sizes \subseteq 1..Mmu!SharedBytes
    /\ \A p \in In \cup {Out} :
          Reserve + Mmu!SharedBytes + Headroom[p] + Mmu!SharedBytes < Word

Class(i) == <<i, Queue>>

\* A PFC frame asks for a pause or ends it; age counts the data packets that were
\* sent upstream since it was queued.
Frame == [pause : BOOLEAN, age : 0..RoundTrip]
PFC(type) == [pause |-> type, age |-> 0]
Older(frame) == [frame EXCEPT !.age = @ + 1]

-----------------------------------------------------------------------------
Init ==
    /\ upPaused = [i \in In |-> FALSE]
    /\ wire = [i \in In |-> <<>>]
    /\ frames = [i \in In |-> <<>>]
    /\ fifo = <<>>
    /\ expiries = 0
    /\ unheeded = {}
    /\ Mmu!Init

\* Mutant of Send: the device does not wait for the link.
SendWhileBusy(i, z) ==
    /\ ~upPaused[i]
    /\ \A k \in DOMAIN frames[i] : frames[i][k].age < RoundTrip
    /\ wire' = [wire EXCEPT ![i] = Append(@, z)]
    /\ frames' = [frames EXCEPT ![i] = [k \in DOMAIN @ |-> Older(@[k])]]
    /\ UNCHANGED <<upPaused, fifo, expiries, unheeded, mmuVars>>

\* DequeueAndTransmit of the upstream device: a paused queue is skipped.
Send(i, z) ==
    /\ ~upPaused[i] /\ Len(wire[i]) < LinkPackets
    /\ \A k \in DOMAIN frames[i] : frames[i][k].age < RoundTrip
    /\ wire' = [wire EXCEPT ![i] = Append(@, z)]
    /\ frames' = [frames EXCEPT ![i] = [k \in DOMAIN @ |-> Older(@[k])]]
    /\ UNCHANGED <<upPaused, fifo, expiries, unheeded, mmuVars>>

\* Mutant of Arrive: no PAUSE is sent.
ArriveSilent(i) ==
    /\ wire[i] # <<>>
    /\ Mmu!Admit(Class(i), Out, Head(wire[i]))
    /\ wire' = [wire EXCEPT ![i] = Tail(@)]
    /\ fifo' = Append(fifo, [in |-> i, size |-> Head(wire[i])])
    /\ UNCHANGED <<upPaused, frames, expiries, unheeded>>

\* Receive, then DoSwitchSend: the packet is admitted and queued at the egress
\* port; CheckAndSendPfc sends a PAUSE when it makes the class congested.
Arrive(i) ==
    /\ wire[i] # <<>>
    /\ Mmu!Admit(Class(i), Out, Head(wire[i]))
    /\ wire' = [wire EXCEPT ![i] = Tail(@)]
    /\ fifo' = Append(fifo, [in |-> i, size |-> Head(wire[i])])
    /\ frames' = IF paused'[Class(i)] /\ ~paused[Class(i)]
                 THEN [frames EXCEPT ![i] = Append(@, PFC(TRUE))]
                 ELSE frames
    /\ UNCHANGED <<upPaused, expiries, unheeded>>

\* The packet is not admitted and is dropped.
Drop(i) ==
    /\ wire[i] # <<>>
    /\ ~Mmu!CheckIngressAdmission(Class(i), Head(wire[i]))
    /\ wire' = [wire EXCEPT ![i] = Tail(@)]
    /\ UNCHANGED <<upPaused, frames, fifo, expiries, unheeded, mmuVars>>

\* Mutants of Dequeue: the bytes are released from the class of the last
\* packet; no RESUME is sent.
DequeueWrongClass ==
    LET i == fifo[Len(fifo)].in IN
    /\ fifo # <<>>
    /\ Mmu!Release(Class(i), Out, Head(fifo).size)
    /\ fifo' = Tail(fifo)
    /\ frames' = IF paused[Class(i)] /\ ~paused'[Class(i)]
                 THEN [frames EXCEPT ![i] = Append(@, PFC(FALSE))]
                 ELSE frames
    /\ unheeded' = IF paused'[Class(i)] THEN unheeded ELSE unheeded \ {i}
    /\ UNCHANGED <<upPaused, wire, expiries>>

DequeueSilent ==
    /\ fifo # <<>>
    /\ Mmu!Release(Class(Head(fifo).in), Out, Head(fifo).size)
    /\ fifo' = Tail(fifo)
    /\ UNCHANGED <<upPaused, wire, frames, expiries, unheeded>>

\* DequeueAndTransmit of the egress port: SwitchNotifyDequeue releases the packet,
\* and CheckAndSendResume sends a RESUME when that ends the congestion.
Dequeue ==
    LET i == Head(fifo).in IN
    /\ fifo # <<>>
    /\ Mmu!Release(Class(i), Out, Head(fifo).size)
    /\ fifo' = Tail(fifo)
    /\ frames' = IF paused[Class(i)] /\ ~paused'[Class(i)]
                 THEN [frames EXCEPT ![i] = Append(@, PFC(FALSE))]
                 ELSE frames
    /\ unheeded' = IF paused'[Class(i)] THEN unheeded ELSE unheeded \ {i}
    /\ UNCHANGED <<upPaused, wire, expiries>>

\* Mutant of ReceivePfc: the newest frame overtakes the others.
ReceivePfcNewest(i) ==
    /\ frames[i] # <<>>
    /\ upPaused' = [upPaused EXCEPT ![i] = frames[i][Len(frames[i])].pause]
    /\ frames' = [frames EXCEPT ![i] = SubSeq(@, 1, Len(@) - 1)]
    /\ UNCHANGED <<wire, fifo, expiries, unheeded, mmuVars>>

\* Receive of a PFC frame: a PAUSE stops the queue and schedules its end anew, a
\* RESUME (time 0) cancels that event and resumes at once.
ReceivePfc(i) ==
    /\ frames[i] # <<>>
    /\ upPaused' = [upPaused EXCEPT ![i] = Head(frames[i]).pause]
    /\ frames' = [frames EXCEPT ![i] = Tail(@)]
    /\ UNCHANGED <<wire, fifo, expiries, unheeded, mmuVars>>

\* m_resumeEvt fires: the pause time is over, whatever the switch thinks of it.  With
\* no frame on its way the pause was the one the switch still counts on.
PauseExpires(i) ==
    /\ expiries < MaxExpire
    /\ upPaused[i]
    /\ upPaused' = [upPaused EXCEPT ![i] = FALSE]
    /\ expiries' = expiries + 1
    /\ unheeded' = IF frames[i] = <<>> THEN unheeded \cup {i} ELSE unheeded
    /\ UNCHANGED <<wire, frames, fifo, mmuVars>>

Next ==
    \/ \E i \in In :
          \/ \E z \in Sizes : Send(i, z)
          \/ Arrive(i) \/ Drop(i) \/ ReceivePfc(i) \/ PauseExpires(i)
    \/ Dequeue

Spec == Init /\ [][Next]_vars

\* The links deliver, and the egress port is served.  No device has to send, and
\* no pause has to time out.
Fairness ==
    /\ \A i \in In : WF_vars(Arrive(i) \/ Drop(i)) /\ WF_vars(ReceivePfc(i))
    /\ WF_vars(Dequeue)

FairSpec == Spec /\ Fairness

-----------------------------------------------------------------------------
(* Properties                                                                 *)

TypeOK ==
    /\ upPaused \in [In -> BOOLEAN]
    /\ \A i \in In : wire[i] \in Seq(Sizes) /\ Len(wire[i]) <= LinkPackets
    /\ frames \in [In -> Seq(Frame)]
    /\ fifo \in Seq([in : In, size : Sizes])
    /\ expiries \in 0..MaxExpire
    /\ unheeded \subseteq In
    /\ Mmu!TypeOK

\* What the upstream device will take for the state of its queue once it has read
\* every frame that is on its way.
Told(i) == IF frames[i] = <<>> THEN upPaused[i] ELSE frames[i][Len(frames[i])].pause

\* The two ends of a link agree: the switch has its class paused exactly while the
\* upstream device is (about to be) paused, or its pause timed out during this very
\* congestion, for the switch never repeats a PAUSE.  A pause that times out while a
\* frame is on its way, or during an earlier congestion, makes no difference.
PfcAgreement ==
    \A i \in In :
        /\ paused[Class(i)] <=> Told(i) \/ i \in unheeded
        /\ ~(Told(i) /\ i \in unheeded)

\* The counters of the MMU are the bytes the egress queue really holds, by ingress
\* port and in all.
BytesHeld ==
    LET Held(ks) == MapThenSumSet(LAMBDA k : fifo[k].size, ks) IN
    /\ \A i \in In :
          ingress[Class(i)] = Held({k \in DOMAIN fifo : fifo[k].in = i})
    /\ egress[Class(Out)] = Held(DOMAIN fifo)

\* A headroom that takes the overshoot of the packet that causes the PAUSE and all
\* that the link can still bring until the PAUSE takes effect.  LinkPackets counts
\* the packet being received, so with one-way delay D (in packets) it is D + 1, and
\* RoundTrip is D + 2: the PFC frame waits for a packet at the switch, travels, and
\* waits for a packet upstream.  config_switch_mmu grants 2D + 2 packets, which is
\* this but for the overshoot.
HeadroomSuffices(i) == Headroom[i] >= (LinkPackets + RoundTrip) * Max(Sizes) - 1

\* A port with that headroom loses data only in a congestion that outlasts the pause
\* of its own upstream device: neither a pause that timed out in an earlier
\* congestion, or at another port, nor another port's lack of headroom costs it one.
Lossless ==
    \A i \in In :
        HeadroomSuffices(i) /\ i \notin unheeded /\ wire[i] # <<>> =>
            Mmu!CheckIngressAdmission(Class(i), Head(wire[i]))

\* No pause lasts for ever, even if none times out: the RESUME always comes.
PauseEnds == \A i \in In : upPaused[i] ~> ~upPaused[i]

=============================================================================
