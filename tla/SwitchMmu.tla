------------------------------ MODULE SwitchMmu ------------------------------
(* The shared-buffer accounting of a switch (class SwitchMmu) as SwitchNode   *)
(* drives it: a packet is admitted against its ingress port and queue, may    *)
(* raise a PFC pause of that port and queue, and is released when it leaves   *)
(* through its egress port, which may end the pause.                          *)
(*                                                                            *)
(* An ingress port and queue, <<port, qIndex>>, is a class.  Queue 0 (PFC     *)
(* frames, ACKs) bypasses the accounting and is not a member of Queues.       *)
EXTENDS Integers, FiniteSets, FiniteSetsExt

CONSTANTS
    Ports,          \* the switch ports
    Queues,         \* the data queues (priority groups) in use
    Sizes,          \* packet sizes in bytes
    BufferSize,     \* buffer_size
    Reserve,        \* reserve, per port and queue
    ResumeOffset,   \* resume_offset
    Headroom,       \* [Ports -> bytes], headroom
    Word            \* uint32_t holds 0..(Word - 1)

Classes == Ports \X Queues

\* ConfigNPort: what the headrooms and reserves leave of the buffer is split
\* evenly over the ports.
SharedBytes ==
    (BufferSize - MapThenSumSet(LAMBDA p : Headroom[p], Ports)
                - Reserve * Cardinality(Ports)) \div Cardinality(Ports)

ASSUME ConfigAssumption ==
    /\ IsFiniteSet(Ports) /\ IsFiniteSet(Queues)
    /\ BufferSize \in Nat
    /\ Reserve \in Nat
    /\ ResumeOffset \in Nat \ {0}
    /\ Headroom \in [Ports -> Nat]
    /\ Word \in Nat

\* The share of a port holds a packet, and the counters hold its buffer.
ASSUME SharedAssumption ==
    /\ SharedBytes \in Nat \ {0}
    /\ Sizes \subseteq 1..SharedBytes
    /\ \A p \in Ports : Reserve + SharedBytes + Headroom[p] + SharedBytes < Word

VARIABLES
    ingress,        \* [Classes -> Nat], ingress_bytes
    hdrm,           \* [Classes -> Nat], hdrm_bytes
    paused,         \* [Classes -> BOOLEAN], paused
    egress,         \* [Classes -> Nat], egress_bytes, by egress port and queue
    sharedUsed      \* shared_used_bytes

vars == <<ingress, hdrm, paused, egress, sharedUsed>>

-----------------------------------------------------------------------------
Least(a, b) == IF a <= b THEN a ELSE b

\* Subtraction of two uint32_t.
Minus(a, b) == IF a >= b THEN a - b ELSE a - b + Word

GetPfcThreshold == SharedBytes

\* GetSharedUsed of a class whose ingress counter is b.
GetSharedUsed(b) == IF b > Reserve THEN Least(Minus(b, Reserve), SharedBytes) ELSE 0

\* Mutant of CheckIngressAdmission: the packet itself is not counted.
CheckAdmissionNoSize(c, z) ==
    \/ hdrm[c] <= Headroom[c[1]]
    \/ z + GetSharedUsed(ingress[c]) <= GetPfcThreshold

CheckIngressAdmission(c, z) ==
    \/ z + hdrm[c] <= Headroom[c[1]]
    \/ z + GetSharedUsed(ingress[c]) <= GetPfcThreshold

\* Mutant of ShouldPause: a share that is used up exactly is no congestion.
ShouldPauseHdrmOnly(b, h) == h > 0

\* CheckShouldPause and CheckShouldResume of a class that is not / is paused,
\* whose counters are b and h.
ShouldPause(b, h) == h > 0 \/ GetSharedUsed(b) >= GetPfcThreshold

ShouldResume(b, h) ==
    /\ h = 0
    /\ \/ GetSharedUsed(b) = 0
       \/ GetSharedUsed(b) + ResumeOffset <= GetPfcThreshold

\* UpdateIngressAdmission: does the packet reach beyond reserve and threshold,
\* and how many of its bytes are taken from the shared part?
Exceeds(c, z) ==
    ingress[c] + z > Reserve /\ Minus(ingress[c] + z, Reserve) > GetPfcThreshold

SharedInc(c, z) ==
    IF Exceeds(c, z)
    THEN IF Minus(ingress[c], Reserve) >= GetPfcThreshold
         THEN 0
         ELSE Minus(GetPfcThreshold, Minus(ingress[c], Reserve))
    ELSE IF ingress[c] + z > Reserve
         THEN Least(z, Minus(ingress[c] + z, Reserve))
         ELSE 0

\* Mutants of HdrmInc: the whole packet goes to the headroom (a former version, kept
\* as a comment in UpdateIngressAdmission); the operands are swapped; nothing does.
HdrmIncWhole(c, z) == IF Exceeds(c, z) THEN z ELSE 0

HdrmIncSwapped(c, z) == IF Exceeds(c, z) THEN SharedInc(c, z) - z ELSE 0

HdrmIncNone(c, z) == 0

HdrmInc(c, z) == IF Exceeds(c, z) THEN Minus(z, SharedInc(c, z)) ELSE 0

\* RemoveFromIngressAdmission.
FromHdrm(c, z) == Least(hdrm[c], z)

FromShared(c, z) ==
    Least(Minus(z, FromHdrm(c, z)),
          IF ingress[c] > Reserve THEN Minus(ingress[c], Reserve) ELSE 0)

-----------------------------------------------------------------------------
Init ==
    /\ ingress = [c \in Classes |-> 0]
    /\ hdrm = [c \in Classes |-> 0]
    /\ paused = [c \in Classes |-> FALSE]
    /\ egress = [c \in Classes |-> 0]
    /\ sharedUsed = 0

\* SendToDevContinue / DoSwitchSend: a packet of z bytes that came in on class c
\* is admitted to egress port o, then CheckAndSendPfc.  (A packet that is not
\* admitted is dropped and leaves the accounting alone.)
Admit(c, o, z) ==
    LET b == ingress[c] + z
        h == hdrm[c] + HdrmInc(c, z)
    IN
    /\ CheckIngressAdmission(c, z)
    /\ ingress' = [ingress EXCEPT ![c] = b]
    /\ hdrm' = [hdrm EXCEPT ![c] = h]
    /\ sharedUsed' = sharedUsed + SharedInc(c, z)
    /\ egress' = [egress EXCEPT ![<<o, c[2]>>] = @ + z]
    /\ paused' = [paused EXCEPT ![c] = @ \/ ShouldPause(b, h)]

\* Mutant of Release: CheckAndSendResume runs before the counters are decremented.
ReleaseChecksEarly(c, o, z) ==
    /\ z <= ingress[c] /\ z <= egress[<<o, c[2]>>]
    /\ ingress' = [ingress EXCEPT ![c] = Minus(@, z)]
    /\ hdrm' = [hdrm EXCEPT ![c] = Minus(@, FromHdrm(c, z))]
    /\ sharedUsed' = Minus(sharedUsed, FromShared(c, z))
    /\ egress' = [egress EXCEPT ![<<o, c[2]>>] = Minus(@, z)]
    /\ paused' = [paused EXCEPT ![c] = @ /\ ~ShouldResume(ingress[c], hdrm[c])]

\* SwitchNotifyDequeue: the packet leaves through port o, then CheckAndSendResume.
\* The caller releases only what it admitted.
Release(c, o, z) ==
    LET b == Minus(ingress[c], z)
        h == Minus(hdrm[c], FromHdrm(c, z))
    IN
    /\ z <= ingress[c] /\ z <= egress[<<o, c[2]>>]
    /\ ingress' = [ingress EXCEPT ![c] = b]
    /\ hdrm' = [hdrm EXCEPT ![c] = h]
    /\ sharedUsed' = Minus(sharedUsed, FromShared(c, z))
    /\ egress' = [egress EXCEPT ![<<o, c[2]>>] = Minus(@, z)]
    /\ paused' = [paused EXCEPT ![c] = @ /\ ~ShouldResume(b, h)]

Next == \E c \in Classes, o \in Ports, z \in Sizes : Admit(c, o, z) \/ Release(c, o, z)

Spec == Init /\ [][Next]_vars

-----------------------------------------------------------------------------
(* Properties                                                                 *)

TypeOK ==
    /\ ingress \in [Classes -> Nat]
    /\ hdrm \in [Classes -> Nat]
    /\ paused \in [Classes -> BOOLEAN]
    /\ egress \in [Classes -> Nat]
    /\ sharedUsed \in Int

\* The headroom counter is exactly what a class holds beyond its reserve and its
\* share, in whatever order packets of whatever size come and go: no uint32
\* subtraction wraps.  CheckIngressAdmission carries this as a check that is
\* commented out (switch-mmu.cc:50-65).
HdrmExact ==
    \A c \in Classes :
        hdrm[c] = IF ingress[c] > Reserve + SharedBytes
                  THEN ingress[c] - Reserve - SharedBytes ELSE 0

\* Admission keeps every class within the headroom of its port.
HdrmBound == \A c \in Classes : hdrm[c] <= Headroom[c[1]]

\* A class that has used up its share is paused: no packet enters the headroom of
\* a class whose upstream device was not told to stop.
CongestedIsPaused ==
    \A c \in Classes : ingress[c] >= Reserve + SharedBytes => paused[c]

\* A paused class still holds bytes whose release will end the pause: a RESUME is
\* only ever sent from a dequeue, so a paused class that could already resume, or
\* that holds nothing, would stay paused for ever.
PausedWillResume ==
    \A c \in Classes : paused[c] =>
        ~ShouldResume(ingress[c], hdrm[c]) /\ ingress[c] > Reserve

\* With one data queue per port the packets fit the buffer.  (The headroom and the
\* share are per port but are granted to every queue of the port.)
OccupancyBounded ==
    Cardinality(Queues) = 1 =>
        MapThenSumSet(LAMBDA c : ingress[c], Classes) <= BufferSize

=============================================================================
