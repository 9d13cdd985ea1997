-------------------------- MODULE ReliableTransfer ---------------------------
(* What a QP promises the application that opened it (RdmaClient), whatever   *)
(* the transport below it does: the packets of a flow reach the receiver, in  *)
(* any order, and the flow completes once they all have.                      *)
EXTENDS Naturals

CONSTANTS
    Flows,      \* the flows
    Size        \* [Flows -> packets of the flow]

VARIABLES
    status,     \* [Flows -> {"new", "live", "done"}]
    delivered   \* [Flows -> SUBSET Nat], packets the receiver has

vars == <<status, delivered>>

Packets(f) == 0..(Size[f] - 1)

Init ==
    /\ status = [f \in Flows |-> "new"]
    /\ delivered = [f \in Flows |-> {}]

Start(f) ==
    /\ status[f] = "new"
    /\ status' = [status EXCEPT ![f] = "live"]
    /\ UNCHANGED delivered

Deliver(f) ==
    /\ status[f] = "live"
    /\ \E s \in Packets(f) \ delivered[f] :
          delivered' = [delivered EXCEPT ![f] = @ \cup {s}]
    /\ UNCHANGED status

Finish(f) ==
    /\ status[f] = "live"
    /\ delivered[f] = Packets(f)
    /\ status' = [status EXCEPT ![f] = "done"]
    /\ UNCHANGED delivered

Next == \E f \in Flows : Start(f) \/ Deliver(f) \/ Finish(f)

Spec == Init /\ [][Next]_vars

\* Every flow starts and is carried through to its completion.
FairSpec ==
    Spec /\ \A f \in Flows : WF_vars(Start(f)) /\ WF_vars(Deliver(f)) /\ WF_vars(Finish(f))

=============================================================================
