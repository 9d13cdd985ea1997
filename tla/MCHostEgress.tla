---------------------------- MODULE MCHostEgress ----------------------------
(* Two QPs of different priority groups; the acknowledgements share the group *)
(* of the first.                                                              *)
EXTENDS HostEgress

CONSTANTS f1, f2, low, high

MCFlows == {f1, f2}
MCGroup == [q \in MCFlows |-> IF q = f1 THEN low ELSE high]
MCGaps == {1, 2}

\* The first QP waits for the ACK of each packet, the second may have two in flight.
MCWindow == [q \in MCFlows |-> IF q = f1 THEN 1 ELSE 2]
=============================================================================
