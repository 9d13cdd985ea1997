------------------------------ MODULE MCPfcLink ------------------------------
(* Instances of PfcLink for TLC.                                              *)
EXTENDS PfcLink

CONSTANTS port1, port2, out

MCIn == {port1, port2}
OneIn == {port1}
MCSizes == {1, 2}

\* The headroom of HeadroomSuffices for packets of at most 2 bytes, to the byte, with
\* one packet in flight and one of reaction time, but a byte less at the second port;
\* and with two of each.
ShortHeadroom == [p \in {port1, port2, out} |-> IF p = port2 THEN 2 ELSE 3]
LongHeadroom == [p \in {port1, out} |-> 7]

=============================================================================
