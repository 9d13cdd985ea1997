----------------------------- MODULE MCSwitchMmu -----------------------------
(* An instance of SwitchMmu for TLC: two ports with different headrooms and   *)
(* packets of three sizes that are no multiple of any threshold.              *)
EXTENDS SwitchMmu

CONSTANTS port1, port2

MCPorts == {port1, port2}
MCSizes == {1, 3, 4}
MCHeadroom == [p \in MCPorts |-> IF p = port1 THEN 5 ELSE 2]

=============================================================================
