--------------------------- MODULE MCLapsTransport ---------------------------
(* Instances of LapsTransport for TLC: a long and a short flow share two      *)
(* paths; the window is smaller than the long flow.                           *)
EXTENDS LapsTransport, TLC

CONSTANTS f1, f2, p1, p2

MCFlows == {f1, f2}
MCPaths == {p1, p2}
MCSize == (f1 :> 4) @@ (f2 :> 2)
MCPathsOf == (f1 :> {p1, p2}) @@ (f2 :> {p1})

\* The short instance of the liveness and the spurious-timeout runs.
ShortSize == (f1 :> 2) @@ (f2 :> 1)

=============================================================================
