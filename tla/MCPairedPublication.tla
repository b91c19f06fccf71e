------------------------ MODULE MCPairedPublication ------------------------
(* Instances of PairedPublication for TLC.                                 *)
EXTENDS PairedPublication

CONSTANTS p1, p2
\* A single publisher meets others and one failing call (p1) or two failing calls (p2), and power
\* may be lost; two publishers compete undisturbed.
Alone == {{p1}, {p2}}
Together == Alone \cup {{p1, p2}}
Acts == [here \in Groups |-> IF here = {p1} THEN 2 ELSE 0]
Failing == [here \in Groups |-> IF here = {p1} THEN 1 ELSE 2]
Losses == [here \in Groups |-> here \in Alone]
=============================================================================
