------------------------------ MODULE MCCoalescer ------------------------------
(* Instances of Coalescer for TLC. *)
EXTENDS Coalescer

CONSTANTS c1, c2, p1, p2

MCCallers == {c1, c2}
MCPorts   == {p1, p2}
=============================================================================
