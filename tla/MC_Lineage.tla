------------------------------ MODULE MC_Lineage ------------------------------
(* Two prefixes and a grace period of one tick: a gap can be young, exactly  *)
(* at the limit and over it.                                                 *)
EXTENDS Lineage

CONSTANTS p1, p2

MCPrefixes == {p1, p2}
MCProtos == {"zebra", "kernel"}
===============================================================================
