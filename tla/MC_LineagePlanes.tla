--------------------------- MODULE MC_LineagePlanes ---------------------------
(* The planes carry zebra's routes: one protocol.                            *)
EXTENDS LineagePlanes

CONSTANTS p1, p2, r1, r2, main, vrf

OnePrefix == {p1}
OnePeer == {r1}
TwoPeers == {r1, r2}
OneTable == {main}
TwoTables == {main, vrf}
MCProtos == {"zebra"}
===============================================================================
