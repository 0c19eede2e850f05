--------------------------- MODULE MC_OspfReconcile ---------------------------
(* Two router ids on a LAN or one router id on two links.                    *)
EXTENDS OspfReconcile

CONSTANTS n1, n2, eth0, eth1

OneRid == {n1}
TwoRids == {n1, n2}
OneIface == {eth0}
TwoIfaces == {eth0, eth1}
OnEth0 == {<<n1, eth0>>}
SharedLan == {<<n1, eth0>>, <<n2, eth0>>}
ApartLinks == {<<n1, eth0>>, <<n2, eth1>>}
TwoLinks == {<<n1, eth0>>, <<n1, eth1>>}
===============================================================================
