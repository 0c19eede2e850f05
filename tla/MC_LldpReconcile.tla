--------------------------- MODULE MC_LldpReconcile ---------------------------
EXTENDS LldpReconcile

CONSTANTS eth0, eth1, c1, c2

OneIface == {eth0}
TwoIfaces == {eth0, eth1}
OneChassis == {c1}
TwoChassis == {c1, c2}
\* One neighbour; or a link with two neighbours in turn next to one with a
\* neighbour that is nameless at times.
FixedOne == {<<eth0, c1>>}
Replaced == {<<eth0, c1>>, <<eth0, c2>>, <<eth1, c1>>, <<eth1, NoChassis>>}
===============================================================================
