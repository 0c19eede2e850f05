---------------------------- MODULE MC_Correlator ----------------------------
(* Two emitters, so that an event stamped first can be sent last.            *)
EXTENDS Correlator

CONSTANTS e1, e2

MCEmitters == {e1, e2}
===============================================================================
