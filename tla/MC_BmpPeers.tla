------------------------------ MODULE MC_BmpPeers ------------------------------
(* The default target with one peer, and one of a VRF's two peers; the VRF's *)
(* own target with the other, and a second connection.  A second VRF exists. *)
EXTENDS BmpPeers, TLC

CONSTANTS dflt, own, pe, ce1, ce2, rd1, cust, blue, r1, m1

MCTargets == {dflt, own}
MCPeers == {pe, ce1, ce2}
MCRds == {rd1}
MCVrfs == {cust, blue}
MCVpnRoutes == {r1}
MCEvpnRoutes == {m1}
MCTargetOf == pe :> dflt @@ ce1 :> dflt @@ ce2 :> own
MCRdOf == pe :> None @@ ce1 :> rd1 @@ ce2 :> rd1
MCVrfOf == rd1 :> cust
MCMaxDials == dflt :> 1 @@ own :> 2
===============================================================================
