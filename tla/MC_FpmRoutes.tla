----------------------------- MODULE MC_FpmRoutes -----------------------------
(* A nexthop and a group on top of it, a VRF table, two gateways of which    *)
(* one pushes labels.                                                        *)
EXTENDS FpmRoutes

CONSTANTS n1, n2, gw, lsp, cust, p1

MCIds == {n1, n2}
MCGateways == {gw, lsp}
MCLabelled == {lsp}
MCTables == {cust}
MCPrefixes == {p1}
===============================================================================
