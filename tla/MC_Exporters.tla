---------------------------- MODULE MC_Exporters ----------------------------
(* The two exporters share nothing but the nodes they ask: a behaviour is   *)
(* one of either.                                                          *)
EXTENDS PathTrace, Topology, TLC

VARIABLE exporter

CONSTANTS pe1, p1, pe2, ce, aPe1, aP1, aPe2, aCe, cust, main, site, default,
          stranger, vlan1, vlan10, mac

MCLength == site :> 24 @@ default :> 0
MCOwner == aPe1 :> pe1 @@ aP1 :> p1 @@ aPe2 :> pe2 @@ aCe :> ce
MCHome == [a \in Addr |-> main]

MCRoute(n, v, p, hop, labels) == [node |-> n, vrf |-> v, prefix |-> p, nh |-> hop, push |-> labels]
MCEntry(labels, hop) == [out |-> labels, nh |-> hop, vrf |-> None]
MCPop(vrf) == [out |-> <<>>, nh |-> None, vrf |-> vrf]
MCNet(vrf, routes, spare, lfib) ==
    [start |-> pe1, from |-> vrf, dst |-> aCe, owner |-> MCOwner, home |-> MCHome,
     routes |-> routes, spare |-> spare, lfib |-> lfib]

MCLast == MCRoute(pe2, cust, site, aCe, <<>>)

\* A VPN over a label-switched core; a longer label path, and none; a default
\* of the other VRF that the walk crosses to when the VPN's route goes.
MCVpn == MCNet(cust, {MCRoute(pe1, cust, site, aP1, <<16, 17>>), MCLast},
               {MCRoute(pe1, cust, site, aP1, <<18, 17>>), MCRoute(pe1, cust, site, aP1, <<>>),
                MCRoute(pe1, main, default, aPe2, <<>>)},
               <<p1, 16>> :> MCEntry(<<>>, aPe2) @@ <<p1, 18>> :> MCEntry(<<19>>, aPe2)
               @@ <<pe2, 17>> :> MCPop(cust) @@ <<pe2, 19>> :> MCPop(main))

\* A label that loops between two routers.
MCLabelLoop == MCNet(cust, {MCRoute(pe1, cust, site, aP1, <<16>>), MCLast},
                     {MCRoute(pe1, cust, site, aPe2, <<>>)},
                     <<p1, 16>> :> MCEntry(<<16>>, aPe2) @@ <<pe2, 16>> :> MCEntry(<<16>>, aP1))

\* Default routes that loop, a more specific route at one router only, and
\* a route that ends on a link.
MCDefaults == MCNet(main, {MCRoute(pe1, main, default, aP1, <<>>), MCRoute(p1, main, default, aPe1, <<>>),
                     MCRoute(p1, main, site, aPe2, <<>>), MCRoute(pe2, main, site, "-", <<>>)},
                    {MCRoute(pe2, main, site, aCe, <<>>), MCRoute(pe1, main, site, aPe2, <<>>),
                     MCRoute(pe2, main, site, "blackhole", <<>>)},
                    <<p1, 16>> :> MCEntry(<<>>, aPe2))

\* Both VRFs of both ends have a route to the destination, the VPN's the more
\* specific one, until the other VRF gets that prefix too.
MCTwoVrfs == MCNet(cust, {MCRoute(pe1, cust, site, aP1, <<16, 17>>), MCRoute(pe1, main, default, aPe2, <<>>),
                    MCRoute(pe2, main, default, aPe1, <<>>), MCLast},
                   {MCRoute(pe1, main, site, aPe2, <<>>)},
                   <<p1, 16>> :> MCEntry(<<>>, aPe2) @@ <<pe2, 17>> :> MCPop(cust))

MCNetworks == {MCVpn, MCLabelLoop, MCDefaults, MCTwoVrfs}

MCReport(l, up, name, addr, detail) ==
    [layer |-> l, up |-> up, name |-> name, addr |-> addr, detail |-> detail]

\* A session whose ends disagree on the VRF, one that is not up, a neighbour
\* outside, an adjacency with and without a telling interface name.
MCSessions ==
    {<<pe1, MCReport("bgp", TRUE, None, ce, cust)>>, <<ce, MCReport("bgp", TRUE, None, pe1, main)>>,
     <<pe1, MCReport("bgp", TRUE, None, p1, main)>>, <<p1, MCReport("bgp", FALSE, None, pe1, main)>>,
     <<pe1, MCReport("physical", TRUE, stranger, None, "lldp")>>,
     <<p1, MCReport("physical", TRUE, pe1, None, "lldp")>>,
     <<pe1, MCReport("ospf", TRUE, None, p1, "area")>>,
     <<p1, MCReport("ospf", TRUE, pe1, pe1, "area")>>}

\* Two sessions of one pair in two VRFs, labels and bridges.
MCBridges ==
    {<<pe1, MCReport("bgp", TRUE, None, ce, cust)>>, <<pe1, MCReport("bgp", TRUE, None, ce, site)>>,
     <<ce, MCReport("bgp", TRUE, None, pe1, main)>>,
     <<pe1, MCReport("mpls", TRUE, p1, stranger, "lsp")>>, <<p1, MCReport("mpls", TRUE, cust, pe1, "lsp")>>,
     <<ce, MCReport("vlan", TRUE, vlan10, mac, None)>>, <<p1, MCReport("vlan", TRUE, vlan10, mac, None)>>,
     <<p1, MCReport("vlan", TRUE, vlan1, mac, None)>>}

MCReports == {MCSessions, MCBridges}

MCInit ==
    /\ Init /\ TopoInit
    /\ \/ exporter = "path" /\ reports = MCSessions
       \/ exporter = "topology" /\ net = MCVpn
MCWalks(A) == exporter = "path" /\ A /\ UNCHANGED <<topoVars, exporter>>
MCNext ==
    \/ MCWalks(Next)
    \/ exporter = "topology" /\ TopoNext /\ UNCHANGED <<vars, exporter>>
MCVars == <<vars, topoVars, exporter>>
MCSpec == MCInit /\ [][MCNext]_MCVars /\ WF_MCVars(MCWalks(Walk))
============================================================================
