------------------------------ MODULE PathTrace ------------------------------
(***************************************************************************)
(* cmd/pathtrace-exporter: the walk of one flow over the tables that the   *)
(* nodes' shims show by gNMI, one Get per hop (internal/gnmiserver), while *)
(* their FPM ingesters write these tables.                                 *)
(*                                                                         *)
(* A Get walks the cache leaf by leaf and is no snapshot: each leaf of its *)
(* answer is what the leaf was at some moment of the Get.  held collects   *)
(* these values, and the answer takes any of them per leaf.  The LFIB and  *)
(* the addresses stay as they are; every address stands on one node.       *)
(***************************************************************************)
EXTENDS Integers, Sequences, FiniteSets

CONSTANTS
    Node, Vrf, Prefix, Addr,
    Networks,   \* [start, from, dst, owner, home, routes, spare, lfib]: to begin with
    Covers,     \* the prefixes that contain the destination
    Length,     \* their mask lengths
    MaxHops,    \* the 24 rounds of trace
    MaxChanges, \* bound on route changes
    MaxFaults,  \* bound on Gets that fail
    None

ASSUME PathAssumption ==
    /\ {MaxHops, MaxChanges, MaxFaults} \subseteq Nat
    /\ Covers \subseteq Prefix /\ Length \in [Prefix -> Nat]
    \* two prefixes of one length do not both contain an address
    /\ \A p, q \in Covers : Length[p] = Length[q] => p = q

(* An entry of the LFIB that only pops: the packet stays on the node.      *)
Egress(e) == e.out = <<>> /\ e.nh = None

(* The flow comes from a VRF of its first node, an address is that of an   *)
(* interface in one VRF, and a last label is popped into a VRF.  A route   *)
(* without gateway shows a next hop too, "-" or "blackhole".               *)
ASSUME NetworkAssumption ==
    \A n \in Networks :
        /\ n.start \in Node /\ n.from \in Vrf
        /\ n.owner \in [Addr -> Node] /\ n.home \in [Addr -> Vrf]
        /\ \A key \in DOMAIN n.lfib : Egress(n.lfib[key]) => n.lfib[key].vrf \in Vrf
        /\ \A r \in n.routes \cup n.spare :
              r.node \in Node /\ r.vrf \in Vrf /\ r.prefix \in Prefix /\ r.nh # None

(* No answer is empty: neither a node's name nor an address.               *)
ASSUME NoneAssumption == None \notin Node /\ None \notin Addr

VARIABLES
    net,        \* the network of this behaviour
    aft,        \* aft[n]: the leaves of n's ipv4-entries
    work,       \* leaf writes the FPM ingester has still to make
    changes,
    ip2node,
    pc,         \* "idle", "walk", "asked", or how the last walk ended
    at, stack, hops,
    held,       \* the values each leaf of the asked node had since the Get began
    quiet,      \* history: no write and no failure in this refresh
    filed,      \* history: the routes FPM has said and not taken back
    gap,        \* history: in this Get, a moment without any route filed
    raced,      \* history: changes in this Get
    faults

tableVars == <<net, aft, work, changes>>
walkVars == <<pc, at, stack, hops>>
vars == <<tableVars, ip2node, walkVars, held, quiet, filed, gap, raced, faults>>

Leaf == {"nh", "push"} \X Vrf \X Prefix
Ends == {"reached", "noRoute", "noLabel", "unknownHop", "tooLong"}

Fault == faults < MaxFaults /\ faults' = faults + 1

RouteLeaf(r, kind) == <<kind, r.vrf, r.prefix>>

Shown(routes, n) ==
    [l \in Leaf |->
        LET here == {r \in routes : r.node = n /\ <<r.vrf, r.prefix>> = <<l[2], l[3]>>}
        IN  IF here = {} THEN None
            ELSE LET r == CHOOSE r \in here : TRUE
                 IN  IF l[1] = "nh" THEN r.nh ELSE IF r.push = <<>> THEN None ELSE r.push]

Init ==
    /\ net \in Networks
    /\ aft = [n \in Node |-> Shown(net.routes, n)]
    /\ work = <<>> /\ changes = 0
    /\ ip2node = [a \in Addr |-> None]
    /\ pc = "idle" /\ at = net.start /\ stack = <<>> /\ hops = 0
    /\ held = [l \in Leaf |-> {}]
    /\ filed = [n \in Node |-> {<<r.vrf, r.prefix>> : r \in {x \in net.routes : x.node = n}}]
    /\ quiet = TRUE /\ gap = FALSE /\ raced = 0 /\ faults = 0

----------------------------------------------------------------------------
(* FPM: the cache calls of one route message, leaf by leaf.                *)

Write(r, kind, value) == [node |-> r.node, leaf |-> RouteLeaf(r, kind), value |-> value]

(* Variant: a route is replaced by deleting it first. *)
DeleteFirst(r) ==
    <<Write(r, "nh", None), Write(r, "push", None), Write(r, "nh", r.nh)>>
    \o IF r.push = <<>> THEN <<>> ELSE <<Write(r, "push", r.push)>>

Writes(r) ==
    IF r.push = <<>> THEN <<Write(r, "push", None), Write(r, "nh", r.nh)>>
    ELSE <<Write(r, "nh", r.nh), Write(r, "push", r.push)>>

Deletes(r) == <<Write(r, "nh", None), Write(r, "push", None)>>

NoneFiled == ~ \E v \in Vrf, p \in Covers : <<v, p>> \in filed[at]

Message ==
    /\ work = <<>> /\ changes < MaxChanges
    /\ \/ \E r \in net.spare : work' = Writes(r) /\ UNCHANGED filed
       \/ \E r \in net.routes :
             /\ work' = Deletes(r)
             /\ filed' = [filed EXCEPT ![r.node] = @ \ {<<r.vrf, r.prefix>>}]
    /\ changes' = changes + 1
    /\ UNCHANGED <<net, aft, ip2node, walkVars, held, quiet, faults>>
    /\ gap' = (gap \/ NoneFiled')
    /\ raced' = raced + 1

WriteLeaf ==
    /\ work # <<>>
    /\ LET w == Head(work)
       IN  /\ aft' = [aft EXCEPT ![w.node][w.leaf] = w.value]
           /\ held' = IF pc = "asked" /\ w.node = at
                      THEN [held EXCEPT ![w.leaf] = @ \cup {w.value}] ELSE held
           /\ filed' = IF Len(work) = 1 /\ w.value # None
                       THEN [filed EXCEPT ![w.node] = @ \cup {<<w.leaf[2], w.leaf[3]>>}]
                       ELSE filed
    /\ work' = Tail(work)
    /\ quiet' = FALSE
    /\ UNCHANGED <<net, changes, ip2node, walkVars, gap, raced, faults>>

----------------------------------------------------------------------------
(* render: a refresh begins with the addresses of the nodes that answer.   *)
Begin ==
    /\ pc \in Ends \cup {"idle"}
    /\ \/ ip2node' = net.owner /\ UNCHANGED faults
       \/ /\ Fault
          /\ \E n \in Node :
                ip2node' = [a \in Addr |-> IF net.owner[a] = n THEN None ELSE net.owner[a]]
    /\ pc' = "walk" /\ at' = net.start /\ stack' = <<>> /\ hops' = 0
    /\ quiet' = (work = <<>> /\ faults' = faults) /\ gap' = FALSE /\ raced' = 0
    /\ UNCHANGED <<tableVars, held, filed>>

Arrived == net.dst \in Addr /\ ip2node[net.dst] = at /\ stack = <<>>

(* Start of a round of trace, up to the Get it makes. *)
Look ==
    /\ pc = "walk"
    /\ pc' = IF hops = MaxHops THEN "tooLong" ELSE IF Arrived THEN "reached" ELSE "asked"
    /\ held' = IF pc' = "asked" THEN [l \in Leaf |-> {aft[at][l]}] ELSE held
    /\ gap' = NoneFiled
    /\ raced' = IF work = <<>> THEN 0 ELSE 1
    /\ UNCHANGED <<tableVars, ip2node, at, stack, hops, quiet, filed, faults>>

(* Variant: the round is not counted. *)
SettleUncounted(end, n, labels) ==
    /\ pc' = end /\ at' = n /\ stack' = labels
    /\ held' = [l \in Leaf |-> {}]
    /\ UNCHANGED <<tableVars, ip2node, hops, filed, gap, raced>>

(* The round ends at node n with a stack, or the walk ends. *)
Settle(end, n, labels) ==
    /\ pc' = end /\ at' = n /\ stack' = labels
    /\ hops' = hops + 1
    /\ held' = [l \in Leaf |-> {}]
    /\ UNCHANGED <<tableVars, ip2node, filed, gap, raced>>

Go(hop, labels) ==
    IF hop \in Addr /\ ip2node[hop] # None
    THEN Settle("walk", ip2node[hop], labels)
    ELSE Settle("unknownHop", at, <<>>)

(* get: an error or a timeout reads as no updates. *)
NoAnswer ==
    /\ pc = "asked" /\ Fault
    /\ Settle(IF stack = <<>> THEN "noRoute" ELSE "noLabel", at, <<>>)
    /\ quiet' = FALSE

(* routeLookup gathers the leaves by prefix alone, in any order: of several *)
(* VRFs the last one wins, for each of the two leaves.                      *)
Read(kind, p) ==
    LET values == UNION {held[<<kind, v, p>>] : v \in Vrf}
    IN  IF \A v \in Vrf : None \in held[<<kind, v, p>>] THEN values ELSE values \ {None}

MayBeMissing(p) == None \in Read("nh", p) /\ None \in Read("push", p)

(* Variant: the first prefix that contains the destination is taken. *)
AnyMatch(p) == p \in Covers

LongestMatch(p) ==
    p \in Covers /\ \A q \in Covers : Length[q] > Length[p] => MayBeMissing(q)

IpHop ==
    /\ pc = "asked" /\ stack = <<>>
    /\ \/ \E p \in Prefix : LongestMatch(p) /\
          \E hop \in Read("nh", p), labels \in Read("push", p) :
             /\ <<hop, labels>> # <<None, None>>
             /\ Go(hop, IF labels = None THEN <<>> ELSE labels)
       \/ (\A p \in Covers : MayBeMissing(p)) /\ Settle("noRoute", at, <<>>)
    /\ UNCHANGED <<quiet, faults>>

(* mplsLookup: out-label (a stack), next-hop, and the VRF of an egress pop. *)
MplsHop ==
    /\ pc = "asked" /\ stack # <<>>
    /\ LET key == <<at, Head(stack)>>
           rest == Tail(stack)
       IN  IF key \notin DOMAIN net.lfib THEN Settle("noLabel", at, <<>>)
           ELSE LET e == net.lfib[key]
                IN  IF Egress(e) THEN Settle("walk", at, rest)
                    ELSE Go(e.nh, e.out \o rest)
    /\ UNCHANGED <<quiet, faults>>

Walk == Begin \/ Look \/ IpHop \/ MplsHop
Next == Message \/ WriteLeaf \/ Walk \/ NoAnswer

Spec == Init /\ [][Next]_vars

(* The exporter's goroutine runs and every Get ends (its timeout is 5 s).  *)
FairSpec == Spec /\ WF_vars(Walk)

----------------------------------------------------------------------------
(* What packets do in a network whose tables stand still.  A packet is a   *)
(* node, a VRF of the node and a label stack; without labels it is looked  *)
(* up in that VRF alone, and it comes into the VRF of the interface that   *)
(* has the next hop's address, or into the one its last label names.       *)
Installed(tables, n, v) == {p \in Covers : tables[n][<<"nh", v, p>>] # None}

Best(tables, n, v) ==
    {p \in Installed(tables, n, v) :
        \A q \in Installed(tables, n, v) : Length[q] <= Length[p]}

Received(network, packet) ==
    /\ network.dst \in Addr
    /\ packet = <<network.owner[network.dst], network.home[network.dst], <<>>>>

ToHop(network, hop, labels) ==
    IF hop \in Addr THEN {<<network.owner[hop], network.home[hop], labels>>} ELSE {}

Routed(network, table, v, p) ==
    LET labels == table[<<"push", v, p>>]
    IN  ToHop(network, table[<<"nh", v, p>>], IF labels = None THEN <<>> ELSE labels)

Switched(network, n, labels) ==
    LET e == network.lfib[<<n, Head(labels)>>]
    IN  IF Egress(e) THEN {<<n, e.vrf, Tail(labels)>>}
        ELSE ToHop(network, e.nh, e.out \o Tail(labels))

(* Where a packet at n is next: nowhere if it is dropped. *)
Forwarded(network, tables, n, v, labels) ==
    IF labels = <<>> THEN UNION {Routed(network, tables[n], v, p) : p \in Best(tables, n, v)}
    ELSE IF <<n, Head(labels)>> \in DOMAIN network.lfib THEN Switched(network, n, labels)
    ELSE {}

Onward(network, tables, packets) ==
    UNION {Forwarded(network, tables, c[1], c[2], c[3]) :
              c \in {d \in packets : ~ Received(network, d)}}

After(network, tables) ==
    LET Hops[k \in 0 .. MaxHops] ==
            IF k = 0 THEN {<<network.start, network.from, <<>>>>}
            ELSE Onward(network, tables, Hops[k - 1])
    IN  Hops

Arrives(network, tables) ==
    LET after == After(network, tables)
    IN  \E k \in 0 .. MaxHops - 1 : \E c \in after[k] : Received(network, c)

(* The walk knows no VRF.  Where a packet of VRF v is at n, no other VRF   *)
(* of n has a route that the walk could take instead, and its own one does *)
(* not end on a link ("-"), where the destination may be or not.           *)
OwnRouteLeads(tables, n, v) ==
    /\ \A u \in Vrf \ {v} : \A p \in Installed(tables, n, u) :
          \E q \in Installed(tables, n, v) : Length[q] > Length[p]
    /\ \A p \in Best(tables, n, v) : tables[n][<<"nh", v, p>>] # "-"

(* All along its way, and it does not come to the destination's node in    *)
(* another VRF than the destination's.                                     *)
Clear(network, tables) ==
    LET after == After(network, tables)
    IN  \A k \in 0 .. MaxHops - 1 : \A c \in after[k] :
            c[3] = <<>> /\ ~ Received(network, c) =>
                /\ ~ (network.dst \in Addr /\ c[1] = network.owner[network.dst])
                /\ OwnRouteLeads(tables, c[1], c[2])

(* main.go:110 "1 if the destination was reached by the control-plane path  *)
(* walk": in a network that stood still and answered, and where no other    *)
(* VRF's route is taken on the way, the walk ends at the destination        *)
(* exactly if a packet of the flow's VRF gets there, its labels gone, within *)
(* the rounds of the walk.                                                  *)
VerdictIsRight ==
    pc \in Ends /\ quiet /\ work = <<>> /\ Clear(net, aft) =>
        (pc = "reached" <=> Arrives(net, aft))

(* A Get that crosses the replacement of a route never finds no route at   *)
(* all: the next-hop leaf is overwritten, never deleted first (fpm.go:342). *)
(* Two changes during one Get may hide a route that was there all the time, *)
(* since the answer is no snapshot.                                         *)
DropIsReal ==
    [][pc' = "noRoute" /\ pc = "asked" /\ faults' = faults => gap \/ raced > 1]_vars

(* Whatever the tables loop, and however they change under the walk, every *)
(* refresh ends, and with it the write lock that /metrics waits for.       *)
WalkEnds == pc = "walk" ~> pc \in Ends

============================================================================
