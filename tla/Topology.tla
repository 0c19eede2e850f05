------------------------------ MODULE Topology ------------------------------
(***************************************************************************)
(* cmd/topology-exporter: one refresh.  Every node of the inventory is     *)
(* asked for its neighbours, layer by layer; each report becomes an edge   *)
(* that the other end may report too.  Inventory and reports come in the   *)
(* order of Go maps, that is, in any order; keys of different layers never *)
(* meet, so the layers of a node need no order of their own.               *)
(*                                                                         *)
(* A report carries the names its layer has for the peer: name is a node   *)
(* (LLDP, or cut from the interface name), addr stands for the node whose  *)
(* address it gives.  In the vlan layer they are a VLAN and a MAC.         *)
(***************************************************************************)
EXTENDS Integers, FiniteSets

CONSTANTS
    Inventory,
    Reports,        \* the sets of <<node, report>> to begin with
    Untagged,       \* VLANs 0 and 1
    Default,        \* the detail "vrf=default"
    MaxSilent,      \* bound on Gets without an answer
    Nobody          \* no name, no address

ASSUME DetailAssumption == Default \notin {"member", "learned"}

VARIABLES
    reports,        \* what the shims hold
    addressed,      \* nodes whose addresses are in ip2node
    toAsk,          \* nodes render has not come to
    answer,         \* reports of the node in hand, not yet added
    asked,          \* the node in hand
    edges,          \* the map of render: key to detail
    got,            \* history: the reports that were answered
    silent          \* Gets without an answer

topoVars == <<reports, addressed, toAsk, answer, asked, edges, got, silent>>

TopoInit ==
    /\ reports \in Reports
    /\ addressed = Nobody /\ toAsk = Inventory
    /\ answer = {} /\ asked = Nobody
    /\ edges = <<>> /\ got = {} /\ silent = 0

----------------------------------------------------------------------------
(* A node's name, by way of ip2node. *)
Owner(addr) == IF addr \in addressed THEN addr ELSE Nobody

Peer(r) ==
    CASE r.layer = "physical" -> r.name
      [] r.layer = "ospf" -> IF r.name # Nobody THEN r.name ELSE Owner(r.addr)
      [] r.layer = "bgp" -> Owner(r.addr)
      [] r.layer = "mpls" -> IF Owner(r.addr) # Nobody THEN Owner(r.addr) ELSE r.name

(* The edges a report of node n asks for: <<key, detail>>. *)
Wanted(n, r) ==
    IF r.layer = "vlan"
    THEN IF r.name \in Untagged THEN {}
         ELSE {<<<<"vlan", {n, r.name}>>, "member">>, <<<<"vlan", {r.name, r.addr}>>, "learned">>}
    ELSE IF r.up /\ Peer(r) \in Inventory \ {n}
         THEN {<<<<r.layer, {n, Peer(r)}>>, r.detail>>}
         ELSE {}

(* Variant: the first report of an edge decides. *)
FirstStays(key) == key \in DOMAIN edges

(* addEdge replaces a default detail, addPseudo nothing. *)
Stays(key) == key \in DOMAIN edges /\ (key[1] = "vlan" \/ edges[key] # Default)

----------------------------------------------------------------------------
(* buildIP2Node: a node that does not answer leaves its addresses out.     *)
ReadAddresses ==
    /\ addressed = Nobody
    /\ \E down \in SUBSET Inventory :
          /\ silent + Cardinality(down) <= MaxSilent
          /\ silent' = silent + Cardinality(down)
          /\ addressed' = Inventory \ down
    /\ UNCHANGED <<reports, toAsk, answer, asked, edges, got>>

(* The Gets of one node; the layers of lost give no answer.                *)
AskNode(n) ==
    /\ addressed # Nobody /\ answer = {} /\ n \in toAsk
    /\ \E lost \in SUBSET {r[2].layer : r \in {x \in reports : x[1] = n}} :
          /\ silent + Cardinality(lost) <= MaxSilent
          /\ silent' = silent + Cardinality(lost)
          /\ answer' = {r[2] : r \in {x \in reports : x[1] = n /\ x[2].layer \notin lost}}
    /\ asked' = n /\ toAsk' = toAsk \ {n}
    /\ got' = got \cup {<<n, r>> : r \in answer'}
    /\ UNCHANGED <<reports, addressed, edges>>

AddReport(r) ==
    /\ r \in answer
    /\ answer' = answer \ {r}
    /\ LET new == {w \in Wanted(asked, r) : ~Stays(w[1])}
       IN  edges' = [k \in DOMAIN edges \cup {w[1] : w \in new} |->
                        IF \E w \in new : w[1] = k
                        THEN (CHOOSE w \in new : w[1] = k)[2] ELSE edges[k]]
    /\ UNCHANGED <<reports, addressed, toAsk, asked, got, silent>>

TopoNext ==
    \/ ReadAddresses
    \/ \E n \in Inventory : AskNode(n)
    \/ \E r \in answer : AddReport(r)

TopoSpec == TopoInit /\ [][TopoNext]_topoVars

----------------------------------------------------------------------------
(* main.go:119 "Keep the more specific non-default detail so the merge is   *)
(* order-independent": whatever the order and whoever is silent, the graph  *)
(* is the union of what was reported, an edge has a default detail only if  *)
(* no end said more, and otherwise one that an end gave.  The graph then is *)
(* the same for every order unless an edge has several such details.       *)
Claims == UNION {Wanted(x[1], x[2]) : x \in got}

GraphIsUnion ==
    addressed # Nobody /\ toAsk = {} /\ answer = {} =>
        /\ DOMAIN edges = {c[1] : c \in Claims}
        /\ \A k \in DOMAIN edges :
              /\ <<k, edges[k]>> \in Claims
              /\ edges[k] = Default => \A c \in Claims : c[1] = k => c[2] = Default

============================================================================
