----------------------------- MODULE LineagePlanes -----------------------------
(***************************************************************************)
(* The lineage tracker together with the three planes that feed it.  A     *)
(* router holds routes in its adj-rib-in (per peer), in zebra's intent     *)
(* (per table) and in the kernel FIB (per table), and tells the shim about *)
(* each change: bgpd over a BMP connection, zebra over an FPM connection,  *)
(* the kernel by netlink.  A connection is reliable and ordered as long as *)
(* it lasts.  When one is made anew a goroutine of its own reads it, while *)
(* that of its predecessor still reads what had arrived there: neither the *)
(* planes nor the connections of a plane are ordered with each other.  The *)
(* goroutines call Tracker.Observe with the prefix alone: peer and table   *)
(* are in the detail text only.                                            *)
(***************************************************************************)
EXTENDS Lineage, Sequences

Seqs == INSTANCE SequencesExt

CONSTANTS
    Peers,          \* BGP peers whose routes BMP mirrors
    Tables,         \* kernel routing tables (the main table and VRFs)
    MaxChanges,     \* bound on the number of route changes of the router
    MaxEnds         \* bound on the ends of BGP peers, connections and zebra

ASSUME BoundsAssumption == MaxChanges \in Nat /\ MaxEnds \in Nat

Connections == 1 .. MaxEnds + 1     \* of one plane, in the order they are made

VARIABLES
    adv,        \* adv[p]: the peers that advertise p to this router
    intent,     \* intent[p]: the tables zebra wants p in
    fib,        \* fib[p]: the tables the kernel has p in
    session,    \* session[stage]: the connection the plane writes to
    wire,       \* wire[stage][n]: changes not yet read from connection n
    changes,    \* route changes so far
    ends,       \* peers, connections and zebras that have ended so far
    told,       \* history: the hook has been called for the present gap of p
    said,       \* history: said[p][stage]: the plane's last word about p
    heard,      \* history: the newest connection p was read from
    overtaken,  \* history: <<p, stage>> read from a connection older than that
    lost        \* history: <<p, stage>> whose last word was lost on the way

routerVars == <<adv, intent, fib, session, changes, ends, said, lost>>
vars == <<lineageVars, routerVars, wire, told, heard, overtaken>>

Message == [prefix : Prefixes, present : BOOLEAN]
Change(p, present) == [prefix |-> p, present |-> present]

PlanesTypeOK ==
    /\ TypeOK
    /\ adv \in [Prefixes -> SUBSET Peers]
    /\ intent \in [Prefixes -> SUBSET Tables]
    /\ fib \in [Prefixes -> SUBSET Tables]
    /\ ends \in 0 .. MaxEnds
    /\ session \in [Stages -> 1 .. ends + 1]
    /\ wire \in [Stages -> [Connections -> Seq(Message)]]
    /\ changes \in 0 .. MaxChanges
    /\ told \in [Prefixes -> BOOLEAN]
    /\ said \in [Prefixes -> [Stages -> BOOLEAN]]
    /\ heard \in [Prefixes -> [Stages -> Connections]]
    /\ overtaken \subseteq Prefixes \X Stages
    /\ lost \subseteq Prefixes \X Stages

PlanesInit ==
    /\ Init
    /\ adv = [p \in Prefixes |-> {}]
    /\ intent = [p \in Prefixes |-> {}]
    /\ fib = [p \in Prefixes |-> {}]
    /\ session = [s \in Stages |-> 1]
    /\ wire = [s \in Stages |-> [n \in Connections |-> <<>>]]
    /\ changes = 0
    /\ ends = 0
    /\ told = [p \in Prefixes |-> FALSE]
    /\ said = [p \in Prefixes |-> [s \in Stages |-> FALSE]]
    /\ heard = [p \in Prefixes |-> [s \in Stages |-> 1]]
    /\ overtaken = {}
    /\ lost = {}

RouterHolds(p, stage) ==
    CASE stage = "rib-in" -> adv[p] # {}
      [] stage = "fpm"    -> intent[p] # {}
      [] stage = "kernel" -> fib[p] # {}

Changing == changes < MaxChanges /\ changes' = changes + 1 /\ UNCHANGED <<session, ends>>
Ending == ends < MaxEnds /\ ends' = ends + 1 /\ UNCHANGED changes
UnchangedShim == UNCHANGED <<lineageVars, told, heard, overtaken>>

\* The planes say that they have, or no longer have, a holder of p.
Say(p, stages, present) ==
    /\ wire' = [s \in Stages |->
                  IF s \in stages
                    THEN [wire[s] EXCEPT ![session[s]] = Append(@, Change(p, present))]
                    ELSE wire[s]]
    /\ said' = [said EXCEPT ![p] = [s \in Stages |-> IF s \in stages THEN present ELSE @[s]]]
    /\ lost' = lost \ ({p} \X stages)

\* One change for each route of a set of <<prefix, holder>>.
Listing(held, present) ==
    LET listed == Seqs!SetToSeq(held)
    IN  [i \in DOMAIN listed |-> Change(listed[i][1], present)]

Held(holders) == {route \in Prefixes \X (Peers \union Tables) : route[2] \in holders[route[1]]}

\* What the end of a plane's connection loses, when its first kept changes arrive.
CutOff(stage, kept) ==
    LET old == wire[stage][session[stage]]
    IN  {<<old[i].prefix, stage>> : i \in kept + 1 .. Len(old)}

(***************************************************************************)
(* The router                                                              *)
(***************************************************************************)
Advertise(p, peer) ==
    /\ Changing
    /\ peer \notin adv[p]
    /\ adv' = [adv EXCEPT ![p] = @ \union {peer}]
    /\ Say(p, {"rib-in"}, TRUE)
    /\ UNCHANGED <<intent, fib>> /\ UnchangedShim

Withdraw(p, peer) ==
    /\ Changing
    /\ peer \in adv[p]
    /\ adv' = [adv EXCEPT ![p] = @ \ {peer}]
    /\ Say(p, {"rib-in"}, FALSE)
    /\ UNCHANGED <<intent, fib>> /\ UnchangedShim

\* A BGP session ends and its routes with it: BMP says so of the peer and not
\* of the routes, and the shim does not tell the tracker (peerState).
PeerDown(peer) ==
    /\ Ending
    /\ adv' = [p \in Prefixes |-> adv[p] \ {peer}]
    /\ UNCHANGED <<intent, fib, session, wire, said, lost>> /\ UnchangedShim

\* zebra pushes a route; the kernel installs it, or silently does not.
Push(p, table, installed) ==
    /\ Changing
    /\ table \notin intent[p]
    /\ intent' = [intent EXCEPT ![p] = @ \union {table}]
    /\ fib' = [fib EXCEPT ![p] = IF installed THEN @ \union {table} ELSE @]
    /\ Say(p, IF installed THEN {"fpm", "kernel"} ELSE {"fpm"}, TRUE)
    /\ UNCHANGED adv /\ UnchangedShim

Remove(p, table) ==
    /\ Changing
    /\ table \in intent[p]
    /\ intent' = [intent EXCEPT ![p] = @ \ {table}]
    /\ fib' = [fib EXCEPT ![p] = @ \ {table}]
    /\ Say(p, IF table \in fib[p] THEN {"fpm", "kernel"} ELSE {"fpm"}, FALSE)
    /\ UNCHANGED adv /\ UnchangedShim

\* A BMP or FPM connection ends, the end of what was written to it is lost, and
\* the daemon dials again and lists all it holds; what it withdrew meanwhile it
\* does not mention.
Redial(stage, kept) ==
    /\ Ending
    /\ session' = [session EXCEPT ![stage] = @ + 1]
    /\ wire' = [wire EXCEPT
         ![stage][session[stage]] = SubSeq(@, 1, kept),
         ![stage][session[stage] + 1] =
            Listing(Held(IF stage = "rib-in" THEN adv ELSE intent), TRUE)]
    /\ said' = [p \in Prefixes |->
                  [said[p] EXCEPT ![stage] = @ \/ RouterHolds(p, stage)]]
    /\ lost' = (lost \union CutOff(stage, kept))
                 \ {<<p, stage>> : p \in {p \in Prefixes : RouterHolds(p, stage)}}
    /\ UNCHANGED <<adv, intent, fib>> /\ UnchangedShim

\* zebra dies and comes back: it wants nothing yet, its new connection is empty,
\* the end of what it wrote to the old one is lost, and its routes are swept
\* from the kernel.
ZebraRestart(kept) ==
    /\ Ending
    /\ session' = [session EXCEPT !["fpm"] = @ + 1]
    /\ intent' = [p \in Prefixes |-> {}]
    /\ fib' = [p \in Prefixes |-> {}]
    /\ wire' = [wire EXCEPT
         !["fpm"][session["fpm"]] = SubSeq(@, 1, kept),
         !["kernel"][1] = @ \o Listing(Held(fib), FALSE)]
    /\ said' = [p \in Prefixes |-> [said[p] EXCEPT !["kernel"] = @ /\ fib[p] = {}]]
    /\ lost' = lost \union CutOff("fpm", kept)
    /\ UNCHANGED adv /\ UnchangedShim

(***************************************************************************)
(* The shim                                                                *)
(***************************************************************************)
\* One pass of a receive loop: the head of a connection becomes an Observe call.
Deliver(stage, n, proto) ==
    /\ wire[stage][n] # <<>>
    /\ LET change == Head(wire[stage][n])
           p == change.prefix
           old == n < heard[p][stage]
       IN  /\ Observe(p, stage, change.present, proto)
           /\ heard' = IF old THEN heard ELSE [heard EXCEPT ![p][stage] = n]
           /\ overtaken' = IF old THEN overtaken \union {<<p, stage>>}
                                  ELSE overtaken \ {<<p, stage>>}
    /\ wire' = [wire EXCEPT ![stage][n] = Tail(@)]
    /\ told' = [p \in Prefixes |-> told[p] /\ RowGap(p)' = "install-gap"]
    /\ UNCHANGED routerVars

TrackerScan ==
    /\ Scan
    /\ UNCHANGED <<routerVars, wire, told, heard, overtaken>>

TrackerEmit(p) ==
    /\ Emit(p)
    /\ told' = [told EXCEPT ![p] = RowGap(p) = "install-gap"]
    /\ UNCHANGED <<routerVars, wire, heard, overtaken>>

Clock ==
    /\ Tick
    /\ UNCHANGED <<routerVars, wire, told, heard, overtaken>>

Router ==
    \/ \E p \in Prefixes, peer \in Peers : Advertise(p, peer) \/ Withdraw(p, peer)
    \/ \E peer \in Peers : PeerDown(peer)
    \/ \E p \in Prefixes, table \in Tables, installed \in BOOLEAN :
         Push(p, table, installed)
    \/ \E p \in Prefixes, table \in Tables : Remove(p, table)
    \/ \E stage \in {"rib-in", "fpm"} :
         \E kept \in 0 .. Len(wire[stage][session[stage]]) : Redial(stage, kept)
    \/ \E kept \in 0 .. Len(wire["fpm"][session["fpm"]]) : ZebraRestart(kept)

PlanesNext ==
    \/ Router
    \/ \E stage \in Stages, n \in Connections, proto \in Protos : Deliver(stage, n, proto)
    \/ TrackerScan
    \/ \E p \in Prefixes : TrackerEmit(p)
    \/ Clock

PlanesSpec == PlanesInit /\ [][PlanesNext]_vars

\* Every receive loop keeps reading, the reconcile loop's ticker keeps firing
\* and time passes.  Nothing is assumed of the router.
ShimFairness ==
    /\ \A stage \in Stages, n \in Connections :
         WF_vars(\E proto \in Protos : Deliver(stage, n, proto))
    /\ WF_vars(TrackerScan)
    /\ \A p \in Prefixes : WF_vars(TrackerEmit(p))
    /\ WF_vars(Clock)

FairPlanesSpec == PlanesSpec /\ ShimFairness

(***************************************************************************)
(* Properties                                                              *)
(***************************************************************************)
Settled(p, stage) ==
    \A n \in Connections :
        \A i \in 1 .. Len(wire[stage][n]) : wire[stage][n][i].prefix # p

\* The plane's last word never came, or an older one was read after it.
Misled(p, stage) == <<p, stage>> \in overtaken \union lost

\* The last word of a plane is not what it holds: one of several holders has
\* withdrawn, or the last one is gone without a word.
Eclipsed(p, stage) == RouterHolds(p, stage) /\ ~said[p][stage]
Vanished(p, stage) == ~RouterHolds(p, stage) /\ said[p][stage]

\* "present reports whether a stage currently holds the prefix": once the
\* connections of a plane have nothing more about a prefix, the tracker repeats
\* the plane's last word, whatever the order in which planes and connections
\* were read, unless that word was lost or an older one read after it.  It then
\* claims a hop the plane does not hold only if a peer or zebra has gone without
\* a word, the kernel's never, and denies one only if a peer or a table has
\* withdrawn the prefix while another kept it.
TestimonyIsCurrent ==
    \A p \in Prefixes, stage \in Stages :
        Settled(p, stage) /\ ~Misled(p, stage) =>
            /\ Holds(p, stage) => RouterHolds(p, stage) \/ Vanished(p, stage)
            /\ RouterHolds(p, stage) => Holds(p, stage) \/ Eclipsed(p, stage)
            /\ Holds(p, stage) /\ (stage = "kernel" \/ ends = 0) => RouterHolds(p, stage)

\* A route that zebra wants and the kernel does not have, for ever, ends up
\* flagged for ever: no order of the planes hides it, unless zebra has taken it
\* from another table meanwhile, or an old connection's word about it is read
\* after the new one's.
StuckRouteIsFlagged ==
    \A p \in Prefixes :
        <>[](/\ intent[p] # {} /\ fib[p] = {}
             /\ ~Eclipsed(p, "fpm") /\ ~Misled(p, "fpm")) => <>[]Flagged(p)

\* A route that zebra wants and the kernel never gets is reported through the
\* hook, each time that comes to pass.
StuckRouteIsReported ==
    \A p \in Prefixes : <>[](intent[p] # {} /\ fib[p] = {}) => <>[]told[p]
===============================================================================
