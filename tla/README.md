# frr-visible: verification

TLA+ models of the frr-visible shim and its companions, TLC runs on small
instances, and TLAPS proofs. Paths below are relative to `src/`.

    tlc -config Lineage.cfg MC_Lineage      # any run of PROJECT.json
    tlapm LineageProofs.tla

## 1. The system

frr-visible runs next to FRR in a router. It listens to several planes, writes
what it learns into a gNMI cache, and looks for contradictions and causality
across the planes. It is one process of many goroutines.

| Component | State | Operations | Talks to |
|---|---|---|---|
| Route lineage (`internal/lineage`) | `Tracker.routes`: per prefix one hop per stage (adj-rib-in, FPM, kernel), the edge trigger `flagged` | `Observe`, the 2 s reconcile scan, emits, `Snapshot` | called by BMP, FPM, netlink; emits to the correlator |
| Correlator (`internal/correlate`) | channel of 1024 events, the active trace, the ring of 50 traces | `Emit`, the folding loop, `flush`, `/traces` | called by every ingester and the lineage hook |
| OSPF ingester (`internal/ingest/ospf.go`) | one-place trigger, `seen`, `st` | syslog reader, `Kick`, ticker, worker, `reconcile` through vtysh | /dev/log, vtysh; `Kick` comes from FPM and BMP accepts |
| LLDP ingester (`internal/ingest/lldp.go`) | `seen` | `reconcile` from two goroutines | lldpcli |
| FPM ingester (`internal/ingest/fpm.go`) | nexthop table, VRF names | nexthop and route messages, one goroutine per connection | zebra dials in; lineage, correlator, OSPF `Kick` |
| BMP ingester (`internal/ingest/bmp.go`) | `rdVRF`, peers and routes in the cache | peer up/down, route monitoring, one goroutine per connection | bgpd dials in; lineage, correlator, OSPF `Kick` |
| Netlink ingester (`internal/ingest/netlink.go`) | none but the cache | four subscription loops and a 10 s snapshot | kernel; lineage, correlator |
| VRF resolver (`internal/ingest/vrf.go`) | table id to name | `Name`, `Refresh` | netlink |
| cgroup ingester | none | samples | files |
| gNMI cache and server (`internal/state`, `internal/gnmiserver`) | the external openconfig cache | `Update`, `Get`, `Subscribe` | every ingester writes, clients read |
| Trace aggregator (`cmd/trace-aggregator`) | ids exported so far, transaction anchors | poll, build, match, push; fetch of the anchors | `/traces` of every node, Loki, Tempo |
| Topology exporter (`cmd/topology-exporter`) | none between refreshes | render: addresses, edges, pseudo-nodes | gNMI `Get` of every node |
| Path-trace exporter (`cmd/pathtrace-exporter`) | none between refreshes | walk of routes and labels | gNMI `Get` of one node per hop |

### How they interact

Every ingester runs in goroutines of its own and shares three things with the
others: the gNMI cache (`Cache.Update`), the correlator (`Emit`) and the tracker
(`Observe`). FPM and BMP also call `OSPF.Kick` when zebra or bgpd connects. The
tracker's emit hook, set in `cmd/frr-visible/main.go`, turns an anomaly into an
`Emit`. Nothing is persisted: the shim starts empty. The three exporters are
processes of their own that poll the nodes.

### What is hard, and what makes each part correct

| Component | Hard behaviour | Correct when |
|---|---|---|
| Tracker | three planes call `Observe` in any order; a scan collects under the lock and emits after it; an edge trigger lives in the entry | no dead entries, the trigger re-armed by the kernel, every overdue gap flagged and reported once |
| Correlator | concurrent emitters stamp before they queue, so times arrive out of order; a full queue; a flush timer beside the queue | nothing folded twice or out of order, traces causally coherent, the ring the latest traces, `Emit` never blocks |
| OSPF | the reader of /dev/log must not wait for vtysh, lines are lost, FRR restarts silently, vtysh fails | no wakeup lost, cache, `seen` and `st` agree, the cache ends up equal to the neighbour table |
| LLDP | two goroutines run the same unlocked reconcile | everything present ends up shown; nothing is left over if they keep apart |
| FPM | nexthop ids are used again by the next zebra; old and new connection are read together; a VRF's name may come later, or its table cannot be read | the leaves show what was pushed last, and nothing else |
| BMP | the name of a VRF is learned by several goroutines from three sources | each peer stands in one instance with its last state; a route is shown while advertised |
| Netlink, cache | a dump is written while notifications of the same objects are handled; a notification is stamped before it enters the cache | nothing missed, nothing stale outside the unavoidable window |
| VRF resolver | a table of names that is stale until asked in vain | as FPM |
| Trace aggregator | polls again what it has exported; requests fail or lose their answer; it restarts | an id is exported once but for lost answers and restarts; the same traces get the same id; nothing falls between hold and retry |
| Topology exporter | an edge is reported from both ends, in the order of Go maps, or by one | the graph is the union of the reports and prefers the telling detail |
| Path-trace exporter | a walk over tables that loop, and that are written leaf by leaf under it | it ends; in a network that stood still its verdict is that of a packet of the flow; a replaced route is not taken for none |

## 2. Modules

| Module | Models | State and actions |
|---|---|---|
| `PrefixLife` | what the tracker promises about a prefix: who witnesses it, whether its gap was raised, what is due to be reported | abstract |
| `Lineage` | `lineage.go` | `routes` is `Tracker.routes` (age of the FPM hop instead of its time), `outbox` what a scan collected; `Observe`, `Scan` (under the lock), `Emit` (after it), `Tick` |
| `LineagePlanes` | the callers of the tracker, extends `Lineage` | what peers, zebra and the kernel hold, and `wire`: one channel per connection of a plane, each read by a goroutine of its own; `Deliver` is the loop that calls `Observe`; a peer goes (`PeerDown`), a connection is made anew (`Redial`), zebra restarts, and the end of what was written to the old connection is lost |
| `Correlator` | `correlate.go` | `stamped` between taking the time and the select of `Emit`; `Send`, `Drop`, `TakeEvent`, `TakeTick`; `ring` and `active` as in `run` |
| `Mirror` | what a reconciling ingester promises: its view goes entry by entry from one sample of the truth to the next, and all the way before it takes another | abstract |
| `OspfReconcile` | `ospf.go` | datagrams in `sock`, the one-place `trigger`, the worker's `phase`; `Drain`, `Kick`, `TickerFires`, `Wake`, `Slept`, `Ask` and its failures; `Write`, `Drop` and `Finish` are the rounds of the two loops of `reconcile` and its end |
| `LldpReconcile` | `lldp.go` | per goroutine `pc`, the answer it works on and what it has left to write; one action per cache call |
| `FpmRoutes` | `fpm.go`, `vrf.go` (`Name`) | a stream and a route in hand per connection, the nexthop table, the leaves; `TakeNexthop`, `TakeRoute`, `Write`; `known` is the resolver's map, `Refreshed` and `Stale` are `Refresh` with and without a list of the links, `Resolve` is `Name` |
| `BmpPeers` | `bmp.go`, `vrf.go` (`NonDefaultNames`) | a stream and a peer in hand per connection; `TakeState`, `Ask`, `Learn`, `WriteState` are the four parts of `peerState` between its locks; `Ask` sees any part of the VRFs when the links cannot be listed; `TakeVpn`, `TakeEvpn` |
| `NetlinkPlane` | `netlink.go`, `state/cache.go` | notification channels, the list being written, the update each goroutine has stamped; `Stamp` and `Enter` are the two halves of `Cache.Update` |
| `TraceAggregator` | `cmd/trace-aggregator` | `phase` and `next` are the place in `loop`; `Ask` is `fetch` of one node, `Build` groups and merges, `Match`, `Publish`, `Push` with its five outcomes, `Sleep`; `PollTxns` is the other goroutine; rings and Loki around it |
| `PathTrace` | `cmd/pathtrace-exporter`, `Get` of `internal/gnmiserver`, the leaf writes of `fpm.go` | `at`, `stack`, `hops` of `trace`; `Look` starts a Get, `IpHop` and `MplsHop` end it with any value each leaf had meanwhile (`held`); `Message` and `WriteLeaf` change the tables; `Forwarded` is what a router does with a packet, for comparison |
| `Topology` | `cmd/topology-exporter` | `edges` and `ip2node` of `render`; `ReadAddresses`, `AskNode`, `AddReport` |
| `LineageProofs`, `CorrelatorProofs`, `OspfProofs`, `LldpProofs`, `FpmProofs`, `BmpProofs`, `NetlinkProofs`, `ExporterProofs` | proofs; `LineageProofs` about the tracker and its planes, `ExporterProofs` about the aggregator, the path walk and the topology, the others about the module of that name | |
| `MC_*` | instances for TLC; `MC_Exporters` holds both exporters | |

`LineagePlanes` composes the tracker with its callers, `PathTrace` the walk with the
gNMI server and the FPM ingester of the nodes it asks. Elsewhere the environment
(zebra, bgpd, the kernel, lldpd, vtysh, Tempo, Loki) is part of the module that talks
to it, as actions marked external in the map of `PROJECT.json`. Definitions that no
action uses (`SendWhenFull`, `LabelLeft`, `DeliveredUnmarked`, ...) are plausible bugs:
each property fails when its definition is replaced by its variant.

What the ingesters tell the correlator and the tracker is left out of their own
modules: `Correlator` lets any goroutine emit at any time and `LineagePlanes` has
the calls of `Observe`. Parsing is modelled by what it yields, log lines not at all.

## 3. Runs

| Run | Instance | What it shows |
|---|---|---|
| `lineage` | two prefixes, a grace of one tick | `NoGhostEntries`, `FlaggedIsUnconfirmed`, `OverdueIsFlagged`, and that `Lineage` implements `PrefixLife` |
| `planes` | one prefix, two peers, two tables; four changes, one end of a peer, a connection or zebra | `TestimonyIsCurrent`: with its connections drained the tracker repeats the plane's last word, unless that was lost or an older one read after it; so it claims a hop the plane does not hold only after a peer or zebra went without a word, and denies one only if one of several holders has withdrawn it; `StuckRouteIsFlagged` |
| `planes_repush` | one peer, one table; four changes | violated: `StuckRouteIsReported` |
| `correlator` | two emitters, three events, a queue of two, a ring of one | `FoldedOnceInOrder`, `RingIsLatest`, `TracesCohere`, `EmitNeverBlocks`, `ActiveIsClosed` |
| `ospf` | two neighbours on two links; two changes, one lost line, one failed vtysh | `WakeupPending`, `BookkeepingAgrees`, `AlarmIffVisible`, `MirrorsNeighbours` (`OspfReconcile` implements `Mirror`), `SyslogNeverBlocks`, `EventuallyCorrect` |
| `lldp` | two interfaces, a chassis that is replaced or sends no id, one failure | `EventuallyComplete`; `SeenIsCached` and `ConvergesIfAlone` for the runs where the two goroutines keep apart and no chassis is replaced |
| `lldp_race` | one interface, one chassis | violated: `Converges` |
| `fpm` | a nexthop, another or a group on it, a VRF, four messages, one restart, one list of the links that fails | `ShowsLastPush`, `NothingLeftOver` |
| `bmp` | two targets, three peers, one RD, two VRFs, one route of each kind, four messages, one restart, one list of the links that fails | `NeighborWhereItBelongs`, `ShownWhileAdvertised` |
| `netlink` | a link, a MAC and a route, two changes, one poll | `NothingMissed`, `CurrentUnlessRaced`, `PolledIsShown` |
| `aggregator` | two nodes, three traces of two events, one transaction, one fault | `OncePerId`, `SameGroupSameId`, `SettledIsExported` |
| `exporters` | walk: four networks of four routers, two route changes, one failed Get; topology: two sets of eight reports from three nodes, one answer missing | `VerdictIsRight`, `DropIsReal`, `WalkEnds`; `GraphIsUnion` |

Each run takes between some seconds and two and a half minutes with two workers; the
largest are `bmp` and `fpm` with more than two million states each.

### Bounds

Objects are one or two of a kind: the code treats prefixes, routers, routes and
links each by their key, and where it does not (the nexthop a group refers to, the
two peers of an RD) there are two. `lineage` has no bound on the number of calls;
ages saturate one above `Grace`. Elsewhere the environment's changes are bounded
(`MaxChanges`, `MaxSends`, `MaxLost`, `MaxFaults`, `MaxFailures`, `MaxEnds`,
`MaxRestarts`, `MaxSessions`, `MaxDials`, `MaxPolls`, `MaxEvents`, `MaxTime`): the bounds leave room for the longest
story of the hazards, for example install, push, restart, install the same id,
push; or up, down, up of a link with a dump read and written between.
`Correlator` scales the constants of `correlate.go` down: `Cap` 2 for 1024,
`MaxTraces` 1 for 50, `MinChurn` 2 for 3, window, idle and warm-up 1. Every branch is
taken at these sizes: the queue fills, the ring drops a trace, a burst is long
enough and another is not. `OspfReconcile`'s socket holds one datagram (`SockCap`), so
that writers do wait. `netlink` gives MACs and routes one value each and links
two, uses symmetry between these two, and compares times with those of pending
updates only (`MCView`): whatever is older than all of them is equal to the code.

`TraceAggregator` measures time in units: windows, the skew between two clocks and the
hold of an unattributed trace are 1, the range asked of Loki 2, the clock stops at
`MaxTime` 3, after the latest start (2) and the end of its hold. `Limit` is 1 record,
so that the limit of 200 bites. One fault (`MaxFailures`) is a trace that leaves its
ring, a failed request, a lost or a refusing answer, or a restart. The three traces
stand in one group or in two, depending on which have been recorded. `PathTrace` has
`MaxHops` 5 for the 24 rounds of the walk: the longest path of the four networks takes
four rounds, so that every loop and no path meets the bound. Its networks cover what
the walk tells apart: a pushed stack, swap, pop of the last label, default and more
specific routes, an outlet without gateway, a blackhole, loops of labels and of routes,
routes of two VRFs in one node, the more specific one in the packet's VRF or in the
other; two changes (`MaxChanges`) let a Get be crossed by a removal and a push.
`Topology` has sessions whose ends disagree on the detail, sessions that are down,
strangers, and one Get without answer (`MaxSilent`).

`fpm`, `bmp`, `netlink` and `exporters` switch deadlock checking off: the first three
environments simply stop at their bounds, and a refresh of the topology ends. The
other instances have work to the end, the aggregator a poll every interval.

### Fairness

* `LoopFairness` (`Lineage`): the scan's ticker fires for ever and an emit that was
  collected happens. Nothing is assumed of the planes.
* `ShimFairness` (`LineagePlanes`): in addition a message of a connection is read, since
  every connection of a plane has a goroutine that blocks on nothing else (also an old
  one: its goroutine reads on to the end of what has arrived), and time passes.
* `EmitterFairness` (`Correlator`): a goroutine in `Emit` goes on to its select. Only
  `ActiveIsClosed` assumes `RunFairness`: the folding goroutine runs, and Go's random
  choice between ready cases passes over neither for ever.
* `SyslogFairness` (`OspfReconcile`): the reader reads, and the kernel wakes a blocked
  writer. `SyslogNeverBlocks` needs no more: that is its point. `EventuallyCorrect`
  assumes `WorkerFairness` too: the goroutines are scheduled, the loops of `reconcile` go
  on, vtysh ends, the ticker fires; failures are finitely many.
* `LoopFairness` (`TraceAggregator`): the loop goes on, since every request has a
  timeout, and the clock does. Nothing is assumed of the shims, Loki or faults.
* `WF(Walk)` (`PathTrace`): the exporter's goroutine runs and a Get ends within its
  timeout. The tables may change as they like.
* `FairSpec` (`LldpReconcile`): goroutines are scheduled, lldpcli ends, the ticker
  fires. A line of the watch may be late or never come.

## 4. Where the code and its comments disagree

Shown by a run:

* `planes_repush`: `flagged` survives a withdrawal by zebra while a peer keeps the
  entry alive (`lineage.go:84`), so the gap of the next push is shown in `/lineage`
  and never emitted. The package comment promises the hook (`lineage.go:13`).
* `lldp_race`: the watch and the ticker reconcile into each other without a lock;
  a late delete or a lost `seen` entry leaves the cache wrong, against "a slow
  periodic reconcile guarantees convergence".

Met while modelling, and kept out of the properties by the condition named:

* The tracker's key is the prefix: with two peers or two tables the last word of
  either counts, and a withdrawal by one peer clears `rib-in` although the other
  still advertises (`eclipsed` in `TestimonyIsCurrent` and `StuckRouteIsFlagged`).
* Old and new connections of one sender are read by two goroutines
  (`ingest/fpm.go:120`, `ingest/bmp.go:95`). What an old one still holds may be read after
  what the new one said: an old DEL of zebra hides the gap of a route that was pushed
  again, an old route or state is shown (`overtaken`). The end of a connection may be
  lost with it (`lost`), and who goes without a word is still believed (`Vanished`).
* The hook is called after the lock is released (`lineage.go:110`): the event may tell
  of a gap that was closed meanwhile. `PrefixLife` allows it.
* A neighbour that comes back on another interface leaves the leaf of the old one for
  ever (`ospf.go:148`), against "my adjacency state is eventually correct"
  (`ospf.go:16`). The `ospf` run and the theorems give a router one link (`OneHome`).
  While a reconcile is on the way, a reader of the cache finds neighbours of two answers
  side by side (`ospf.go:133-154`).
* A Peer Down that comes first has its VRF guessed from the only VRF device there is
  (`bmp.go:183`); the guess is cached, and the name in the later Peer Up, called
  authoritative (`bmp.go:175`), is not read (`guessed`).
* The grace period runs from the push (`lineage.go:101`), so a route that was
  confirmed for long has none left when the kernel drops it. An orphan is a row of
  `Snapshot` and is never emitted.
* After a restart of zebra, routes it no longer wants keep their leaves and their
  hop (`session <= 1` in `NothingLeftOver`, `ends = 0` in `TestimonyIsCurrent`).
* A route shows what its nexthop resolved to when it arrived; a later change of the
  nexthop object alone does not reach it.
* A VRF whose device appears after its first routes leaves them under `table:N`
  (`late`), and nothing removes them there. The same happens when the device is there
  and the links cannot be listed at that moment: `Refresh` keeps its old map
  (`vrf.go:27-30`), at the start the empty one. `ShowsLastPush` then asks for the route under
  one of the two names, `NothingLeftOver` for nothing.
* A distinguisher without a name leaves its peers under the RD, also because the
  links could not be listed (`vrf.go:63`); the state stands under one of the names, and what
  was written under another stays (`guessed`).
* A bgpd that dies, or a session that ends, withdraws nothing from the cache
  (`dropped`); with two peers of one NLRI the entry is what was said last
  (`speakers`).
* A link that changes between the reading and the writing of a dump may be shown as
  it was, or reappear, until it changes again (`raced`). A link that goes and comes
  back loses its polled leaves until the next poll if its removal is handled late.
* MPLS entries and addresses are never deleted on their own. A route distinguisher of
  type 0 and one of type 2 with the same numbers are printed alike (`bmp.go:585`).
* LLDP: a chassis replaced on the same interface leaves the old one
  (`lldp.go:89`). OSPF: of parallel adjacencies with one router only the first is
  read (`ospf.go:190`).
* Correlator: an event that waits in the queue may find its trace closed by a tick
  and opens one of its own; a root that joins a burst is dropped with it when the
  burst is too short (`correlate.go:141`).
* Aggregator: the id is made of start, link and roots (`cmd/trace-aggregator/main.go:414`).
  A late answer or a missed poll changes the group, and its traces are exported again
  under another id, against the "single merged timeline" of `main.go:1-3`. Equal starts
  and equal votes for a link leave the id to the order of a Go map (`Decided` in
  `SameGroupSameId`). A window that is measured from the first of a group separates
  simultaneous traces at its end (`main.go:264`). An answer with an error status counts
  as exported (`main.go:461`; `refused` in `SettledIsExported`). "Exactly once per
  trace_id" (`main.go:409`) fails by a lost answer or a restart (`OncePerId` counts them).
* Path trace: the walk knows no VRF. It takes the longest match over all VRFs of a node
  (`cmd/pathtrace-exporter/main.go:233-275`), also after a label was popped into one of them
  (`main.go:194-197`), and of one prefix in two VRFs it may read the next hop of one with
  the labels of the other. So it can say "reached" where no packet arrives: in `MCVpn`
  take pe1's VPN route away and give pe1's main table a default route to pe2. The walk
  goes to pe2 and on by pe2's VPN route; a packet of the VPN is dropped at pe1, and one of
  the main table at pe2. `VerdictIsRight` compares the verdict with a packet that stays
  in its VRF, and asks it only where no other VRF's route leads (`Clear`). It asks nothing
  either where the route ends on a link ("-"): the walk then says that the next hop is
  not in the inventory, the destination may be on that link or not. The server calls its answer a "one-shot snapshot"
  (`gnmiserver/server.go:91`); it reads one leaf after the other, and two changes during
  one Get may hide a route that was there all the time (`raced` in `DropIsReal`).
* Topology: with several telling details of one edge, the graph shows the one that came
  first in the order of a Go map, although the merge is called order-independent
  (`cmd/topology-exporter/main.go:119-121`; `GraphIsUnion` allows each of them).

## 5. Proofs

`tlapm` proves every obligation of the eight proof modules, for all values of the
constants that satisfy the named assumptions of the modules.

* **Tracker.** `TypeCorrect` comes first. `NoGhostEntries` and `FlaggedIsUnconfirmed`
  speak of the map by stages and rows; the invariant is put per entry: `IInv` =
  `TypeOK` and `SoundEntries`, every entry of the map has a witness and, when it is
  flagged, no kernel confirmation. Types are needed beside it, since `Observe`
  starts from the old entry or from a new one. It keeps the invariant because the
  deletion and the re-arming follow the write of the hop in one critical section
  (`ObservedSound`); `Scan` flags only what the kernel does not confirm. `GhostFree` and
  `TriggerRearmed` follow. `RefinesPrefixLife` maps `witness` to the hops that are present,
  `raised` to `flagged`, `due` to the outbox; `ObserveRefines` is `Hold` or `Lose`,
  `ScanRefines` is `Raise`, `Tick` is a stutter. It assumes only that the grace is a
  natural number and that "no entry" is no entry.
* **Tracker under its planes.** `PlanesImplementLineage`: every step of the composition is
  one of `Lineage` or leaves it alone, so all of the above holds there too.
  `TestimonyCorrect`: `TestimonyIsCurrent` speaks of drained connections and is not
  inductive. `AllCurrent` says of any moment (`Testimony`) that the newest connection which
  still mentions a prefix ends, for that prefix, in the plane's last word (`EndsIn`), and
  that once none does (`Quiet`) the hop is that word, if it was not lost and no older
  connection was read after it; `Truthful` says when the word is what the plane holds.
  What is still to come from an old connection does not matter to the newer ones, which
  is why the order between connections can be left open. The lemmas about `Mute` and
  `LastWord` say what a message, its delivery, a lost tail and a listing do to last words.
  `Finite` (prefixes, peers and tables) is assumed because a listing puts a set of
  routes into a sequence.
* **Correlator.** `TypeCorrect` (the queue is bounded by `Cap` in every behaviour).
  `FoldCorrect`: the queue is numbered without a gap and ends at what was accepted
  last, and the events of the ring and of the active trace come before it in order.
  `RingCorrect`: the ring's numbers are consecutive and end at `seq`. `TracesCorrect`: the
  active trace coheres at every moment, although times arrive out of order, and is
  closed only when it is long enough or has a root. They hold for any number of
  emitters, events and any sizes.
* **OSPF.** `TypeCorrect`; `WakeupNotLost`: `WakeupPending` with `Answering` (an answer
  is at hand exactly while it is applied) is inductive, whatever the number of
  routers, links, lines and Kicks. `BookkeepingCorrect`, `AlarmsCorrect` and
  `RefinesMirror` assume
  `OneHome`, that every router id has one link, which is what the code
  relies on by keying `seen` and `st` by router id. Under it `Home`
  (neighbours, answer and `seen` only where the router is wired, and `Records`: the leaves of a
  neighbour agree with `seen` and `st` until the loops come to it, `Before`, and with the answer
  from then on, `After`) is inductive. A round of a loop is then one `Move` of `Mirror`,
  and at the end every leaf is the answer, which is `Finish`. An event is emitted
  in the round in which the leaf changes, at most once in a reconcile (`Unspoken`).
* **LLDP.** `SeenCorrect`: as long as the goroutines keep apart and no chassis is
  replaced (`WellKept`), `seen` is the cache between reconciles. Within one, the cache is
  what has been written of the answer beside what `seen` still holds (`WrittenSoFar`),
  and then the answer beside what is left to delete (`DeletedSoFar`).
* **FPM.** `ShowsCorrect` and `NothingLeftCorrect`. Both speak of drained connections;
  what makes them inductive is `Foreseen`: there is a sequence of nexthop tables, the
  first in agreement with the ingester's, the last zebra's own, each the one before with
  the next message of the connection filled in (`Run`), and the last message about a route
  names, read in its place of that sequence, what zebra pushed (`EndsRight`); if there
  is none, the route in hand or a leaf shows it already (`Settled`), a leaf under the name
  the table has or, for a table that was named late, under one of its two (`Standing`).
  `Filed` says that whatever is written of another table stands under the name it has now,
  and the labels beside it.
  `Shown` follows references between nexthop objects up to a depth: `Reached` is the
  recursive function by which it does so, and `ShownSame` says that two tables that agree
  on what they have give the same answer.
* **BMP.** `NeighborsCorrect`: every name that a goroutine has in hand, that `rdVRF` holds
  or under which a peer stands is its home unless it was guessed (`Named`), whatever
  the order in which the goroutines ask and learn; and the last word about a peer is in
  the stream of the newest connection, in hand, or in a leaf (`Latest`), the one at
  home unless the name was guessed (`Stands`).
  `RoutesCorrect`: of a route that one peer has spoken of, the last word is on its way or
  in the cache (`LastSaid`).
* **Netlink.** The three theorems rest on one invariant. `Planned`: a subscription comes
  before the dump, and nothing is shown of a table before it is subscribed. `Words`: the
  last notification about an object says what the kernel has. `NotLost`: an object of the
  kernel has its leaf, or a dump or a notification that will write it. `Fresh` and
  `Current`: for an object that did not change between the reading and the writing of a
  dump, no late or old update hides the kernel's word. `Gone`: the leaves of a removed link
  go with it. `Polled`: what a poll read since the last change stands. Assumed are
  disjoint tables, finitely many routes (a dump of them is put into a sequence), and that
  an address belongs to a link.
* **Aggregator.** `TypeCorrect`, and `ExportedOncePerId`: `OncePerId` has to say why there is
  room for another export; `Explained` counts exports of an id by lost answers, restarts
  and one if the id is in `pushed` now. `GroupIsId`: the traces of a group stand in the
  order of their starts, each once (`GroupsOrdered`, by induction over the number of
  traces grouped so far), so a set of traces with distinct starts is a group in one way
  only (`OrderedSame`), and the id, made of that group, does not depend on the order of the
  polls or the transaction it was matched with. `GroupInv` says that whatever waits to be
  pushed was made by such a merge.
* **Path.** `ReplacedIsNotMissing` (`DropIsReal`): FPM writes the leaves of a route one after
  the other, and a Get reads them one after the other. `FiledIsShown`: the next hop of a
  filed route stands, and no write on its way takes it away; `HopComes`: by the time the
  last leaf of a route files it, its next hop stands. `GetSees`: while no more than one
  change crosses a Get and some route was filed throughout, one route has a next hop in
  every answer the Get can give. `NetworkAssumption`: a shown next hop is a value, "-"
  where the route has no gateway. `VerdictCorrect`: the packet has a VRF and is looked up
  in it alone (`Forwarded`), the walk has none. In a network that stands still (`Still`)
  and where no other VRF leads (`Clear`) the walk is, round by round, on the packet's node
  with the packet's labels (`Followed`). `After` gives the places of a packet by its
  rounds; once lost it stays lost (`LostStaysLost`, by induction). A Get of such a network
  reads what is there, and the longest match over all VRFs is the best route of the
  packet's own (`TakesBest`); it yields one hop because labels stand only beside a next hop
  (`Paired`, kept by every leaf write because of the order of the writes).
* **Topology.** `GraphCorrect`: the graph unites (`Unites`) the reports of the asked nodes
  that have been added so far, and those are all when nothing is left to add. The order
  of nodes, layers and reports is arbitrary.

Induction. The library's induction theorem has an operator for a parameter, which the
provers cannot instantiate. `FpmProofs` and `ExporterProofs` derive from the
well-foundedness of < on the naturals what they need instead: `NatSetInduction` (a set
with 0 that is closed under the successor has every natural number) and `Iteration`
(a function defined by its first value and its step exists and satisfies its equations).

Only model-checked is everything under fairness (`OverdueIsFlagged`,
`StuckRouteIsFlagged`, `EmitNeverBlocks`, `ActiveIsClosed`, `SyslogNeverBlocks`,
`EventuallyCorrect`, `EventuallyComplete`, `ConvergesIfAlone`, `SettledIsExported`,
`WalkEnds`): liveness and ENABLED are beyond the prover. Every other property of the
passing runs, invariant or action property, is a theorem.

## 6. Not modelled

* The gNMI server's `Subscribe` is the external library's. `Get` is modelled as the walk
  uses it: one wildcard path whose leaves are read one after the other.
* The cgroup ingester (samples of counters), the subscription test client, lab and
  page: input and output only. Of `main`, flags and listeners.
* In the exporters and the aggregator: the text of pages, metrics, span tags and
  durations; the anchors' own fields; the addresses a node has beside the one modelled.
* In the modelled components: MTU, peer AS, labels and the other leaves that are
  written with a modelled one; the `Update` of an ingester is one step except in
  `NetlinkPlane` and `PathTrace`, and `FpmRoutes` makes one step of the two of a route
  without labels (`fpm.go:342-344`), which `PathTrace` takes apart; a list of the links that fails
  for a BMP goroutine while another fills the map leaves any part of the VRFs; one
  bgpd per BMP target; `LinkByIndex` answers as of the notification; a
  subscription that the netlink library ends; VRF devices that are renamed or deleted;
  an lldpcli watch that cannot start (`Run` then returns); a parallel adjacency and a
  switched-off safety net of OSPF and a watch that hands nothing on (`Parallel`,
  `Fallback`, `WatchWorks`) are in the models but in no run; two routes to one prefix in
  one table.

## 7. Plan

Done, in this order: the tracker with its planes, the correlator, OSPF and LLDP; FPM
with the VRF resolver, BMP, netlink with the cache; the aggregator; the exporters with
`Get`; proofs of every safety property of the runs, component by component in the
same order.

Left, should the project grow:

1. Several prefixes of one tracker under `LineagePlanes` with a full queue in the
   correlator, the composition that bounds what an operator can miss.
2. An abstract specification that `FpmRoutes`, `BmpPeers` and `NetlinkPlane` share (a
   view that follows a stream of words, with the windows named in section 4), as `Mirror`
   is for the reconciling ingesters.
