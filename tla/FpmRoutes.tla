------------------------------- MODULE FpmRoutes -------------------------------
(***************************************************************************)
(* internal/ingest/fpm.go and vrf.go: the routes zebra pushes.  zebra      *)
(* dials in and streams nexthop objects and routes that refer to them; a   *)
(* goroutine per connection keeps the nexthop table (under a lock, shared  *)
(* by the connections) and writes a route's leaves under the name of its   *)
(* VRF, which it asks of a table of names that is refreshed on a miss.     *)
(*                                                                         *)
(* A gateway stands for what a nexthop resolves to, the MPLS labels it     *)
(* pushes included.                                                        *)
(***************************************************************************)
EXTENDS Naturals, Sequences

CONSTANTS
    Ids,            \* nexthop-object ids
    Gateways,
    Labelled,       \* the gateways that push labels
    Tables,         \* routing tables
    VrfTables,      \* the tables of VRFs, main being none
    Prefixes,
    MaxDepth,       \* resolveNH gives up below this depth
    MaxSends,       \* bound on zebra's messages
    MaxSessions,    \* bound on zebra's connections
    MaxFaults,      \* bound on refreshes of the VRF names that go wrong
    None

ASSUME FpmAssumption ==
    /\ Labelled \subseteq Gateways
    /\ VrfTables \subseteq Tables
    /\ {MaxDepth, MaxSends, MaxSessions, MaxFaults} \subseteq Nat

\* What a route or a nexthop object says: a gateway, nothing at all, or see
\* nexthop object to (a group is known by its first member).
Blackhole == [kind |-> "blackhole", to |-> None]
Hops == [kind : {"via"}, to : Gateways] \union {Blackhole}
Refs == [kind : {"see"}, to : Ids]
Objects == Hops \union Refs

\* The next-hop leaf: a gateway, "blackhole", or "-" for what is not resolved.
Shows == Gateways \union {"blackhole", "-"}

Routes == Tables \X Prefixes
Instances == {"table", "vrf"} \X Tables
Sessions == 1 .. MaxSessions

NexthopMsg == [op : {"nexthop"}, id : Ids, object : Objects \union {None}]
RouteMsg == [op : {"route"}, route : Routes, object : Objects \union {None}]
Job == [instance : Instances, prefix : Prefixes, show : Shows \union {None}]

\* What is not there looks like nothing that is.
ASSUME NoneAssumption == None \notin Shows \union Objects \union Job

VARIABLES
    znh,        \* zebra's nexthop objects
    pushed,     \* what each route zebra has pushed resolved to for zebra
    session,    \* zebra's current connection, 0 before the first
    sends,      \* messages sent
    stream,     \* stream[s]: what connection s still holds for its goroutine
    vrfs,       \* the tables that have a VRF device
    nh,         \* FPM.nh
    known,      \* VRFResolver.m: the tables it has a name for
    faults,     \* refreshes that went wrong
    job,        \* job[s]: the route goroutine s has resolved and not written
    hop,        \* the next-hop leaves
    label,      \* the pushed-mpls-label-stack leaves
    newest,     \* history: the newest connection a message was taken from
    overtaken,  \* history: an older connection was served after a newer one
    late        \* history: tables whose VRF device appeared, or was seen, only
                \* after a route was filed

zebraVars == <<znh, pushed, session, sends>>
leafVars == <<hop, label>>
histVars == <<newest, overtaken, late>>
nameVars == <<known, faults>>
vars == <<zebraVars, stream, vrfs, nh, nameVars, job, leafVars, histVars>>

TypeOK ==
    /\ znh \in [Ids -> Objects \union {None}]
    /\ pushed \in [Routes -> Shows \union {None}]
    /\ session \in 0 .. MaxSessions
    /\ sends \in 0 .. MaxSends
    /\ stream \in [Sessions -> Seq(NexthopMsg \union RouteMsg)]
    /\ vrfs \in SUBSET VrfTables
    /\ nh \in [Ids -> Objects \union {None}]
    /\ known \in SUBSET VrfTables
    /\ faults \in 0 .. MaxFaults
    /\ job \in [Sessions -> Job \union {None}]
    /\ hop \in [Instances \X Prefixes -> Shows \union {None}]
    /\ label \in [Instances \X Prefixes -> Labelled \union {None}]
    /\ newest \in 0 .. MaxSessions
    /\ overtaken \in BOOLEAN
    /\ late \in SUBSET VrfTables

Init ==
    /\ znh = [i \in Ids |-> None]
    /\ pushed = [r \in Routes |-> None]
    /\ session = 0
    /\ sends = 0
    /\ stream = [s \in Sessions |-> <<>>]
    /\ vrfs \in SUBSET VrfTables
    /\ nh = [i \in Ids |-> None]
    /\ known \in {vrfs, {}}      \* NewVRFResolver's own refresh may have failed
    /\ faults = 0
    /\ job = [s \in Sessions |-> None]
    /\ hop = [l \in Instances \X Prefixes |-> None]
    /\ label = [l \in Instances \X Prefixes |-> None]
    /\ newest = 0
    /\ overtaken = FALSE
    /\ late = {}

(***************************************************************************)
(* resolveNH                                                               *)
(***************************************************************************)
ShownByNumber(table, object) ==
    IF object.kind = "blackhole" THEN "blackhole" ELSE object.to

\* One step of resolveNH: what the table has under the id that is referred to.
LookUp(table, o) == IF o \in Refs /\ table[o.to] # None THEN table[o.to] ELSE o

\* The object that is reached from this one in n lookups.
Reached(table, object) ==
    LET At[n \in Nat] == IF n = 0 THEN object ELSE LookUp(table, At[n - 1])
    IN  At

\* What an object shows, given the nexthop table: references are followed to
\* MaxDepth, the first at depth 0.
Shown(table, object) ==
    LET o == Reached(table, object)[MaxDepth + 1]
    IN  IF o.kind = "blackhole" THEN "blackhole"
        ELSE IF o.kind = "via" THEN o.to
        ELSE "-"

(***************************************************************************)
(* zebra                                                                   *)
(***************************************************************************)
\* The FPM connection is made, or made again after a restart: zebra starts from
\* nothing and the end of what it wrote to the last connection is lost.
Connect(kept) ==
    /\ session < MaxSessions
    /\ session' = session + 1
    /\ znh' = [i \in Ids |-> None]
    /\ pushed' = [r \in Routes |-> None]
    /\ stream' = IF session = 0 THEN stream
                 ELSE [stream EXCEPT ![session] = SubSeq(@, 1, kept)]
    /\ UNCHANGED <<sends, vrfs, nh, nameVars, job, leafVars, histVars>>

Sends(msg) ==
    /\ session > 0 /\ sends < MaxSends
    /\ sends' = sends + 1
    /\ stream' = [stream EXCEPT ![session] = Append(@, msg)]

Referenced(id) == \E i \in Ids : znh[i] \in Refs /\ znh[i].to = id

\* zebra installs a nexthop object, or another one under the same id.  The
\* first member of a group is an object of its own that is no group.
InstallNexthop(id, object) ==
    /\ znh[id] # object
    /\ object \in Refs => znh[object.to] \in Hops /\ object.to # id /\ ~Referenced(id)
    /\ Sends([op |-> "nexthop", id |-> id, object |-> object])
    /\ znh' = [znh EXCEPT ![id] = object]
    /\ UNCHANGED <<pushed, session, vrfs, nh, nameVars, job, leafVars, histVars>>

DeleteNexthop(id) ==
    /\ znh[id] # None
    /\ ~Referenced(id)
    /\ Sends([op |-> "nexthop", id |-> id, object |-> None])
    /\ znh' = [znh EXCEPT ![id] = None]
    /\ UNCHANGED <<pushed, session, vrfs, nh, nameVars, job, leafVars, histVars>>

PushRoute(route, object) ==
    /\ object \in Refs => znh[object.to] # None
    /\ Sends([op |-> "route", route |-> route, object |-> object])
    /\ pushed' = [pushed EXCEPT ![route] = Shown(znh, object)]
    /\ UNCHANGED <<znh, session, vrfs, nh, nameVars, job, leafVars, histVars>>

DeleteRoute(route) ==
    /\ pushed[route] # None
    /\ Sends([op |-> "route", route |-> route, object |-> None])
    /\ pushed' = [pushed EXCEPT ![route] = None]
    /\ UNCHANGED <<znh, session, vrfs, nh, nameVars, job, leafVars, histVars>>

\* Somebody creates the VRF device of a table.
VrfAppears(table) ==
    /\ table \in VrfTables \ vrfs
    /\ vrfs' = vrfs \union {table}
    /\ late' = IF \/ \E p \in Prefixes : hop[<<<<"table", table>>, p>>] # None
                  \/ \E s \in Sessions :
                        job[s] # None /\ job[s].instance = <<"table", table>>
                 THEN late \union {table} ELSE late
    /\ UNCHANGED <<zebraVars, stream, nh, nameVars, job, leafVars, newest, overtaken>>

(***************************************************************************)
(* The shim                                                                *)
(***************************************************************************)
RefreshedNever(table) == known

\* VRFResolver.Name looks again when it has no name for a table.
Refreshed(table) ==
    IF table \in VrfTables /\ table \notin known THEN vrfs ELSE known

\* What is left when the second look goes wrong: the devices cannot be listed
\* and the old names stay, or another connection's refresh overlaps and stores
\* a list it read earlier.  Devices only come, so that list is a part of vrfs.
Stale(table) ==
    IF table \in VrfTables /\ table \notin known
    THEN {known} \union (IF session > 1 THEN SUBSET vrfs ELSE {})
    ELSE {}

\* The names Name goes by.
Resolve(table) ==
    \/ known' = Refreshed(table) /\ UNCHANGED <<faults, late>>
    \/ /\ faults < MaxFaults
       /\ faults' = faults + 1
       /\ known' \in Stale(table)
       /\ late' = late \union ({table} \intersect (vrfs \ known'))

Instance(table, names) == IF table \in names THEN <<"vrf", table>> ELSE <<"table", table>>

Serves(s) ==
    /\ newest' = IF s > newest THEN s ELSE newest
    /\ overtaken' = (overtaken \/ s < newest)

TakeNexthop(s) ==
    /\ job[s] = None /\ stream[s] # <<>> /\ Head(stream[s]).op = "nexthop"
    /\ nh' = [nh EXCEPT ![Head(stream[s]).id] = Head(stream[s]).object]
    /\ stream' = [stream EXCEPT ![s] = Tail(@)]
    /\ Serves(s)
    /\ UNCHANGED <<zebraVars, vrfs, nameVars, job, leafVars, late>>

\* handleRoute up to the cache: the nexthop and the VRF name are looked up.
TakeRoute(s) ==
    /\ job[s] = None /\ stream[s] # <<>> /\ Head(stream[s]).op = "route"
    /\ LET msg == Head(stream[s])
       IN  /\ Resolve(msg.route[1])
           /\ job' = [job EXCEPT ![s] =
                [instance |-> Instance(msg.route[1], known'),
                 prefix   |-> msg.route[2],
                 show     |-> IF msg.object = None THEN None ELSE Shown(nh, msg.object)]]
    /\ stream' = [stream EXCEPT ![s] = Tail(@)]
    /\ Serves(s)
    /\ UNCHANGED <<zebraVars, vrfs, nh, leafVars>>

LabelLeft(old, show) ==
    IF show \in Labelled THEN show ELSE IF show = None THEN None ELSE old

\* A route that imposes no labels has a stale stack cleared.
LabelAfter(old, show) == IF show \in Labelled THEN show ELSE None

\* handleRoute writes, or deletes, both leaves.
Write(s) ==
    /\ job[s] # None
    /\ LET leaf == <<job[s].instance, job[s].prefix>>
       IN  /\ hop' = [hop EXCEPT ![leaf] = job[s].show]
           /\ label' = [label EXCEPT ![leaf] = LabelAfter(@, job[s].show)]
    /\ job' = [job EXCEPT ![s] = None]
    /\ Serves(s)
    /\ UNCHANGED <<zebraVars, stream, vrfs, nh, nameVars, late>>

(***************************************************************************)
(* The specification                                                       *)
(***************************************************************************)
Zebra ==
    \/ \E kept \in 0 .. IF session = 0 THEN 0 ELSE Len(stream[session]) : Connect(kept)
    \/ \E id \in Ids, object \in Objects : InstallNexthop(id, object)
    \/ \E id \in Ids : DeleteNexthop(id)
    \/ \E route \in Routes, object \in Objects : PushRoute(route, object)
    \/ \E route \in Routes : DeleteRoute(route)

Handlers == \E s \in Sessions : TakeNexthop(s) \/ TakeRoute(s) \/ Write(s)

Next == Zebra \/ (\E table \in VrfTables : VrfAppears(table)) \/ Handlers

Spec == Init /\ [][Next]_vars

(***************************************************************************)
(* Properties                                                              *)
(***************************************************************************)
Drained == \A s \in Sessions : stream[s] = <<>> /\ job[s] = None

LabelOf(show) == IF show \in Labelled THEN show ELSE None

\* What zebra pushed last for a route is what the leaves of the route show,
\* resolved as zebra resolved it, across restarts of zebra that use the same
\* nexthop ids again, provided that no old connection is served after a newer
\* one: under the name the table has, or, when the VRF device came late or
\* could not be listed, under one of the table's two names.
ShowsLastPush ==
    Drained /\ ~overtaken =>
        \A table \in Tables, p \in Prefixes :
            pushed[<<table, p>>] # None =>
                \E i \in Instances :
                    /\ i[2] = table
                    /\ table \notin late => i = Instance(table, vrfs)
                    /\ hop[<<i, p>>] = pushed[<<table, p>>]
                    /\ label[<<i, p>>] = LabelOf(pushed[<<table, p>>])

\* Until zebra restarts nothing else is shown either: no leaf of a deleted
\* route, no leaf under a name the table does not have any more.
NothingLeftOver ==
    Drained /\ session <= 1 =>
        \A i \in Instances, p \in Prefixes :
            i[2] \notin late =>
                /\ hop[<<i, p>>] # None => i = Instance(i[2], vrfs) /\ pushed[<<i[2], p>>] # None
                /\ label[<<i, p>>] # None => hop[<<i, p>>] = label[<<i, p>>]
===============================================================================
