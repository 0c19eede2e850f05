-------------------------------- MODULE Lineage --------------------------------
(***************************************************************************)
(* internal/lineage: the Tracker that joins what three planes say about a  *)
(* prefix.  Observe is called by the BMP, FPM and netlink goroutines, the   *)
(* reconcile loop scans for install gaps under the same mutex and calls    *)
(* the emit hook after it has released it.                                 *)
(*                                                                         *)
(* A hop's time stamp is read by the code only as now - ts > grace, for    *)
(* the FPM hop: the model keeps the age of that hop, saturating one above  *)
(* Grace.                                                                  *)
(***************************************************************************)
EXTENDS Naturals

CONSTANTS
    Prefixes,   \* the keys of Tracker.routes
    Protos,     \* the rtm_protocol values protoOf can return for a kernel hop
    Grace,      \* Tracker.grace, in clock ticks
    NoEntry     \* a prefix that is not a key of Tracker.routes

Stages == {"rib-in", "fpm", "kernel"}
NoProto == ""   \* the zero value of Entry.kproto

Entry == [present : [Stages -> BOOLEAN],
          fpmAge  : 0 .. Grace + 1,
          kproto  : Protos \union {NoProto},
          flagged : BOOLEAN]

ASSUME GraceAssumption == Grace \in Nat
ASSUME NoEntryAssumption == NoEntry \notin Entry

VARIABLES
    routes,     \* Tracker.routes
    outbox      \* the anomalies reconcile collected and has not emitted yet

lineageVars == <<routes, outbox>>

TypeOK ==
    /\ routes \in [Prefixes -> Entry \union {NoEntry}]
    /\ outbox \in SUBSET Prefixes

Init ==
    /\ routes = [p \in Prefixes |-> NoEntry]
    /\ outbox = {}

Tracked(p) == routes[p] # NoEntry
Holds(p, s) == Tracked(p) /\ routes[p].present[s]
Flagged(p) == Tracked(p) /\ routes[p].flagged

(***************************************************************************)
(* Observe                                                                 *)
(***************************************************************************)
NewEntry == [present |-> [s \in Stages |-> FALSE],
             fpmAge  |-> 0,
             kproto  |-> NoProto,
             flagged |-> FALSE]

EntryOf(p) == IF Tracked(p) THEN routes[p] ELSE NewEntry

\* The hop is overwritten whatever it was: a repeated push restarts its age.
WithHop(e, stage, present) ==
    [e EXCEPT !.present[stage] = present,
              !.fpmAge = IF stage = "fpm" THEN 0 ELSE @]

ConfirmedWithoutRearm(e, proto) == [e EXCEPT !.kproto = proto]

\* The kernel confirmed the prefix: gap detection is re-armed.
Confirmed(e, proto) == [e EXCEPT !.flagged = FALSE, !.kproto = proto]

Withdrawn(e) == \A s \in Stages : ~e.present[s]

ObservedWithoutDelete(e, stage, present, proto) ==
    IF stage = "kernel" /\ present THEN Confirmed(e, proto) ELSE e

ObservedForgettingOnFpm(e, stage, present, proto) ==
    IF stage = "kernel" /\ present THEN Confirmed(e, proto)
    ELSE IF ~present /\ stage = "fpm" THEN NoEntry
    ELSE e

\* What Observe leaves in the map for an entry e whose hop has been written.
Observed(e, stage, present, proto) ==
    IF stage = "kernel" /\ present THEN Confirmed(e, proto)
    ELSE IF ~present /\ Withdrawn(e) THEN NoEntry
    ELSE e

Observe(p, stage, present, proto) ==
    /\ routes' = [routes EXCEPT ![p] =
                    Observed(WithHop(EntryOf(p), stage, present),
                             stage, present, proto)]
    /\ UNCHANGED outbox

(***************************************************************************)
(* The reconcile loop                                                      *)
(***************************************************************************)
OverdueIgnoringFlag(e) ==
    e.present["fpm"] /\ ~e.present["kernel"] /\ e.fpmAge > Grace

OverdueIfLearned(e) ==
    /\ e.present["rib-in"] /\ e.present["fpm"] /\ ~e.present["kernel"]
    /\ ~e.flagged /\ e.fpmAge > Grace

Overdue(e) ==
    /\ e.present["fpm"]
    /\ ~e.present["kernel"]
    /\ ~e.flagged
    /\ e.fpmAge > Grace

\* One pass under the mutex.  The loop is one goroutine, so a pass starts only
\* when the anomalies of the previous one have been emitted.
Scan ==
    /\ outbox = {}
    /\ outbox' = {p \in Prefixes : Tracked(p) /\ Overdue(routes[p])}
    /\ routes' = [p \in Prefixes |->
                    IF p \in outbox' THEN [routes[p] EXCEPT !.flagged = TRUE]
                                     ELSE routes[p]]

\* One call of the emit hook, after the mutex was released.
Emit(p) ==
    /\ p \in outbox
    /\ outbox' = outbox \ {p}
    /\ UNCHANGED routes

(***************************************************************************)
(* Snapshot: the Gap column of the /lineage rows                           *)
(***************************************************************************)
Gap(e) ==
    IF e.present["fpm"] /\ ~e.present["kernel"] THEN "install-gap"
    ELSE IF e.present["kernel"] /\ ~e.present["fpm"] /\ e.kproto = "zebra"
      THEN "orphan-kernel"
    ELSE ""

RowGap(p) == IF Tracked(p) THEN Gap(routes[p]) ELSE ""

(***************************************************************************)
(* The specification                                                       *)
(***************************************************************************)
Older(age) == IF age > Grace THEN age ELSE age + 1

\* The clock advances.
Tick ==
    /\ routes' = [p \in Prefixes |->
                    IF Tracked(p) THEN [routes[p] EXCEPT !.fpmAge = Older(@)]
                                  ELSE NoEntry]
    /\ UNCHANGED outbox

Next ==
    \/ \E p \in Prefixes, stage \in Stages, present \in BOOLEAN, proto \in Protos :
         Observe(p, stage, present, proto)
    \/ Scan
    \/ \E p \in Prefixes : Emit(p)
    \/ Tick

Spec == Init /\ [][Next]_lineageVars

\* The loop's ticker fires for ever and the hook is a non-blocking send; what
\* the planes observe is up to the router.
LoopFairness ==
    /\ WF_lineageVars(Scan)
    /\ \A p \in Prefixes : WF_lineageVars(Emit(p))

FairSpec == Spec /\ LoopFairness

(***************************************************************************)
(* Properties                                                              *)
(***************************************************************************)

\* The map never keeps a prefix that every plane has withdrawn (the delete at
\* the end of Observe), so /lineage has no empty rows and the map is bounded
\* by what the router holds.
NoGhostEntries ==
    \A p \in Prefixes : Tracked(p) => \E s \in Stages : Holds(p, s)

\* The edge trigger is never left set on a prefix the kernel holds: a later
\* gap of that prefix can be reported again.
FlaggedIsUnconfirmed ==
    \A p \in Prefixes : Flagged(p) => ~Holds(p, "kernel")

\* A gap that is past the grace period is flagged, unless the route is
\* confirmed, withdrawn or pushed again first.
OverdueIsFlagged ==
    \A p \in Prefixes :
        (Holds(p, "fpm") /\ ~Holds(p, "kernel") /\ routes[p].fpmAge > Grace)
            ~> \/ Flagged(p)
               \/ ~Holds(p, "fpm")
               \/ Holds(p, "kernel")
               \/ routes[p].fpmAge = 0

\* The tracker implements PrefixLife: the map with its deletions is the set of
\* witnesses, the outbox is what is due, and a gap is raised, and so reported,
\* once until the kernel confirms the prefix or every plane has dropped it.
Life == INSTANCE PrefixLife WITH
    Fpm <- "fpm", Kernel <- "kernel",
    witness <- [p \in Prefixes |-> {s \in Stages : Holds(p, s)}],
    raised <- [p \in Prefixes |-> Flagged(p)],
    due <- outbox

ImplementsPrefixLife == Life!Spec
===============================================================================
