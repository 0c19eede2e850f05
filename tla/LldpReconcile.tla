----------------------------- MODULE LldpReconcile -----------------------------
(***************************************************************************)
(* internal/ingest/lldp.go: LLDP neighbours.  Run reconciles once, then    *)
(* two goroutines reconcile on their own: the scanner of `lldpcli watch`   *)
(* and a 15 s ticker.  They share LLDP.seen and the cache and take no      *)
(* lock, so every read and write of a reconcile is a step of its own.      *)
(*                                                                         *)
(* A neighbour is a pair <<interface, chassis>>; its leaves in the cache   *)
(* sit under both keys.                                                    *)
(***************************************************************************)
EXTENDS Naturals

CONSTANTS
    Ifaces, Chassis,
    NoChassis,      \* lldpd knows no chassis id and no system name yet
    Pluggable,      \* what lldpd can list, per interface
    WatchWorks,     \* lldpcli watch hands its lines on (it may buffer them)
    MaxChanges,     \* bound on neighbour changes
    MaxFaults       \* bound on lldpcli runs that fail or answer garbage

Neighbours == Ifaces \X Chassis
Listed == Ifaces \X (Chassis \union {NoChassis})
Goroutines == {"watch", "ticker"}

ASSUME LldpAssumption ==
    /\ NoChassis \notin Chassis
    /\ Pluggable \subseteq Listed
    /\ WatchWorks \in BOOLEAN
    /\ MaxChanges \in Nat /\ MaxFaults \in Nat

VARIABLES
    nbrs,       \* what lldpd knows
    line,       \* watch has a line about a neighbour for the scanner
    cache,      \* the neighbours with leaves in the cache
    seen,       \* LLDP.seen, as a set of pairs
    pc,         \* what each goroutine is at
    cur,        \* reconcile: the parsed answer, which becomes seen
    left,       \* reconcile: what its current loop has still to do
    changes, faults

localVars == <<pc, cur, left>>
vars == <<nbrs, line, cache, seen, localVars, changes, faults>>

TypeOK ==
    /\ nbrs \in SUBSET Listed
    /\ line \in BOOLEAN
    /\ cache \in SUBSET Neighbours
    /\ seen \in SUBSET Neighbours
    /\ pc \in [Goroutines -> {"not started", "idle", "asking", "writing", "deleting"}]
    /\ cur \in [Goroutines -> SUBSET Neighbours]
    /\ left \in [Goroutines -> SUBSET Neighbours]
    /\ changes \in 0 .. MaxChanges
    /\ faults \in 0 .. MaxFaults

\* One neighbour per interface.
Plugged(set) == \A n, m \in set : n[1] = m[1] => n = m

Init ==
    /\ nbrs \in {set \in SUBSET Pluggable : Plugged(set)}
    /\ line = FALSE
    /\ cache = {}
    /\ seen = {}
    /\ pc = [g \in Goroutines |-> IF g = "watch" THEN "asking" ELSE "not started"]
    /\ cur = [g \in Goroutines |-> {}]
    /\ left = [g \in Goroutines |-> {}]
    /\ changes = 0
    /\ faults = 0

(***************************************************************************)
(* lldpd and the triggers                                                  *)
(***************************************************************************)
Change ==
    /\ changes < MaxChanges
    /\ changes' = changes + 1
    /\ nbrs' \in {set \in SUBSET Pluggable \ {nbrs} : Plugged(set)}
    /\ line' = (line \/ WatchWorks)
    /\ UNCHANGED <<cache, seen, localVars, faults>>

\* The scanner read a line with "neighbor" in it.
WatchLine ==
    /\ pc["watch"] = "idle" /\ line
    /\ line' = FALSE
    /\ pc' = [pc EXCEPT !["watch"] = "asking"]
    /\ UNCHANGED <<nbrs, cache, seen, cur, left, changes, faults>>

Tick ==
    /\ pc["ticker"] = "idle"
    /\ pc' = [pc EXCEPT !["ticker"] = "asking"]
    /\ UNCHANGED <<nbrs, line, cache, seen, cur, left, changes, faults>>

(***************************************************************************)
(* reconcile                                                               *)
(***************************************************************************)
\* The ticker goroutine is started after the first reconcile returned.
Returned(g) ==
    [pc EXCEPT ![g] = "idle",
               !["ticker"] = IF @ = "not started" \/ g = "ticker" THEN "idle" ELSE @]

Fault == faults < MaxFaults /\ faults' = faults + 1

\* An interface whose neighbour has no id is passed over.
Named(list) == {n \in list : n[2] # NoChassis}

AskedForNew(g, answer) ==
    /\ cur' = [cur EXCEPT ![g] = answer]
    /\ left' = [left EXCEPT ![g] = answer \ seen]
    /\ pc' = [pc EXCEPT ![g] = "writing"]
    /\ UNCHANGED <<nbrs, line, cache, seen, changes>>

\* The answer was parsed; every neighbour of it is written again.
AskedFor(g, answer) ==
    /\ cur' = [cur EXCEPT ![g] = answer]
    /\ left' = [left EXCEPT ![g] = answer]
    /\ pc' = [pc EXCEPT ![g] = "writing"]
    /\ UNCHANGED <<nbrs, line, cache, seen, changes>>

Ask(g) ==
    /\ pc[g] = "asking"
    /\ AskedFor(g, Named(nbrs))
    /\ UNCHANGED faults

\* Output that does not parse is an empty list of neighbours.
AskGarbled(g) ==
    /\ pc[g] = "asking"
    /\ Fault
    /\ AskedFor(g, {})

AskFails(g) ==
    /\ pc[g] = "asking"
    /\ Fault
    /\ pc' = Returned(g)
    /\ UNCHANGED <<nbrs, line, cache, seen, cur, left, changes>>

Write(g, n) ==
    /\ pc[g] = "writing" /\ n \in left[g]
    /\ cache' = cache \union {n}
    /\ left' = [left EXCEPT ![g] = @ \ {n}]
    /\ UNCHANGED <<nbrs, line, seen, pc, cur, changes, faults>>

GoneNever(answer) == {}

\* What was seen on an interface the answer does not mention.
Gone(answer) == {n \in seen : \A m \in answer : m[1] # n[1]}

StartDeleting(g) ==
    /\ pc[g] = "writing" /\ left[g] = {}
    /\ left' = [left EXCEPT ![g] = Gone(cur[g])]
    /\ pc' = [pc EXCEPT ![g] = "deleting"]
    /\ UNCHANGED <<nbrs, line, cache, seen, cur, changes, faults>>

Delete(g, n) ==
    /\ pc[g] = "deleting" /\ n \in left[g]
    /\ cache' = cache \ {n}
    /\ left' = [left EXCEPT ![g] = @ \ {n}]
    /\ UNCHANGED <<nbrs, line, seen, pc, cur, changes, faults>>

SeenAccumulated(answer) == seen \union answer
SeenAfter(answer) == answer

Finish(g) ==
    /\ pc[g] = "deleting" /\ left[g] = {}
    /\ seen' = SeenAfter(cur[g])
    /\ pc' = Returned(g)
    /\ cur' = [cur EXCEPT ![g] = {}]
    /\ UNCHANGED <<nbrs, line, cache, left, changes, faults>>

Reconcile(g) ==
    \/ Ask(g) \/ AskGarbled(g) \/ AskFails(g) \/ StartDeleting(g) \/ Finish(g)
    \/ \E n \in left[g] : Write(g, n) \/ Delete(g, n)

(***************************************************************************)
(* The specification                                                       *)
(***************************************************************************)
Next ==
    \/ Change \/ WatchLine \/ Tick
    \/ \E g \in Goroutines : Reconcile(g)

Spec == Init /\ [][Next]_vars

\* Goroutines are scheduled, lldpcli ends and the ticker keeps firing.
FairSpec ==
    /\ Spec
    /\ WF_vars(WatchLine) /\ WF_vars(Tick)
    /\ \A g \in Goroutines : WF_vars(Reconcile(g))

(***************************************************************************)
(* Properties                                                              *)
(***************************************************************************)
Busy(g) == pc[g] \notin {"idle", "not started"}
Quiet == \A g \in Goroutines : ~Busy(g)

\* The two goroutines never reconcile at the same time.
Alone == ~(Busy("watch") /\ Busy("ticker"))

\* No answer has another chassis on an interface than the one seen there.
Unreplaced == \A g \in Goroutines : \A n \in cur[g], m \in seen : n[1] = m[1] => n = m

WellKept == [](Alone /\ Unreplaced)

\* One reconciler at a time and one chassis per interface: between two
\* reconciles seen is exactly what the cache holds, so nothing can be left over.
SeenIsCached == WellKept => [](Quiet => seen = cache)

\* Every neighbour lldpd keeps ends up in the cache and stays, even with both
\* goroutines reconciling into each other and chassis that change.
EventuallyComplete ==
    \A n \in Neighbours : <>[](n \in nbrs) => <>[](n \in cache)

\* "a slow periodic reconcile guarantees convergence" and "reconcile the cache
\* (add/update present, delete gone)": the cache ends up equal to lldpd's list.
Converges == <>[](cache = Named(nbrs))

\* It does as long as the goroutines keep out of each other's way and no
\* chassis is replaced, late watch lines and failed answers notwithstanding.
ConvergesIfAlone == WellKept => Converges
===============================================================================
