--------------------------- MODULE TraceAggregator ---------------------------
(***************************************************************************)
(* cmd/trace-aggregator: one loop asks every node for its ring of          *)
(* convergence traces, groups what came back by start time, stitches each  *)
(* group into one distributed trace and exports it to Tempo.  A second     *)
(* goroutine fetches the transaction anchors from Loki.                    *)
(*                                                                         *)
(* A node's trace is a model value with a node, a start, the time of its   *)
(* earliest span and the link its root names; the text "node: root" that   *)
(* goes into the id of an export is that model value.  What /dtraces       *)
(* serves is dts from its Publish to the next one.                         *)
(***************************************************************************)
EXTENDS Integers, Sequences, FiniteSets, SequencesExt

CONSTANTS
    Polled,       \* inventory
    Trace,        \* the convergence traces the shims will record
    NodeOf,       \* the node that records a trace
    StartOf,      \* Trace.Start
    EarliestOf,   \* time of its earliest span
    LinkOf,       \* linkKey of its root, or Unknown
    Txn,          \* transactions of the write plane
    CommitOf,     \* txnRec.CommitNs
    OurLab,       \* the transactions that carry labFilter
    LokiOn,       \* lokiTxnURL is set
    Window, TxnWindow, TxnSkew,
    Hold,         \* the 12 s an unattributed trace is held
    Retention,    \* the 30 minutes fetchTxns asks for
    Limit,        \* the 200 records fetchTxns asks for
    MaxTime,      \* the clock stops here
    MaxFailures,  \* bound on lost traces, failed requests and restarts
    Unknown

ASSUME AggregatorAssumption ==
    /\ {Window, TxnWindow, TxnSkew, Hold, Retention, Limit, MaxTime, MaxFailures} \subseteq Nat
    /\ NodeOf \in [Trace -> Polled]
    /\ StartOf \in [Trace -> Nat]
    /\ EarliestOf \in [Trace -> Nat]
    /\ CommitOf \in [Txn -> Nat]
    /\ Unknown \notin Txn

VARIABLES
    now,
    ring,       \* ring[n]: what /traces of node n answers
    recorded,   \* traces that were closed by their node
    loki,       \* anchors Loki holds
    txns,       \* the global txns
    phase,      \* where loop stands: "poll", "match", "push"
    unasked,    \* poll: nodes still to be fetched
    gathered,   \* poll: the traces in all
    dts,        \* the distributed traces of this round
    next,       \* match, push: the one to be handled
    pushed,     \* the global pushed
    accepted,   \* how often Tempo took an id
    lost,       \* how often the answer to such a push was lost
    refused,    \* ids Tempo answered with an error status
    restarts,   \* restarts of the aggregator
    failures

env == <<ring, recorded, loki>>
loop == <<phase, unasked, gathered, dts, next>>
tempo == <<accepted, lost, refused>>
aggVars == <<now, env, txns, loop, pushed, tempo, restarts, failures>>

Count(f, k) == IF k \in DOMAIN f THEN f[k] ELSE 0
Bump(f, k) == [j \in DOMAIN f \cup {k} |-> IF j = k THEN Count(f, k) + 1 ELSE f[j]]

Failure == failures < MaxFailures /\ failures' = failures + 1

----------------------------------------------------------------------------
(* build: the traces in order of their starts (equal starts in any order), *)
(* a new group where a start is beyond the window of the group's first.    *)

ByStart(S) == {q \in SetToSeqs(S) :
                  \A i, j \in DOMAIN q : i < j => StartOf[q[i]] <= StartOf[q[j]]}

Join(groups, t) ==
    IF groups # <<>> /\ StartOf[t] - StartOf[Last(groups)[1]] <= Window
    THEN [groups EXCEPT ![Len(groups)] = Append(@, t)]
    ELSE Append(groups, <<t>>)

Groups(q) ==
    LET Upto[i \in 0 .. Len(q)] == IF i = 0 THEN <<>> ELSE Join(Upto[i - 1], q[i])
    IN  Upto[Len(q)]

(* merge: most votes for a link; which of several is up to the map's order. *)
Votes(g, k) == Cardinality({i \in DOMAIN g : LinkOf[g[i]] = k})

Elected(g) ==
    LET named == {LinkOf[g[i]] : i \in DOMAIN g} \ {Unknown}
    IN  IF named = {} THEN {Unknown}
        ELSE {k \in named : \A j \in named : Votes(g, j) <= Votes(g, k)}

Earliest(g) ==
    CHOOSE m \in {EarliestOf[g[i]] : i \in DOMAIN g} : \A i \in DOMAIN g : m <= EarliestOf[g[i]]

Merged(g) == {[start |-> Earliest(g), link |-> k, roots |-> g, txn |-> Unknown] : k \in Elected(g)}

(* Variant: the attribution is part of the id. *)
IdWithTxn(d) == [start |-> d.start, link |-> d.link, roots |-> d.roots, txn |-> d.txn]

(* The seed of pushZipkin's trace id. *)
Id(d) == [start |-> d.start, link |-> d.link, roots |-> d.roots]

(* matchTxn: the latest commit around the start, of our lab. *)
Governing(s) ==
    LET near == {x \in txns \cap OurLab : s - TxnWindow <= CommitOf[x] /\ CommitOf[x] <= s + TxnSkew}
    IN  IF near = {} THEN {Unknown}
        ELSE {x \in near : \A y \in near : CommitOf[y] <= CommitOf[x]}

(* fetchTxns: Loki answers the oldest Limit records of the range. *)
Fetched ==
    LET recent == {x \in loki : now - CommitOf[x] <= Retention}
    IN  {x \in recent : Cardinality({y \in recent : CommitOf[y] < CommitOf[x]}) < Limit}

Held(d) == LokiOn /\ d.txn = Unknown /\ now - d.start < Hold

----------------------------------------------------------------------------
AggInit ==
    /\ now = 0
    /\ ring = [n \in Polled |-> {}] /\ recorded = {}
    /\ loki = {} /\ txns = {}
    /\ phase = "poll" /\ unasked = Polled /\ gathered = {} /\ dts = <<>> /\ next = 1
    /\ pushed = {}
    /\ accepted = <<>> /\ lost = <<>> /\ refused = {}
    /\ restarts = 0 /\ failures = 0

Tick ==
    /\ now < MaxTime
    /\ now' = now + 1
    /\ UNCHANGED <<env, txns, loop, pushed, tempo, restarts, failures>>

(* A shim closes a trace, at its own time after the trace started. *)
Record(t) ==
    /\ t \notin recorded /\ StartOf[t] <= now
    /\ recorded' = recorded \cup {t}
    /\ ring' = [ring EXCEPT ![NodeOf[t]] = @ \cup {t}]
    /\ UNCHANGED <<now, loki, txns, loop, pushed, tempo, restarts, failures>>

(* It leaves the ring: newer ones came, or the shim restarted. *)
Forget(t) ==
    /\ t \in ring[NodeOf[t]]
    /\ Failure
    /\ ring' = [ring EXCEPT ![NodeOf[t]] = @ \ {t}]
    /\ UNCHANGED <<now, recorded, loki, txns, loop, pushed, tempo, restarts>>

(* An anchor reaches Loki; the clock of the write plane may be ahead. *)
Anchor(x) ==
    /\ x \notin loki /\ CommitOf[x] <= now + TxnSkew
    /\ loki' = loki \cup {x}
    /\ UNCHANGED <<now, ring, recorded, txns, loop, pushed, tempo, restarts, failures>>

(* pollTxns; no answer and an empty one leave the old anchors. *)
PollTxns ==
    /\ LokiOn /\ Fetched # {}
    /\ txns' = Fetched
    /\ UNCHANGED <<now, env, loop, pushed, tempo, restarts, failures>>

----------------------------------------------------------------------------
(* fetch: a node that does not answer, or not JSON, contributes nothing. *)
Ask(n) ==
    /\ phase = "poll" /\ n \in unasked
    /\ unasked' = unasked \ {n}
    /\ \/ gathered' = gathered \cup ring[n] /\ UNCHANGED failures
       \/ Failure /\ UNCHANGED gathered
    /\ UNCHANGED <<now, env, txns, phase, dts, next, pushed, tempo, restarts>>

Build ==
    /\ phase = "poll" /\ unasked = {}
    /\ \E q \in ByStart(gathered) :
          LET groups == Groups(q)
          IN  /\ dts' \in {s \in [DOMAIN groups -> UNION {Merged(groups[i]) : i \in DOMAIN groups}] :
                              \A i \in DOMAIN groups : s[i] \in Merged(groups[i])}
    /\ phase' = "match" /\ next' = 1 /\ gathered' = {}
    /\ UNCHANGED <<now, env, txns, unasked, pushed, tempo, restarts, failures>>

Match ==
    /\ phase = "match" /\ next <= Len(dts)
    /\ \E x \in Governing(dts[next].start) : dts' = [dts EXCEPT ![next].txn = x]
    /\ next' = next + 1
    /\ UNCHANGED <<now, env, txns, phase, unasked, gathered, pushed, tempo, restarts, failures>>

Publish ==
    /\ phase = "match" /\ next > Len(dts)
    /\ phase' = "push" /\ next' = 1
    /\ UNCHANGED <<now, env, txns, unasked, gathered, dts, pushed, tempo, restarts, failures>>

(* pushZipkin, of the distributed trace d. *)
Skip(d) ==
    /\ Id(d) \in pushed \/ Held(d)
    /\ UNCHANGED <<pushed, tempo, failures>>

Due(d) == Id(d) \notin pushed /\ ~Held(d)

(* Variant: an accepted id is not remembered. *)
DeliveredUnmarked(d) ==
    /\ Due(d)
    /\ accepted' = Bump(accepted, Id(d))
    /\ UNCHANGED <<pushed, lost, refused, failures>>

Delivered(d) ==
    /\ Due(d)
    /\ accepted' = Bump(accepted, Id(d))
    /\ pushed' = pushed \cup {Id(d)}
    /\ UNCHANGED <<lost, refused, failures>>

(* Variant: the id is remembered before the answer is known. *)
NotSentMarked(d) ==
    /\ Due(d) /\ Failure
    /\ pushed' = pushed \cup {Id(d)}
    /\ UNCHANGED tempo

NotSent(d) == Due(d) /\ Failure /\ UNCHANGED <<pushed, tempo>>

AnswerLost(d) ==
    /\ Due(d) /\ Failure
    /\ accepted' = Bump(accepted, Id(d))
    /\ lost' = Bump(lost, Id(d))
    /\ UNCHANGED <<pushed, refused>>

(* Only err is looked at: an error status counts as exported. *)
Refused(d) ==
    /\ Due(d) /\ Failure
    /\ refused' = refused \cup {Id(d)}
    /\ pushed' = pushed \cup {Id(d)}
    /\ UNCHANGED <<accepted, lost>>

Push ==
    /\ phase = "push" /\ next <= Len(dts)
    /\ LET d == dts[next] IN Skip(d) \/ Delivered(d) \/ NotSent(d) \/ AnswerLost(d) \/ Refused(d)
    /\ next' = next + 1
    /\ UNCHANGED <<now, env, txns, phase, unasked, gathered, dts, restarts>>

Sleep ==
    /\ phase = "push" /\ next > Len(dts)
    /\ phase' = "poll" /\ unasked' = Polled /\ dts' = <<>> /\ next' = 1
    /\ UNCHANGED <<now, env, txns, gathered, pushed, tempo, restarts, failures>>

(* pushed and txns live in memory only. *)
Restart ==
    /\ Failure
    /\ restarts' = restarts + 1
    /\ pushed' = {} /\ txns' = {}
    /\ phase' = "poll" /\ unasked' = Polled /\ gathered' = {} /\ dts' = <<>> /\ next' = 1
    /\ UNCHANGED <<now, env, tempo>>

Loop == (\E n \in Polled : Ask(n)) \/ Build \/ Match \/ Publish \/ Push \/ Sleep

AggNext ==
    \/ Tick \/ PollTxns \/ Loop \/ Restart
    \/ \E t \in Trace : Record(t) \/ Forget(t)
    \/ \E x \in Txn : Anchor(x)

AggSpec == AggInit /\ [][AggNext]_aggVars

(* The loop never blocks for good: every request has a timeout. *)
LoopFairness == WF_aggVars(Loop) /\ WF_aggVars(Tick)

AggFairSpec == AggSpec /\ LoopFairness

----------------------------------------------------------------------------
(* The state keeps its type; beyond that, nothing is marked as exported     *)
(* (main.go:462) that Tempo has neither taken nor refused.                  *)
Counts(f) == f = [k \in DOMAIN f |-> f[k]] /\ \A k \in DOMAIN f : f[k] \in Nat

TypeOK ==
    /\ now \in 0..MaxTime
    /\ ring \in [Polled -> SUBSET Trace] /\ recorded \subseteq Trace
    /\ \A n \in Polled : ring[n] \subseteq recorded
    /\ txns \subseteq loki /\ loki \subseteq Txn
    /\ phase \in {"poll", "match", "push"}
    /\ unasked \subseteq Polled /\ gathered \subseteq recorded
    /\ next \in Nat
    /\ Counts(accepted) /\ Counts(lost)
    /\ DOMAIN lost \subseteq DOMAIN accepted
    /\ pushed \subseteq DOMAIN accepted \cup refused
    /\ failures \in 0..MaxFailures /\ restarts \in 0..failures

(* "Exactly once per trace_id" (main.go:409): over repeated polls and       *)
(* retries Tempo takes an id twice only if an answer was lost in between,   *)
(* or the memory of the aggregator.                                         *)
OncePerId ==
    \A k \in DOMAIN accepted : accepted[k] <= 1 + Count(lost, k) + restarts

(* The id belongs to the stitched traces and to nothing else of the poll:   *)
(* whenever the same traces are put together again, after other answers,    *)
(* attributions or restarts, they get the id they had.  The order of roots  *)
(* and the link are in the id, so the starts must differ and one link win;  *)
(* and a group that a late answer changed is exported again (main.go:414).  *)
Decided(g) ==
    /\ \A j, k \in Elected(g) : j = k
    /\ \A i, j \in DOMAIN g : StartOf[g[i]] = StartOf[g[j]] => i = j

SameGroupSameId ==
    \A a, b \in DOMAIN accepted :
        ToSet(a.roots) = ToSet(b.roots) /\ Decided(a.roots) => a = b

(* Nothing falls between grouping, hold and retries: when no more traces    *)
(* come, all that the rings still hold has been exported in the end, unless *)
(* Tempo refuses something.                                                 *)
Exported(t) == \E k \in DOMAIN accepted : t \in ToSet(k.roots)

SettledIsExported ==
    <>[](\A t \in Trace : t \in ring[NodeOf[t]] => Exported(t) \/ refused # {})

============================================================================
