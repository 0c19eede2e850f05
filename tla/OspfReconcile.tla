----------------------------- MODULE OspfReconcile -----------------------------
(***************************************************************************)
(* internal/ingest/ospf.go: OSPF neighbours by syslog trigger and vtysh    *)
(* reconcile.  ospfd writes a line to /dev/log for every adjacency change; *)
(* one goroutine drains the socket and signals a one-place trigger         *)
(* channel, one worker waits for the trigger, sleeps, asks vtysh and       *)
(* brings the cache in line.  Kick (from the FPM and BMP listeners) and a  *)
(* ticker use the same trigger.  A reconcile updates the cache neighbour   *)
(* by neighbour: readers of the cache see the states in between.           *)
(*                                                                         *)
(* The neighbour table is kept per adjacency <<rid, iface>>; Wired says    *)
(* which pairs the network can bring up.                                   *)
(***************************************************************************)
EXTENDS Naturals, Sequences

CONSTANTS
    Rids,           \* router ids
    Ifaces,         \* interfaces
    Wired,          \* the adjacencies that can come up
    SockCap,        \* datagrams the kernel queues on /dev/log
    Parallel,       \* a router id can be adjacent on several interfaces at once
    Fallback,       \* the safety-net ticker is on (-ospf-reconcile > 0)
    MaxChanges,     \* bound on adjacency changes
    MaxLost,        \* bound on syslog lines lost before the socket
    MaxFaults,      \* bound on vtysh runs that fail or answer garbage
    Absent,         \* no adjacency, no leaf, no entry
    NoAnswer        \* the reconcile has not read a table

Pairs == Rids \X Ifaces

ASSUME OspfAssumption ==
    /\ Wired \subseteq Pairs
    /\ SockCap \in Nat \ {0}
    /\ Parallel \in BOOLEAN /\ Fallback \in BOOLEAN
    /\ {MaxChanges, MaxLost, MaxFaults} \subseteq Nat

\* vtysh's words for a state, and the OpenConfig enumeration they map to: what
\* follows the slash (the neighbour's DR role) is cut off.
FrrStates == {"Full/DR", "Full/Backup", "Init/DROther"}
AdjStates == {"FULL", "INIT"}
adjState(s) == IF s \in {"Full/DR", "Full/Backup"} THEN "FULL" ELSE "INIT"

NbrTables == [Pairs -> AdjStates \union {Absent}]
Nothing == [p \in Pairs |-> Absent]

ASSUME AbsentAssumption ==
    /\ Absent \notin FrrStates \union AdjStates \union Ifaces
    /\ NoAnswer \notin NbrTables

VARIABLES
    nbr,        \* ospfd's neighbour table
    ospfd,      \* "idle", or "logging": inside syslog()
    sock,       \* the datagrams queued on /dev/log
    bound,      \* "no", "yes" or "failed": runSyslog's bind
    trigger,    \* OSPF.trigger holds a token
    started,    \* the first reconcile is over and the goroutines run
    phase,      \* what the reconciling goroutine is at
    cur,        \* reconcile: the parsed answer of vtysh
    left,       \* reconcile: the neighbours its loops have not come to yet
    cache,      \* the adjacency-state leaves, per adjacency
    seen,       \* OSPF.seen
    st,         \* OSPF.st
    alarms,     \* the neighbours the present reconcile has emitted an event for
    budget,     \* what is left of the bounds
    owed        \* history: a line or a Kick was accepted after the last vtysh run

envVars == <<nbr, ospfd>>
cacheVars == <<cache, seen, st, alarms>>
workVars == <<started, phase, cur, left>>
vars == <<envVars, sock, bound, trigger, workVars, cacheVars, budget, owed>>

Lines == {"ospf", "other"}
Bounds == {"changes", "lost", "faults"}

SyslogTypeOK ==
    /\ nbr \in [Pairs -> FrrStates \union {Absent}]
    /\ ospfd \in {"idle", "logging"}
    /\ sock \in Seq(Lines) /\ Len(sock) <= SockCap
    /\ bound \in {"no", "yes", "failed"}
    /\ budget \in [Bounds -> Nat]

WorkerTypeOK ==
    /\ trigger \in BOOLEAN
    /\ started \in BOOLEAN
    /\ phase \in {"waiting", "debouncing", "asking", "applying"}
    /\ cur \in NbrTables \union {NoAnswer}
    /\ left \in SUBSET Rids
    /\ owed \in BOOLEAN

CacheTypeOK ==
    /\ cache \in NbrTables
    /\ seen \in [Rids -> Ifaces \union {Absent}]
    /\ st \in [Rids -> AdjStates \union {Absent}]
    /\ alarms \in SUBSET Rids

TypeOK == SyslogTypeOK /\ WorkerTypeOK /\ CacheTypeOK

\* Can p come up next to what the table holds?
Free(table, p) ==
    Parallel \/ \A i \in Ifaces \ {p[2]} : table[<<p[1], i>>] = Absent

Init ==
    /\ nbr \in [Pairs -> FrrStates \union {Absent}]
    /\ \A p \in Pairs : nbr[p] # Absent => p \in Wired /\ Free(nbr, p)
    /\ ospfd = "idle"
    /\ sock = <<>>
    /\ bound = "no"
    /\ trigger = FALSE
    /\ started = FALSE
    /\ phase = "asking"
    /\ cur = NoAnswer
    /\ left = {}
    /\ cache = Nothing
    /\ seen = [r \in Rids |-> Absent]
    /\ st = [r \in Rids |-> Absent]
    /\ alarms = {}
    /\ budget = [b \in Bounds |->
                    IF b = "changes" THEN MaxChanges
                    ELSE IF b = "lost" THEN MaxLost ELSE MaxFaults]
    /\ owed = FALSE

Spend(b) == budget[b] > 0 /\ budget' = [budget EXCEPT ![b] = @ - 1]

(***************************************************************************)
(* FRR                                                                     *)
(***************************************************************************)
\* An adjacency changes; ospfd goes on to log it.  It is one thread: it does
\* nothing else until syslog() returns.
Change(p, state) ==
    /\ ospfd = "idle"
    /\ state # nbr[p]
    /\ state # Absent => Free(nbr, p)
    /\ Spend("changes")
    /\ nbr' = [nbr EXCEPT ![p] = state]
    /\ ospfd' = "logging"
    /\ UNCHANGED <<sock, bound, trigger, workVars, cacheVars, owed>>

\* The datagram is delivered; with a full socket syslog() waits.
LogLine ==
    /\ ospfd = "logging" /\ bound = "yes"
    /\ Len(sock) < SockCap
    /\ sock' = Append(sock, "ospf")
    /\ ospfd' = "idle"
    /\ owed' = TRUE
    /\ UNCHANGED <<nbr, bound, trigger, workVars, cacheVars, budget>>

\* Nobody listens on /dev/log: syslog() returns at once.
Unheard ==
    /\ ospfd = "logging" /\ bound # "yes"
    /\ ospfd' = "idle"
    /\ UNCHANGED <<nbr, sock, bound, trigger, workVars, cacheVars, budget, owed>>

\* The line is lost on its way to the socket.
LoseLine ==
    /\ ospfd = "logging" /\ bound = "yes"
    /\ Spend("lost")
    /\ ospfd' = "idle"
    /\ UNCHANGED <<nbr, sock, bound, trigger, workVars, cacheVars, owed>>

\* FRR restarts: its adjacencies are gone and no line says so.
Restart ==
    /\ nbr # Nothing
    /\ Spend("changes")
    /\ nbr' = Nothing
    /\ ospfd' = "idle"
    /\ UNCHANGED <<sock, bound, trigger, workVars, cacheVars, owed>>

\* Some other daemon logs.
OtherLine ==
    /\ bound = "yes"
    /\ Len(sock) < SockCap
    /\ sock' = Append(sock, "other")
    /\ UNCHANGED <<envVars, bound, trigger, workVars, cacheVars, budget, owed>>

(***************************************************************************)
(* The triggers                                                            *)
(***************************************************************************)
Bind ==
    /\ started /\ bound = "no"
    /\ bound' \in {"yes", "failed"}
    /\ UNCHANGED <<envVars, sock, trigger, workVars, cacheVars, budget, owed>>

SignalWaiting(wanted) == (wanted => ~trigger) /\ trigger' = (wanted \/ trigger)
SignalUnbuffered(wanted) == trigger' = ((wanted /\ phase = "waiting") \/ trigger)

\* A non-blocking send on a channel of one place.
Signal(wanted) == trigger' = (wanted \/ trigger)

\* Kick: the FPM or the BMP listener accepted a new connection.
Kick ==
    /\ Signal(TRUE)
    /\ owed' = TRUE
    /\ UNCHANGED <<envVars, sock, bound, workVars, cacheVars, budget>>

\* runSyslog: read one datagram, signal if it is about OSPF.
Drain ==
    /\ sock # <<>>
    /\ sock' = Tail(sock)
    /\ Signal(Head(sock) = "ospf")
    /\ UNCHANGED <<envVars, bound, workVars, cacheVars, budget, owed>>

TickerNeverFires == FALSE

TickerFires ==
    /\ Fallback /\ started
    /\ Signal(TRUE)
    /\ UNCHANGED <<envVars, sock, bound, workVars, cacheVars, budget, owed>>

Wake ==
    /\ phase = "waiting" /\ trigger
    /\ trigger' = FALSE
    /\ phase' = "debouncing"
    /\ UNCHANGED <<envVars, sock, bound, started, cur, left, cacheVars, budget, owed>>

Slept ==
    /\ phase = "debouncing"
    /\ phase' = "asking"
    /\ UNCHANGED <<envVars, sock, bound, trigger, started, cur, left, cacheVars, budget, owed>>

(***************************************************************************)
(* reconcile, the vtysh half                                               *)
(***************************************************************************)
ShownAsIs(state) == state
Shown(state) == IF state = Absent THEN Absent ELSE adjState(state)

\* parseOSPFNbrs keeps the first adjacency of each router id.
Parses(table) ==
    {[p \in Pairs |-> IF first[p[1]] = p[2] THEN Shown(table[p]) ELSE Absent] :
        first \in {f \in [Rids -> Ifaces] :
            \A r \in Rids : (\E i \in Ifaces : table[<<r, i>>] # Absent)
                               => table[<<r, f[r]>>] # Absent}}

IfaceIn(table, r) ==
    IF \E i \in Ifaces : table[<<r, i>>] # Absent
      THEN CHOOSE i \in Ifaces : table[<<r, i>>] # Absent
      ELSE Absent

StateIn(table, r) ==
    IF IfaceIn(table, r) = Absent THEN Absent ELSE table[<<r, IfaceIn(table, r)>>]

Answered(table) ==
    /\ cur' = table
    /\ left' = {r \in Rids : IfaceIn(table, r) # Absent \/ seen[r] # Absent}
    /\ alarms' = {}
    /\ phase' = "applying"
    /\ owed' = FALSE
    /\ UNCHANGED <<envVars, sock, bound, trigger, started, cache, seen, st>>

\* ospfd answers vtysh, so it is not inside syslog().
Ask ==
    /\ phase = "asking" /\ ospfd = "idle"
    /\ \E table \in Parses(nbr) : Answered(table)
    /\ UNCHANGED budget

\* Output that does not parse is an empty table.
AskGarbled ==
    /\ phase = "asking"
    /\ Spend("faults")
    /\ Answered(Nothing)

AskFails ==
    /\ phase = "asking"
    /\ Spend("faults")
    /\ phase' = "waiting"
    /\ started' = TRUE
    /\ owed' = FALSE
    /\ UNCHANGED <<envVars, sock, bound, trigger, cur, left, cacheVars>>

(***************************************************************************)
(* reconcile, the cache half                                               *)
(***************************************************************************)
WrittenIfChanged(r) ==
    IF st[r] # Absent /\ st[r] # StateIn(cur, r)
      THEN [cache EXCEPT ![<<r, IfaceIn(cur, r)>>] = StateIn(cur, r)] ELSE cache

\* The leaf of a neighbour that vtysh shows.
Written(r) == [cache EXCEPT ![<<r, IfaceIn(cur, r)>>] = StateIn(cur, r)]

\* The loop over the answer comes to r, in any order: its leaf is written, a
\* transition of a known neighbour emitted, its state remembered.
Write(r) ==
    /\ cur # NoAnswer /\ r \in left /\ IfaceIn(cur, r) # Absent
    /\ left' = left \ {r}
    /\ cache' = Written(r)
    /\ alarms' = IF st[r] # Absent /\ st[r] # StateIn(cur, r) THEN alarms \union {r} ELSE alarms
    /\ st' = [st EXCEPT ![r] = StateIn(cur, r)]
    /\ UNCHANGED <<envVars, sock, bound, trigger, started, phase, cur, seen, budget, owed>>

Gone(r) == seen[r] # Absent /\ IfaceIn(cur, r) = Absent

DroppedNever(r) == cache
Dropped(r) == [cache EXCEPT ![<<r, seen[r]>>] = Absent]

ForgottenNever(r) == st
Forgotten(r) == [st EXCEPT ![r] = Absent]

\* Then the loop over what was seen before: a neighbour that vtysh no longer
\* shows is deleted where it was, an event emitted, its state forgotten.
Drop(r) ==
    /\ cur # NoAnswer /\ r \in left /\ Gone(r)
    /\ \A q \in left : IfaceIn(cur, q) = Absent
    /\ left' = left \ {r}
    /\ cache' = Dropped(r)
    /\ alarms' = alarms \union {r}
    /\ st' = Forgotten(r)
    /\ UNCHANGED <<envVars, sock, bound, trigger, started, phase, cur, seen, budget, owed>>

\* reconcile returns; the first one lets the goroutines start.
Finish ==
    /\ cur # NoAnswer /\ left = {}
    /\ seen' = [r \in Rids |-> IfaceIn(cur, r)]
    /\ cur' = NoAnswer
    /\ phase' = "waiting"
    /\ started' = TRUE
    /\ UNCHANGED <<envVars, sock, bound, trigger, left, cache, st, alarms, budget, owed>>

Apply == (\E r \in Rids : Write(r) \/ Drop(r)) \/ Finish

(***************************************************************************)
(* The specification                                                       *)
(***************************************************************************)
Frr ==
    \/ \E p \in Wired, state \in FrrStates \union {Absent} : Change(p, state)
    \/ LogLine \/ Unheard \/ LoseLine \/ Restart \/ OtherLine

Shim ==
    \/ Kick \/ Bind \/ Drain \/ TickerFires \/ Wake \/ Slept
    \/ Ask \/ AskGarbled \/ AskFails \/ Apply

Next == Frr \/ Shim

Spec == Init /\ [][Next]_vars

\* The reader of /dev/log keeps reading, and the kernel wakes writers in turn.
SyslogFairness == WF_vars(Drain) /\ SF_vars(LogLine) /\ WF_vars(Unheard)

\* The goroutines are scheduled and vtysh ends.
WorkerFairness ==
    /\ WF_vars(Bind) /\ WF_vars(TickerFires)
    /\ WF_vars(Wake) /\ WF_vars(Slept) /\ WF_vars(Apply)
    /\ SF_vars(Ask)

SyslogSpec == Spec /\ SyslogFairness
FairSpec == SyslogSpec /\ WorkerFairness

(***************************************************************************)
(* Properties                                                              *)
(***************************************************************************)

\* No wakeup is lost between the socket, the one-place trigger and the worker's
\* sleep: after a line or a Kick was accepted, something still leads to vtysh.
WakeupPending ==
    owed => \/ \E i \in DOMAIN sock : sock[i] = "ospf"
            \/ trigger
            \/ phase \in {"debouncing", "asking"}

\* The three records of a reconcile agree when it is over: each neighbour that was
\* seen has one leaf, where it was seen, with the state that is remembered; no
\* other leaf.
BookkeepingAgrees ==
    cur = NoAnswer =>
        \A r \in Rids, i \in Ifaces :
            cache[<<r, i>>] = IF seen[r] = i THEN st[r] ELSE Absent

VisiblyChanges(r) ==
    \E i \in Ifaces : cache[<<r, i>>] # Absent /\ cache'[<<r, i>>] # cache[<<r, i>>]

AlarmsTellChanges == \A r \in Rids : r \in alarms' \ alarms <=> VisiblyChanges(r)

\* An event is emitted for a neighbour exactly when what the cache showed of it
\* changes or goes away.
AlarmIffVisible == [][AlarmsTellChanges]_vars

\* "It must never block on reconcile": a daemon inside syslog() gets out, even
\* if the worker and vtysh never do anything again.
SyslogNeverBlocks == ospfd = "logging" ~> ospfd = "idle"

Agrees == \A p \in Pairs : cache[p] = Shown(nbr[p])

\* "my adjacency state is eventually correct": lost lines, restarts and failed
\* vtysh runs notwithstanding, the cache ends up right, if the goroutines run.
EventuallyCorrect == WorkerFairness => <>[]Agrees

\* The cache is a mirror of the neighbour table: entry by entry it goes from one
\* answer of vtysh to the next, and has gone all the way before vtysh is asked
\* again, so that no entry shows an older state after a newer one.
Table == INSTANCE Mirror WITH
    Keys <- Pairs, Values <- AdjStates, NoSample <- NoAnswer,
    truth <- [p \in Pairs |-> Shown(nbr[p])],
    sample <- cur,
    view <- cache

MirrorsNeighbours == Table!Spec
===============================================================================
