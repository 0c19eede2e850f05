------------------------------ MODULE Correlator ------------------------------
(***************************************************************************)
(* internal/correlate: ingester goroutines Emit events into a bounded      *)
(* channel; one goroutine folds them into traces and keeps the latest      *)
(* traces in a ring that the HTTP handler copies.                          *)
(*                                                                         *)
(* An event is its root flag and its time stamp, with a serial number it   *)
(* gets when it enters the channel (bus, kind, key and detail are carried  *)
(* along by the code and never looked at).  Clock, Horizon and MaxEvents   *)
(* bound the runs.                                                         *)
(***************************************************************************)
EXTENDS Integers, Sequences

CONSTANTS
    Emitters,   \* the goroutines that call Emit
    Cap,        \* capacity of Correlator.ch
    Window,     \* Correlator.window
    Idle,       \* Correlator.idle
    Warmup,     \* Correlator.warmup
    MinChurn,   \* events a churn trace needs to be kept
    MaxTraces,  \* Correlator.max
    Horizon,    \* no event is stamped after this time
    MaxTime,    \* the clock saturates here
    MaxEvents,  \* bound on the number of Emit calls
    None        \* no value: an idle emitter, an empty ticker, no active trace

ASSUME CorrelatorAssumption ==
    /\ {Cap, MaxTraces} \subseteq Nat \ {0}
    /\ {Window, Idle, Warmup, MinChurn, Horizon, MaxTime, MaxEvents} \subseteq Nat

VARIABLES
    clock,
    calls,      \* Emit calls made
    stamped,    \* stamped[e]: the event emitter e built and has not sent yet
    ch,         \* Correlator.ch
    accepted,   \* events that entered the channel
    tick,       \* the one-place channel of the 250 ms ticker
    active,     \* the trace being folded
    ring,       \* Correlator.ring
    seq         \* Correlator.seq

emitVars == <<calls, stamped>>
foldVars == <<active, ring, seq>>
vars == <<clock, emitVars, ch, accepted, tick, foldVars>>

Time == 0 .. MaxTime
Event == [id : Nat, root : BOOLEAN, ts : Time]
Draft == [root : BOOLEAN, ts : Time]
Acc == [start : Time, last : Time, churn : BOOLEAN, events : Seq(Event)]
Trace == [id : Nat, churn : BOOLEAN, start : Time, span : Int, events : Seq(Event)]

TypeOK ==
    /\ clock \in Time
    /\ calls \in 0 .. MaxEvents
    /\ stamped \in [Emitters -> Draft \union {None}]
    /\ ch \in Seq(Event) /\ Len(ch) <= Cap
    /\ accepted \in Nat
    /\ tick \in Time \union {None}
    /\ active \in Acc \union {None}
    /\ ring \in Seq(Trace)
    /\ seq \in Nat

Init ==
    /\ clock = 0
    /\ calls = 0
    /\ stamped = [e \in Emitters |-> None]
    /\ ch = <<>>
    /\ accepted = 0
    /\ tick = None
    /\ active = None
    /\ ring = <<>>
    /\ seq = 0

(***************************************************************************)
(* Emit: the time stamp is taken, then the channel send is tried.  Another *)
(* emitter may run in between.                                             *)
(***************************************************************************)
Stamp(e, root) ==
    /\ calls < MaxEvents /\ clock <= Horizon
    /\ stamped[e] = None
    /\ calls' = calls + 1
    /\ stamped' = [stamped EXCEPT ![e] = [root |-> root, ts |-> clock]]
    /\ UNCHANGED <<clock, ch, accepted, tick, foldVars>>

Numbered(draft, id) == [id |-> id, root |-> draft.root, ts |-> draft.ts]

SendWhenFull(e) ==
    /\ stamped[e] # None
    /\ accepted' = accepted + 1
    /\ ch' = Append(ch, Numbered(stamped[e], accepted'))
    /\ stamped' = [stamped EXCEPT ![e] = None]
    /\ UNCHANGED <<clock, calls, tick, foldVars>>

Send(e) ==
    /\ stamped[e] # None
    /\ Len(ch) < Cap
    /\ accepted' = accepted + 1
    /\ ch' = Append(ch, Numbered(stamped[e], accepted'))
    /\ stamped' = [stamped EXCEPT ![e] = None]
    /\ UNCHANGED <<clock, calls, tick, foldVars>>

DropBlocking(e) == FALSE

\* The select's default case: the buffer is full, the event is lost.
Drop(e) ==
    /\ stamped[e] # None
    /\ Len(ch) = Cap
    /\ stamped' = [stamped EXCEPT ![e] = None]
    /\ UNCHANGED <<clock, calls, ch, accepted, tick, foldVars>>

(***************************************************************************)
(* flush                                                                   *)
(***************************************************************************)
KeptAnyChurn(a) == TRUE

\* A lone route change is not a convergence event.
Kept(a) == ~(a.churn /\ Len(a.events) < MinChurn)

TraceOf(a, id) ==
    [id |-> id, churn |-> a.churn, start |-> a.start, span |-> a.last - a.start,
     events |-> a.events]

TrimmedOldest(traces) ==
    IF Len(traces) > MaxTraces THEN SubSeq(traces, 1, MaxTraces) ELSE traces

\* The ring keeps the newest MaxTraces traces.
Trimmed(traces) ==
    IF Len(traces) > MaxTraces
      THEN SubSeq(traces, Len(traces) - MaxTraces + 1, Len(traces))
      ELSE traces

Flush(a) ==
    IF Kept(a)
      THEN /\ seq' = seq + 1
           /\ ring' = Trimmed(Append(ring, TraceOf(a, seq')))
      ELSE UNCHANGED <<seq, ring>>

(***************************************************************************)
(* Run: one iteration takes an event or a tick                             *)
(***************************************************************************)
Opened(e) == [start |-> e.ts, last |-> e.ts, churn |-> ~e.root, events |-> <<e>>]

\* The event that joins sets the trace's latest time, even to an earlier one.
Joined(a, e) == [a EXCEPT !.last = e.ts, !.events = Append(@, e)]

TooLate(a, e) == e.ts - a.last > Window

\* What an event does when no trace is active: nothing during warm-up if it is
\* a follow-up, else it opens a trace.
OpenOrIgnore(e) ==
    IF ~e.root /\ clock < Warmup THEN None ELSE Opened(e)

AfterTickKeeping(a) == a
AfterTick(a) == None

TakeEvent ==
    /\ ch # <<>>
    /\ LET e == Head(ch)
       IN  \/ /\ active = None
              /\ active' = OpenOrIgnore(e)
              /\ UNCHANGED <<ring, seq>>
           \/ /\ active # None /\ TooLate(active, e)
              /\ Flush(active)
              /\ active' = OpenOrIgnore(e)
           \/ /\ active # None /\ ~TooLate(active, e)
              /\ active' = Joined(active, e)
              /\ UNCHANGED <<ring, seq>>
    /\ ch' = Tail(ch)
    /\ UNCHANGED <<clock, emitVars, accepted, tick>>

QuietNever(a, now) == FALSE
Quiet(a, now) == now - a.last > Idle

TakeTick ==
    /\ tick # None
    /\ IF active # None /\ Quiet(active, tick)
         THEN Flush(active) /\ active' = AfterTick(active)
         ELSE UNCHANGED foldVars
    /\ tick' = None
    /\ UNCHANGED <<clock, emitVars, ch, accepted>>

(***************************************************************************)
(* Time                                                                    *)
(***************************************************************************)
Advance ==
    /\ clock < MaxTime
    /\ clock' = clock + 1
    /\ UNCHANGED <<emitVars, ch, accepted, tick, foldVars>>

\* A Go ticker drops its tick when the last one has not been taken.
TickerFires ==
    /\ tick = None
    /\ tick' = clock
    /\ UNCHANGED <<clock, emitVars, ch, accepted, foldVars>>

Next ==
    \/ \E e \in Emitters, root \in BOOLEAN : Stamp(e, root)
    \/ \E e \in Emitters : Send(e) \/ Drop(e)
    \/ TakeEvent
    \/ TakeTick
    \/ Advance
    \/ TickerFires

Spec == Init /\ [][Next]_vars

\* An emitter that has stamped its event goes on to its select: nothing is
\* assumed of the folding goroutine.
EmitterFairness == \A e \in Emitters : WF_vars(Send(e) \/ Drop(e))

\* Go's select takes a ready case at random, so neither is passed over for ever.
RunFairness ==
    WF_vars(TakeEvent) /\ WF_vars(TakeTick) /\ WF_vars(Advance) /\ WF_vars(TickerFires)

EmitterSpec == Spec /\ EmitterFairness

(***************************************************************************)
(* Properties                                                              *)
(***************************************************************************)
ActiveEvents == IF active = None THEN <<>> ELSE active.events

\* Everything Emit accepted and the correlator still has, oldest first.
Blocks == [i \in DOMAIN ring |-> ring[i].events] \o <<ActiveEvents, ch>>

\* Whatever Emit accepted is folded in the order of the channel and at most
\* once: the events of the ring, then of the active trace, then of the channel
\* have increasing numbers (flush does not leave its events in the next trace).
FoldedOnceInOrder ==
    \A i, j \in DOMAIN Blocks :
        \A k \in DOMAIN Blocks[i], l \in DOMAIN Blocks[j] :
            i < j \/ (i = j /\ k < l) => Blocks[i][k].id < Blocks[j][l].id

\* The ring is the latest traces and nothing else: consecutive numbers that end
\* at seq, never more than max (a scraper that sees seq jump knows how many
\* traces it missed).
RingIsLatest ==
    /\ Len(ring) = IF seq > MaxTraces THEN MaxTraces ELSE seq
    /\ \A i \in DOMAIN ring : ring[i].id = seq - Len(ring) + i

\* A trace is a root with what followed it, or a burst of MinChurn follow-ups;
\* no event of it came more than Window after the one before it.
TracesCohere ==
    \A i \in DOMAIN ring :
        LET t == ring[i]
        IN  /\ IF t.churn THEN Len(t.events) >= MinChurn /\ ~t.events[1].root
                          ELSE Len(t.events) >= 1 /\ t.events[1].root
            /\ \A j \in 1 .. Len(t.events) - 1 :
                 t.events[j + 1].ts - t.events[j].ts <= Window

\* Emit never blocks its caller, even if the folding goroutine is stuck.
EmitNeverBlocks == \A e \in Emitters : stamped[e] # None ~> stamped[e] = None

\* Once the network is quiet the active trace is closed, if the folding
\* goroutine runs.
ActiveIsClosed == RunFairness => (active # None ~> active = None)
===============================================================================
