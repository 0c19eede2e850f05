-------------------------- MODULE CorrelatorProofs --------------------------
(***************************************************************************)
(* Theorems about the correlator, for any number of emitters, any sizes of *)
(* the queue and the ring, and any times.                                  *)
(***************************************************************************)
EXTENDS Correlator, SequenceTheorems, TLAPS

LEMMA AppendFacts ==
    ASSUME NEW S, NEW s \in Seq(S), NEW x \in S
    PROVE  /\ Append(s, x) \in Seq(S)
           /\ Len(Append(s, x)) = Len(s) + 1
           /\ DOMAIN Append(s, x) = 1 .. Len(s) + 1
           /\ Append(s, x)[Len(s) + 1] = x
           /\ \A i \in 1 .. Len(s) : Append(s, x)[i] = s[i]
OBVIOUS

LEMMA TailFacts ==
    ASSUME NEW S, NEW s \in Seq(S), s # <<>>
    PROVE  /\ Tail(s) \in Seq(S) /\ Head(s) \in S /\ Head(s) = s[1]
           /\ Len(s) \in Nat \ {0} /\ Len(Tail(s)) = Len(s) - 1
           /\ \A i \in 1 .. Len(Tail(s)) : Tail(s)[i] = s[i + 1]
OBVIOUS

(* The trimmed ring is the end of the untrimmed one. *)
LEMMA TrimmedFacts ==
    ASSUME NEW S, NEW s \in Seq(S)
    PROVE  /\ Trimmed(s) \in Seq(S)
           /\ Len(Trimmed(s)) = IF Len(s) > MaxTraces THEN MaxTraces ELSE Len(s)
           /\ \A i \in 1 .. Len(Trimmed(s)) :
                 /\ i + (Len(s) - Len(Trimmed(s))) \in 1 .. Len(s)
                 /\ Trimmed(s)[i] = s[i + (Len(s) - Len(Trimmed(s)))]
<1>1. MaxTraces \in Nat \ {0} /\ Len(s) \in Nat
  BY CorrelatorAssumption
<1>2. CASE Len(s) > MaxTraces
  <2> DEFINE m == Len(s) - MaxTraces + 1
  <2>1. m \in 1 .. Len(s) + 1
    BY <1>1, <1>2
  <2>2. Trimmed(s) = SubSeq(s, m, Len(s))
    BY <1>2 DEF Trimmed
  <2>3. /\ SubSeq(s, m, Len(s)) \in Seq(S)
        /\ Len(SubSeq(s, m, Len(s))) = Len(s) - m + 1
        /\ \A i \in 1 .. Len(s) - m + 1 : SubSeq(s, m, Len(s))[i] = s[m + i - 1]
    <3> HIDE DEF m
    <3> QED BY <2>1, <1>1
  <2>4. Len(s) - m + 1 = MaxTraces
    BY <1>1
  <2>5. ASSUME NEW i \in 1 .. MaxTraces
        PROVE  m + i - 1 = i + (Len(s) - MaxTraces) /\ m + i - 1 \in 1 .. Len(s)
    BY <1>1, <1>2
  <2> QED BY <1>1, <1>2, <2>2, <2>3, <2>4, <2>5
<1>3. CASE ~(Len(s) > MaxTraces)
  BY <1>1, <1>3 DEF Trimmed
<1> QED BY <1>2, <1>3

(* What flush does to the ring, in one place. *)
LEMMA FlushFacts ==
    ASSUME TypeOK, NEW a \in Acc, Flush(a)
    PROVE  \/ UNCHANGED <<ring, seq>>
           \/ /\ Kept(a) /\ seq' = seq + 1
              /\ TraceOf(a, seq + 1) \in Trace
              /\ ring' = Trimmed(Append(ring, TraceOf(a, seq + 1)))
              /\ ring' \in Seq(Trace)
              /\ Len(ring') = IF Len(ring) + 1 > MaxTraces THEN MaxTraces ELSE Len(ring) + 1
              /\ \A i \in 1 .. Len(ring') :
                    LET j == i + (Len(ring) + 1 - Len(ring'))
                    IN  /\ j \in 1 .. Len(ring) + 1
                        /\ ring'[i] = IF j = Len(ring) + 1 THEN TraceOf(a, seq + 1) ELSE ring[j]
<1>1. CASE ~Kept(a)
  BY <1>1 DEF Flush
<1>2. CASE Kept(a)
  <2>1. seq' = seq + 1 /\ ring' = Trimmed(Append(ring, TraceOf(a, seq + 1)))
    BY <1>2 DEF Flush
  <2>2. TraceOf(a, seq + 1) \in Trace /\ ring \in Seq(Trace)
    BY CorrelatorAssumption DEF TypeOK, TraceOf, Trace, Acc, Time
  <2> DEFINE t == TraceOf(a, seq + 1)
             long == Append(ring, t)
  <2> HIDE DEF t
  <2>3. t \in Trace
    BY <2>2 DEF t
  <2>4. /\ long \in Seq(Trace) /\ Len(long) = Len(ring) + 1
        /\ long[Len(ring) + 1] = t
        /\ \A i \in 1 .. Len(ring) : long[i] = ring[i]
    BY <2>2, <2>3, AppendFacts
  <2> HIDE DEF long
  <2>5. /\ Trimmed(long) \in Seq(Trace)
        /\ Len(Trimmed(long)) = IF Len(long) > MaxTraces THEN MaxTraces ELSE Len(long)
        /\ \A i \in 1 .. Len(Trimmed(long)) :
              /\ i + (Len(long) - Len(Trimmed(long))) \in 1 .. Len(long)
              /\ Trimmed(long)[i] = long[i + (Len(long) - Len(Trimmed(long)))]
    BY <2>4, TrimmedFacts
  <2>6. ring' = Trimmed(long)
    BY <2>1 DEF long, t
  <2>7. Len(ring) \in Nat
    BY <2>2
  <2>8. ASSUME NEW i \in 1 .. Len(ring')
        PROVE  LET j == i + (Len(ring) + 1 - Len(ring'))
               IN  /\ j \in 1 .. Len(ring) + 1
                   /\ ring'[i] = IF j = Len(ring) + 1 THEN t ELSE ring[j]
    <3> DEFINE j == i + (Len(ring) + 1 - Len(ring'))
    <3>1. j = i + (Len(long) - Len(Trimmed(long)))
      BY <2>4, <2>6
    <3> HIDE DEF j
    <3>2. j \in 1 .. Len(ring) + 1 /\ ring'[i] = long[j]
      BY <2>4, <2>5, <2>6, <3>1
    <3>3. ring'[i] = IF j = Len(ring) + 1 THEN t ELSE ring[j]
      <4>1. CASE j = Len(ring) + 1
        BY <4>1, <3>2, <2>4
      <4>2. CASE j # Len(ring) + 1
        BY <4>2, <3>2, <2>4, <2>7
      <4> QED BY <4>1, <4>2
    <3> QED BY <3>2, <3>3 DEF j
  <2> QED BY <1>2, <2>1, <2>2, <2>4, <2>5, <2>6, <2>8 DEF t
<1> QED BY <1>1, <1>2

LEMMA OpenTypes ==
    ASSUME TypeOK, NEW e \in Event
    PROVE  OpenOrIgnore(e) \in Acc \union {None}
<1>1. <<e>> \in Seq(Event)
  OBVIOUS
<1> QED BY <1>1 DEF OpenOrIgnore, Opened, Acc, Event

LEMMA JoinTypes ==
    ASSUME TypeOK, NEW a \in Acc, NEW e \in Event
    PROVE  Joined(a, e) \in Acc
<1>1. Append(a.events, e) \in Seq(Event)
  BY AppendFacts DEF Acc
<1> QED BY <1>1 DEF Joined, Acc, Event

(* An event enters the channel behind the ones before it. *)
LEMMA SendTypes ==
    ASSUME TypeOK, NEW e \in Emitters, Send(e)
    PROVE  /\ ch' = Append(ch, Numbered(stamped[e], accepted + 1))
           /\ Numbered(stamped[e], accepted + 1) \in Event
           /\ ch' \in Seq(Event) /\ Len(ch') = Len(ch) + 1 /\ Len(ch') <= Cap
           /\ accepted' = accepted + 1
<1>1. ch' = Append(ch, Numbered(stamped[e], accepted + 1)) /\ accepted' = accepted + 1
  BY DEF Send
<1>2. Numbered(stamped[e], accepted + 1) \in Event
  BY DEF Send, TypeOK, Numbered, Draft, Event
<1>3. ch \in Seq(Event) /\ Len(ch) \in Nat /\ Len(ch) < Cap /\ Cap \in Nat
  BY CorrelatorAssumption DEF TypeOK, Send
<1> HIDE DEF Numbered
<1>4. ch' \in Seq(Event) /\ Len(ch') = Len(ch) + 1
  BY <1>1, <1>2, <1>3, AppendFacts
<1> QED BY <1>1, <1>2, <1>3, <1>4

(* The three ways an event is folded, with what is known of each. *)
LEMMA TakeEventCases ==
    ASSUME TypeOK, TakeEvent
    PROVE  /\ ch \in Seq(Event) /\ Len(ch) \in Nat \ {0} /\ Head(ch) = ch[1] /\ ch[1] \in Event
           /\ ch' \in Seq(Event) /\ Len(ch') = Len(ch) - 1
           /\ \A i \in 1 .. Len(ch') : ch'[i] = ch[i + 1]
           /\ accepted' = accepted
           /\ \/ active = None /\ active' = OpenOrIgnore(ch[1]) /\ UNCHANGED <<ring, seq>>
              \/ active \in Acc /\ active # None /\ Flush(active) /\ active' = OpenOrIgnore(ch[1])
              \/ /\ active \in Acc /\ active # None /\ ~TooLate(active, ch[1])
                 /\ active' = Joined(active, ch[1]) /\ UNCHANGED <<ring, seq>>
<1>1. /\ ch \in Seq(Event) /\ ch # <<>> /\ ch' = Tail(ch) /\ accepted' = accepted
      /\ active \in Acc \union {None}
  BY DEF TypeOK, TakeEvent
<1>2. /\ Len(ch) \in Nat \ {0} /\ Head(ch) = ch[1] /\ ch[1] \in Event
      /\ ch' \in Seq(Event) /\ Len(ch') = Len(ch) - 1
      /\ \A i \in 1 .. Len(ch') : ch'[i] = ch[i + 1]
  BY <1>1, TailFacts
<1> QED BY <1>1, <1>2, Zenon DEF TakeEvent

LEMMA TakeTickCases ==
    ASSUME TypeOK, TakeTick
    PROVE  /\ ch' = ch /\ accepted' = accepted
           /\ \/ UNCHANGED foldVars
              \/ active \in Acc /\ active # None /\ Flush(active) /\ active' = None
BY DEF TakeTick, TypeOK, AfterTick

LEMMA FlushTypes ==
    ASSUME TypeOK, NEW a \in Acc, Flush(a)
    PROVE  ring' \in Seq(Trace) /\ seq' \in Nat
<1>1. ring \in Seq(Trace) /\ seq \in Nat
  BY DEF TypeOK
<1> QED BY <1>1, FlushFacts

(* The state keeps its type, in every behaviour: the channel never holds   *)
(* more than it can.                                                       *)
THEOREM TypeCorrect == Spec => []TypeOK
<1>1. Init => TypeOK
  <2>1. 0 \in Time /\ <<>> \in Seq(Event) /\ <<>> \in Seq(Trace) /\ Len(<<>>) <= Cap /\ 0 \in 0 .. MaxEvents
    BY CorrelatorAssumption DEF Time
  <2> QED BY <2>1 DEF Init, TypeOK
<1>2. TypeOK /\ [Next]_vars => TypeOK'
  <2> SUFFICES ASSUME TypeOK, [Next]_vars PROVE TypeOK'
    OBVIOUS
  <2>1. ASSUME NEW e \in Emitters, NEW root \in BOOLEAN, Stamp(e, root) PROVE TypeOK'
    <3>1. calls' \in 0 .. MaxEvents
      BY <2>1, CorrelatorAssumption DEF Stamp, TypeOK
    <3>2. stamped' \in [Emitters -> Draft \union {None}]
      BY <2>1 DEF Stamp, TypeOK, Draft
    <3> QED BY <2>1, <3>1, <3>2 DEF Stamp, TypeOK, foldVars
  <2>2. ASSUME NEW e \in Emitters, Send(e) PROVE TypeOK'
    <3>1. stamped' \in [Emitters -> Draft \union {None}]
      BY <2>2 DEF Send, TypeOK
    <3>2. ch' \in Seq(Event) /\ Len(ch') <= Cap /\ accepted' \in Nat
      <4>1. accepted \in Nat
        BY DEF TypeOK
      <4> QED BY <2>2, <4>1, SendTypes
    <3>3. UNCHANGED <<clock, calls, tick, active, ring, seq>>
      BY <2>2 DEF Send, foldVars
    <3> QED BY <3>1, <3>2, <3>3 DEF TypeOK
  <2>3. ASSUME NEW e \in Emitters, Drop(e) PROVE TypeOK'
    BY <2>3 DEF Drop, TypeOK, foldVars
  <2>4. CASE TakeEvent
    <3>1. ch' \in Seq(Event) /\ Len(ch') <= Cap /\ accepted' \in Nat
      <4>1. accepted \in Nat /\ Len(ch) <= Cap /\ Cap \in Nat
        BY CorrelatorAssumption DEF TypeOK
      <4> QED BY <2>4, <4>1, TakeEventCases
    <3>2. active' \in Acc \union {None}
      BY <2>4, TakeEventCases, OpenTypes, JoinTypes
    <3>3. ring' \in Seq(Trace) /\ seq' \in Nat
      <4>1. ring \in Seq(Trace) /\ seq \in Nat
        BY DEF TypeOK
      <4> QED BY <2>4, <4>1, TakeEventCases, FlushTypes
    <3>4. UNCHANGED <<clock, calls, stamped, tick>>
      BY <2>4 DEF TakeEvent, emitVars
    <3> QED BY <3>1, <3>2, <3>3, <3>4 DEF TypeOK
  <2>5. CASE TakeTick
    <3>1. active' \in Acc \union {None} /\ ring' \in Seq(Trace) /\ seq' \in Nat
      <4>1. ring \in Seq(Trace) /\ seq \in Nat /\ active \in Acc \union {None}
        BY DEF TypeOK
      <4> QED BY <2>5, <4>1, TakeTickCases, FlushTypes DEF foldVars
    <3>2. UNCHANGED <<clock, calls, stamped, ch, accepted>> /\ tick' = None
      BY <2>5 DEF TakeTick, emitVars
    <3> QED BY <3>1, <3>2 DEF TypeOK
  <2>6. CASE Advance
    BY <2>6, CorrelatorAssumption DEF Advance, TypeOK, Time, emitVars, foldVars
  <2>7. CASE TickerFires
    BY <2>7 DEF TickerFires, TypeOK, emitVars, foldVars
  <2>8. CASE UNCHANGED vars
    BY <2>8 DEF vars, emitVars, foldVars, TypeOK
  <2> QED BY <2>1, <2>2, <2>3, <2>4, <2>5, <2>6, <2>7, <2>8 DEF Next
<1> QED BY <1>1, <1>2, PTL DEF Spec

----------------------------------------------------------------------------
(* Only a fold touches the ring and the active trace. *)
LEMMA OnlyFolds ==
    ASSUME TypeOK, [Next]_vars
    PROVE  TakeEvent \/ TakeTick \/ UNCHANGED foldVars
BY DEF Next, vars, foldVars, Stamp, Send, Drop, Advance, TickerFires

LEMMA FlushIsLatest ==
    ASSUME TypeOK, RingIsLatest, NEW a \in Acc, Flush(a)
    PROVE  RingIsLatest'
<1>0. /\ ring \in Seq(Trace) /\ Len(ring) \in Nat /\ DOMAIN ring = 1 .. Len(ring)
      /\ seq \in Nat /\ MaxTraces \in Nat \ {0}
  BY CorrelatorAssumption DEF TypeOK
<1>1. CASE UNCHANGED <<ring, seq>>
  BY <1>1 DEF RingIsLatest
<1>2. CASE ~ UNCHANGED <<ring, seq>>
  <2>1. /\ seq' = seq + 1
        /\ ring' \in Seq(Trace)
        /\ Len(ring') = IF Len(ring) + 1 > MaxTraces THEN MaxTraces ELSE Len(ring) + 1
        /\ \A i \in 1 .. Len(ring') :
              LET j == i + (Len(ring) + 1 - Len(ring'))
              IN  /\ j \in 1 .. Len(ring) + 1
                  /\ ring'[i] = IF j = Len(ring) + 1 THEN TraceOf(a, seq + 1) ELSE ring[j]
    BY <1>2, FlushFacts
  <2>2. Len(ring') = IF seq' > MaxTraces THEN MaxTraces ELSE seq'
    BY <1>0, <2>1 DEF RingIsLatest
  <2>3. ASSUME NEW i \in DOMAIN ring' PROVE ring'[i].id = seq' - Len(ring') + i
    <3> DEFINE j == i + (Len(ring) + 1 - Len(ring'))
    <3>0. seq' = seq + 1
      BY <2>1
    <3>1. i \in 1 .. Len(ring') /\ Len(ring') \in Nat
      BY <2>1, <2>3
    <3>2. /\ j \in 1 .. Len(ring) + 1
          /\ ring'[i] = IF j = Len(ring) + 1 THEN TraceOf(a, seq + 1) ELSE ring[j]
      BY <2>1, <3>1
    <3>3. j = i + (Len(ring) + 1 - Len(ring'))
      OBVIOUS
    <3> HIDE DEF j
    <3>4. CASE j = Len(ring) + 1
      <4>1. ring'[i] = TraceOf(a, seq + 1)
        BY <3>2, <3>4
      <4>2. ring'[i].id = seq + 1
        BY <4>1 DEF TraceOf
      <4>3. i = Len(ring')
        BY <1>0, <3>1, <3>3, <3>4
      <4> QED BY <1>0, <3>0, <3>1, <4>2, <4>3
    <3>5. CASE j # Len(ring) + 1
      <4>1. j \in DOMAIN ring /\ ring'[i] = ring[j]
        <5>1. j \in 1 .. Len(ring) + 1
          BY <3>2
        <5>2. ring'[i] = ring[j]
          BY <3>2, <3>5
        <5> QED BY <1>0, <3>5, <5>1, <5>2
      <4>2. ring[j].id = seq - Len(ring) + j
        BY <4>1 DEF RingIsLatest
      <4>3. Len(ring) \in Int /\ Len(ring') \in Int /\ i \in Int /\ seq \in Int
        BY <1>0, <3>1
      <4> QED BY <3>0, <3>3, <4>1, <4>2, <4>3
    <3> QED BY <3>4, <3>5
  <2> QED BY <2>2, <2>3 DEF RingIsLatest
<1> QED BY <1>1, <1>2

(* The ring is the latest traces, numbered without a gap up to seq.        *)
THEOREM RingCorrect == Spec => []RingIsLatest
<1>1. Init => RingIsLatest
  BY CorrelatorAssumption DEF Init, RingIsLatest
<1>2. TypeOK /\ RingIsLatest /\ [Next]_vars => RingIsLatest'
  <2> SUFFICES ASSUME TypeOK, RingIsLatest, [Next]_vars PROVE RingIsLatest'
    OBVIOUS
  <2>1. CASE UNCHANGED <<ring, seq>>
    BY <2>1 DEF RingIsLatest
  <2>2. ASSUME active \in Acc, Flush(active) PROVE RingIsLatest'
    BY <2>2, FlushIsLatest
  <2>3. UNCHANGED foldVars => UNCHANGED <<ring, seq>>
    BY DEF foldVars
  <2> QED BY <2>1, <2>2, <2>3, OnlyFolds, TakeEventCases, TakeTickCases
<1> QED BY <1>1, <1>2, TypeCorrect, PTL DEF Spec

----------------------------------------------------------------------------
(* TracesCohere speaks of closed traces; the trace being folded must be    *)
(* coherent already: it opens with the event that decides churn, and last  *)
(* is the time of its last event.                                          *)
Coheres(a) ==
    /\ Len(a.events) >= 1
    /\ a.churn = ~a.events[1].root
    /\ a.last = a.events[Len(a.events)].ts
    /\ \A j \in 1 .. Len(a.events) - 1 : a.events[j + 1].ts - a.events[j].ts <= Window

ActiveCoheres == active # None => Coheres(active)

\* TracesCohere of one trace.
TraceCoheres(t) ==
    /\ IF t.churn THEN Len(t.events) >= MinChurn /\ ~t.events[1].root
                  ELSE Len(t.events) >= 1 /\ t.events[1].root
    /\ \A j \in 1 .. Len(t.events) - 1 : t.events[j + 1].ts - t.events[j].ts <= Window

LEMMA OpenCoheres ==
    ASSUME NEW e \in Event, OpenOrIgnore(e) # None
    PROVE  Coheres(OpenOrIgnore(e))
<1>1. OpenOrIgnore(e) = Opened(e)
  BY DEF OpenOrIgnore
<1>2. Len(<<e>>) = 1 /\ <<e>>[1] = e
  OBVIOUS
<1> QED BY <1>1, <1>2 DEF Opened, Coheres, Event

LEMMA JoinCoheres ==
    ASSUME NEW a \in Acc, NEW e \in Event, Coheres(a), ~TooLate(a, e)
    PROVE  Coheres(Joined(a, e))
<1> DEFINE b == Joined(a, e)
<1>1. a.events \in Seq(Event) /\ Len(a.events) \in Nat
  BY DEF Acc
<1>2. /\ b.events = Append(a.events, e) /\ b.last = e.ts /\ b.churn = a.churn
  BY DEF Joined, Acc
<1> HIDE DEF b
<1>3. /\ Len(b.events) = Len(a.events) + 1
      /\ b.events[Len(a.events) + 1] = e
      /\ \A i \in 1 .. Len(a.events) : b.events[i] = a.events[i]
  BY <1>1, <1>2, AppendFacts
<1>4. Len(b.events) >= 1 /\ b.churn = ~b.events[1].root /\ b.last = b.events[Len(b.events)].ts
  BY <1>1, <1>2, <1>3 DEF Coheres
<1>5. ASSUME NEW j \in 1 .. Len(b.events) - 1
      PROVE  b.events[j + 1].ts - b.events[j].ts <= Window
  <2>1. CASE j = Len(a.events)
    <3>1. e.ts - a.last <= Window
      <4>1. e.ts \in Int /\ a.last \in Int /\ Window \in Int
        BY CorrelatorAssumption DEF Event, Acc, Time
      <4> QED BY <4>1 DEF TooLate
    <3>2. b.events[j + 1] = e /\ b.events[j] = a.events[Len(a.events)]
      BY <1>1, <1>3, <2>1
    <3> QED BY <3>1, <3>2 DEF Coheres
  <2>2. CASE j # Len(a.events)
    <3>1. j \in 1 .. Len(a.events) - 1
      BY <1>1, <1>3, <2>2
    <3>2. b.events[j + 1] = a.events[j + 1] /\ b.events[j] = a.events[j]
      BY <1>1, <1>3, <3>1
    <3> QED BY <3>1, <3>2 DEF Coheres
  <2> QED BY <2>1, <2>2
<1> QED BY <1>4, <1>5 DEF Coheres, b

LEMMA KeptCoheres ==
    ASSUME NEW a \in Acc, Coheres(a), Kept(a), NEW n
    PROVE  TraceCoheres(TraceOf(a, n))
<1> DEFINE t == TraceOf(a, n)
<1>1. t.churn = a.churn /\ t.events = a.events
  BY DEF TraceOf
<1> HIDE DEF t
<1>2. Len(a.events) \in Nat /\ MinChurn \in Nat /\ a.churn \in BOOLEAN
  BY CorrelatorAssumption DEF Acc
<1> QED
  <2>1. a.churn => Len(a.events) >= MinChurn
    BY <1>2 DEF Kept
  <2>2. Len(a.events) >= 1 /\ a.churn = ~a.events[1].root
    BY DEF Coheres
  <2>3. IF t.churn THEN Len(t.events) >= MinChurn /\ ~t.events[1].root
                   ELSE Len(t.events) >= 1 /\ t.events[1].root
    BY <1>1, <1>2, <2>1, <2>2, Zenon
  <2>4. \A j \in 1 .. Len(t.events) - 1 : t.events[j + 1].ts - t.events[j].ts <= Window
    BY <1>1 DEF Coheres
  <2> QED BY <2>3, <2>4 DEF TraceCoheres, t

LEMMA FlushCoheres ==
    ASSUME TypeOK, TracesCohere, NEW a \in Acc, Coheres(a), Flush(a)
    PROVE  TracesCohere'
<1>0. ring \in Seq(Trace) /\ Len(ring) \in Nat /\ DOMAIN ring = 1 .. Len(ring)
  BY DEF TypeOK
<1>1. CASE UNCHANGED <<ring, seq>>
  BY <1>1 DEF TracesCohere
<1>2. CASE ~ UNCHANGED <<ring, seq>>
  <2>1. /\ Kept(a)
        /\ ring' \in Seq(Trace)
        /\ \A i \in 1 .. Len(ring') :
              LET j == i + (Len(ring) + 1 - Len(ring'))
              IN  /\ j \in 1 .. Len(ring) + 1
                  /\ ring'[i] = IF j = Len(ring) + 1 THEN TraceOf(a, seq + 1) ELSE ring[j]
    BY <1>2, FlushFacts
  <2>2. ASSUME NEW i \in DOMAIN ring' PROVE TraceCoheres(ring'[i])
    <3>1. i \in 1 .. Len(ring')
      BY <2>1
    <3>2. PICK j \in 1 .. Len(ring) + 1 :
             ring'[i] = IF j = Len(ring) + 1 THEN TraceOf(a, seq + 1) ELSE ring[j]
      BY <2>1, <3>1
    <3>3. CASE j = Len(ring) + 1
      BY <2>1, <3>2, <3>3, KeptCoheres
    <3>4. CASE j # Len(ring) + 1
      <4>1. j \in DOMAIN ring
        BY <1>0, <3>4
      <4> QED BY <3>2, <3>4, <4>1 DEF TracesCohere, TraceCoheres
    <3> QED BY <3>3, <3>4
  <2> QED BY <2>2 DEF TracesCohere, TraceCoheres
<1> QED BY <1>1, <1>2

(* Every closed trace is a root with what followed it in time, or a burst  *)
(* that is long enough.                                                    *)
THEOREM TracesCorrect == Spec => []TracesCohere
<1>1. Init => TracesCohere /\ ActiveCoheres
  BY DEF Init, TracesCohere, ActiveCoheres
<1>2. TypeOK /\ TracesCohere /\ ActiveCoheres /\ [Next]_vars => (TracesCohere /\ ActiveCoheres)'
  <2> SUFFICES ASSUME TypeOK, TracesCohere, ActiveCoheres, [Next]_vars
               PROVE  TracesCohere' /\ ActiveCoheres'
    OBVIOUS
  <2>1. CASE UNCHANGED foldVars
    BY <2>1 DEF foldVars, TracesCohere, ActiveCoheres
  <2>2. CASE TakeEvent
    <3>1. ch[1] \in Event
      BY <2>2, TakeEventCases
    <3>2. CASE active = None /\ active' = OpenOrIgnore(ch[1]) /\ UNCHANGED <<ring, seq>>
      BY <3>1, <3>2, OpenCoheres DEF TracesCohere, ActiveCoheres
    <3>3. CASE active \in Acc /\ active # None /\ Flush(active) /\ active' = OpenOrIgnore(ch[1])
      <4>1. TracesCohere'
        BY <3>3, FlushCoheres DEF ActiveCoheres
      <4>2. active' # None => Coheres(active')
        BY <3>1, <3>3, OpenCoheres
      <4> QED BY <4>1, <4>2 DEF ActiveCoheres
    <3>4. CASE /\ active \in Acc /\ active # None /\ ~TooLate(active, ch[1])
               /\ active' = Joined(active, ch[1]) /\ UNCHANGED <<ring, seq>>
      BY <3>1, <3>4, JoinCoheres DEF TracesCohere, ActiveCoheres
    <3> QED BY <2>2, <3>2, <3>3, <3>4, TakeEventCases
  <2>3. CASE TakeTick
    <3>1. CASE active \in Acc /\ active # None /\ Flush(active) /\ active' = None
      BY <3>1, FlushCoheres DEF ActiveCoheres
    <3> QED BY <2>1, <2>3, <3>1, TakeTickCases
  <2> QED BY <2>1, <2>2, <2>3, OnlyFolds
<1> QED BY <1>1, <1>2, TypeCorrect, PTL DEF Spec

----------------------------------------------------------------------------
(* FoldedOnceInOrder by blocks: the channel holds the numbers after Folded *)
(* without a gap, and what was folded has numbers up to it.                *)
Folded == accepted - Len(ch)

Rising(s) == \A k, l \in DOMAIN s : k < l => s[k].id < s[l].id
Before(s, t) == \A k \in DOMAIN s, l \in DOMAIN t : s[k].id < t[l].id
UpTo(s, n) == \A k \in DOMAIN s : s[k].id <= n

QueueNumbered == \A i \in DOMAIN ch : ch[i].id = Folded + i

ActiveInOrder ==
    /\ Rising(ActiveEvents) /\ UpTo(ActiveEvents, Folded)
    /\ \A i \in DOMAIN ring : Before(ring[i].events, ActiveEvents)

RingInOrder(traces, n) ==
    /\ \A i \in DOMAIN traces : Rising(traces[i].events) /\ UpTo(traces[i].events, n)
    /\ \A i, j \in DOMAIN traces : i < j => Before(traces[i].events, traces[j].events)

InOrder == QueueNumbered /\ ActiveInOrder /\ RingInOrder(ring, Folded)

LEMMA EventIds ==
    ASSUME NEW s \in Seq(Event), NEW k \in DOMAIN s
    PROVE  s[k].id \in Int
<1>1. s[k] \in Event
  OBVIOUS
<1> QED BY <1>1 DEF Event

LEMMA ActiveIsSequence ==
    ASSUME TypeOK
    PROVE  ActiveEvents \in Seq(Event) /\ (active # None => ActiveEvents = active.events)
BY DEF TypeOK, ActiveEvents, Acc

(* Where the events of every trace in the ring come from after a flush.    *)
LEMMA FlushOrdered ==
    ASSUME TypeOK, ActiveInOrder, RingInOrder(ring, Folded), active \in Acc, active # None,
           Flush(active), NEW n \in Int, n >= Folded
    PROVE  RingInOrder(ring', n)
<1>0. /\ ring \in Seq(Trace) /\ Len(ring) \in Nat /\ DOMAIN ring = 1 .. Len(ring)
      /\ \A i \in DOMAIN ring : ring[i].events \in Seq(Event)
      /\ ActiveEvents \in Seq(Event) /\ ActiveEvents = active.events /\ Folded \in Int
  <2>1. ring \in Seq(Trace) /\ ch \in Seq(Event) /\ accepted \in Nat
    BY DEF TypeOK
  <2>2. ASSUME NEW i \in DOMAIN ring PROVE ring[i].events \in Seq(Event)
    <3>1. ring[i] \in Trace
      BY <2>1
    <3> QED BY <3>1 DEF Trace
  <2> QED BY <2>1, <2>2, ActiveIsSequence DEF Folded
<1>1. ASSUME NEW s \in Seq(Event), UpTo(s, Folded) PROVE UpTo(s, n)
  <2>1. \A k \in DOMAIN s : s[k].id \in Int
    BY EventIds
  <2> QED BY <1>0, <1>1, <2>1 DEF UpTo
<1>2. CASE UNCHANGED <<ring, seq>>
  BY <1>0, <1>1, <1>2 DEF RingInOrder
<1>3. CASE ~ UNCHANGED <<ring, seq>>
  <2> DEFINE from(i) == i + (Len(ring) + 1 - Len(ring'))
             block(j) == IF j = Len(ring) + 1 THEN ActiveEvents ELSE ring[j].events
  <2>1. /\ ring' \in Seq(Trace) /\ Len(ring') \in Nat /\ DOMAIN ring' = 1 .. Len(ring')
        /\ \A i \in 1 .. Len(ring') :
              LET j == i + (Len(ring) + 1 - Len(ring'))
              IN  /\ j \in 1 .. Len(ring) + 1
                  /\ ring'[i] = IF j = Len(ring) + 1 THEN TraceOf(active, seq + 1) ELSE ring[j]
    BY <1>3, FlushFacts
  <2>2. ASSUME NEW i \in DOMAIN ring'
        PROVE  from(i) \in 1 .. Len(ring) + 1 /\ ring'[i].events = block(from(i))
    <3>0. i \in 1 .. Len(ring')
      BY <2>1, <2>2
    <3> DEFINE j == from(i)
    <3>1. /\ j \in 1 .. Len(ring) + 1
          /\ ring'[i] = IF j = Len(ring) + 1 THEN TraceOf(active, seq + 1) ELSE ring[j]
      BY <2>1, <3>0
    <3> HIDE DEF j
    <3>2. CASE j = Len(ring) + 1
      <4>1. ring'[i] = TraceOf(active, seq + 1)
        BY <3>1, <3>2
      <4>2. ring'[i].events = active.events
        BY <4>1 DEF TraceOf
      <4> QED BY <1>0, <3>1, <3>2, <4>2 DEF j
    <3>3. CASE j # Len(ring) + 1
      BY <3>1, <3>3 DEF j
    <3> QED BY <3>2, <3>3
  <2>3. ASSUME NEW j \in 1 .. Len(ring) + 1
        PROVE  Rising(block(j)) /\ UpTo(block(j), n)
    <3>1. CASE j = Len(ring) + 1
      BY <1>0, <1>1, <3>1 DEF ActiveInOrder
    <3>2. CASE j # Len(ring) + 1
      <4>1. j \in DOMAIN ring
        BY <1>0, <3>2
      <4> QED BY <1>0, <1>1, <3>2, <4>1 DEF RingInOrder
    <3> QED BY <3>1, <3>2
  <2>4. ASSUME NEW i \in 1 .. Len(ring) + 1, NEW j \in 1 .. Len(ring) + 1, i < j
        PROVE  Before(block(i), block(j))
    <3>1. i \in DOMAIN ring /\ i # Len(ring) + 1
      BY <1>0, <2>4
    <3>2. CASE j = Len(ring) + 1
      BY <3>1, <3>2 DEF ActiveInOrder
    <3>3. CASE j # Len(ring) + 1
      <4>1. j \in DOMAIN ring
        BY <1>0, <3>3
      <4> QED BY <2>4, <3>1, <3>3, <4>1 DEF RingInOrder
    <3> QED BY <3>2, <3>3
  <2>5. \A i, j \in DOMAIN ring' : i < j => from(i) < from(j)
    BY <1>0, <2>1
  <2> HIDE DEF from, block
  <2>6. \A i \in DOMAIN ring' : Rising(ring'[i].events) /\ UpTo(ring'[i].events, n)
    BY <2>2, <2>3
  <2>7. \A i, j \in DOMAIN ring' : i < j => Before(ring'[i].events, ring'[j].events)
    BY <2>2, <2>4, <2>5
  <2> QED BY <2>6, <2>7 DEF RingInOrder
<1> QED BY <1>2, <1>3

(* An empty trace, and one that opens with the first event of the channel. *)
LEMMA OpenOrdered ==
    ASSUME TypeOK, NEW e \in Event, active' = OpenOrIgnore(e)
    PROVE  \/ ActiveEvents' = <<>>
           \/ ActiveEvents' = <<e>>
BY DEF ActiveEvents, OpenOrIgnore, Opened

LEMMA JoinOrdered ==
    ASSUME NEW s \in Seq(Event), NEW e \in Event, NEW n \in Int,
           Rising(s), UpTo(s, n), e.id = n + 1
    PROVE  Rising(Append(s, e)) /\ UpTo(Append(s, e), n + 1)
<1> DEFINE t == Append(s, e)
<1>1. /\ Len(s) \in Nat /\ DOMAIN s = 1 .. Len(s) /\ DOMAIN t = 1 .. Len(s) + 1
      /\ t[Len(s) + 1] = e /\ \A i \in 1 .. Len(s) : t[i] = s[i]
      /\ \A i \in DOMAIN s : s[i].id \in Int
  <2>1. \A i \in DOMAIN s : s[i].id \in Int
    BY EventIds
  <2> QED BY <2>1, AppendFacts
<1> HIDE DEF t
<1>2. ASSUME NEW k \in DOMAIN t, NEW l \in DOMAIN t, k < l PROVE t[k].id < t[l].id
  <2>1. k \in DOMAIN s /\ t[k] = s[k]
    BY <1>1, <1>2
  <2>2. CASE l = Len(s) + 1
    BY <1>1, <2>1, <2>2 DEF UpTo
  <2>3. CASE l # Len(s) + 1
    <3>1. l \in DOMAIN s /\ t[l] = s[l]
      BY <1>1, <2>3
    <3> QED BY <1>2, <2>1, <3>1 DEF Rising
  <2> QED BY <2>2, <2>3
<1>3. ASSUME NEW k \in DOMAIN t PROVE t[k].id <= n + 1
  <2>1. CASE k = Len(s) + 1
    BY <1>1, <2>1
  <2>2. CASE k # Len(s) + 1
    <3>1. k \in DOMAIN s /\ t[k] = s[k]
      BY <1>1, <2>2
    <3> QED BY <1>1, <3>1 DEF UpTo
  <2> QED BY <2>1, <2>2
<1> QED BY <1>2, <1>3 DEF Rising, UpTo, t

(* A block behind everything folded so far stays behind it when it takes   *)
(* the next event of the channel.                                          *)
LEMMA BeforeNext ==
    ASSUME NEW s \in Seq(Event), NEW t \in Seq(Event), NEW e \in Event, NEW n \in Int,
           UpTo(s, n), Before(s, t), e.id = n + 1
    PROVE  Before(s, Append(t, e)) /\ Before(s, <<e>>)
<1>1. \A k \in DOMAIN s : s[k].id \in Int /\ s[k].id <= n
  BY EventIds DEF UpTo
<1>2. /\ Len(t) \in Nat /\ DOMAIN t = 1 .. Len(t) /\ DOMAIN Append(t, e) = 1 .. Len(t) + 1
      /\ Append(t, e)[Len(t) + 1] = e /\ \A i \in 1 .. Len(t) : Append(t, e)[i] = t[i]
  BY AppendFacts
<1>3. ASSUME NEW k \in DOMAIN s, NEW l \in DOMAIN Append(t, e)
      PROVE  s[k].id < Append(t, e)[l].id
  <2>1. CASE l = Len(t) + 1
    <3>1. Append(t, e)[l] = e
      BY <1>2, <2>1
    <3> QED BY <1>1, <3>1
  <2>2. CASE l # Len(t) + 1
    <3>1. l \in DOMAIN t /\ Append(t, e)[l] = t[l]
      BY <1>2, <2>2
    <3> QED BY <3>1 DEF Before
  <2> QED BY <2>1, <2>2
<1>4. ASSUME NEW k \in DOMAIN s, NEW l \in DOMAIN <<e>> PROVE s[k].id < <<e>>[l].id
  <2>1. <<e>>[l] = e
    OBVIOUS
  <2> QED BY <1>1, <2>1
<1> QED BY <1>3, <1>4 DEF Before

LEMMA FoldKeepsOrder ==
    ASSUME TypeOK, InOrder, TakeEvent
    PROVE  InOrder'
<1> DEFINE e == ch[1]
           n == Folded
<1>1. /\ e \in Event /\ n \in Int /\ Folded' = n + 1 /\ e.id = n + 1 /\ QueueNumbered'
  <2>1. /\ ch \in Seq(Event) /\ Len(ch) \in Nat \ {0} /\ e \in Event
        /\ ch' \in Seq(Event) /\ Len(ch') = Len(ch) - 1
        /\ \A i \in 1 .. Len(ch') : ch'[i] = ch[i + 1]
        /\ accepted' = accepted /\ accepted \in Nat
    BY TakeEventCases DEF TypeOK
  <2>2. n \in Int /\ Folded' = n + 1
    BY <2>1 DEF Folded
  <2>3. \A i \in 1 .. Len(ch) : ch[i].id = n + i
    BY <2>1 DEF InOrder, QueueNumbered
  <2>4. e.id = n + 1
    BY <2>1, <2>3
  <2>5. ASSUME NEW i \in DOMAIN ch' PROVE ch'[i].id = n + 1 + i
    <3>1. i + 1 \in 1 .. Len(ch) /\ ch'[i] = ch[i + 1] /\ i \in Int
      BY <2>1
    <3> QED BY <2>2, <2>3, <3>1
  <2> QED BY <2>1, <2>2, <2>4, <2>5 DEF QueueNumbered
<1> HIDE DEF e, n
<1>2. /\ ActiveEvents \in Seq(Event) /\ Rising(ActiveEvents) /\ UpTo(ActiveEvents, n)
      /\ \A i \in DOMAIN ring : Before(ring[i].events, ActiveEvents)
      /\ RingInOrder(ring, n)
      /\ ring \in Seq(Trace)
  <2>1. ring \in Seq(Trace)
    BY DEF TypeOK
  <2> QED BY <2>1, ActiveIsSequence DEF InOrder, ActiveInOrder, n
<1>3. ASSUME NEW i \in DOMAIN ring
      PROVE  ring[i].events \in Seq(Event) /\ UpTo(ring[i].events, n)
  <2>1. ring[i] \in Trace
    BY <1>2
  <2> QED BY <1>2, <2>1 DEF RingInOrder, Trace
\* The active trace is new: it holds at most the event just taken.
<1>4. ASSUME active' = OpenOrIgnore(e), RingInOrder(ring', n + 1), RingInOrder(ring', n), ring' \in Seq(Trace)
      PROVE  InOrder'
  <2>1. ActiveEvents' = <<>> \/ ActiveEvents' = <<e>>
    BY <1>1, <1>4, OpenOrdered
  <2>2. Rising(ActiveEvents') /\ UpTo(ActiveEvents', n + 1)
    <3>1. CASE ActiveEvents' = <<>>
      BY <3>1 DEF Rising, UpTo
    <3>2. CASE ActiveEvents' = <<e>>
      BY <1>1, <3>2 DEF Rising, UpTo
    <3> QED BY <2>1, <3>1, <3>2
  <2>3. ASSUME NEW i \in DOMAIN ring' PROVE Before(ring'[i].events, ActiveEvents')
    <3>1. CASE ActiveEvents' = <<>>
      BY <3>1 DEF Before
    <3>2. CASE ActiveEvents' = <<e>>
      <4>1. ring'[i] \in Trace
        BY <1>4
      <4>2. ring'[i].events \in Seq(Event) /\ UpTo(ring'[i].events, n)
        BY <1>4, <4>1 DEF RingInOrder, Trace
      <4>3. Before(ring'[i].events, <<>>) /\ <<>> \in Seq(Event)
        BY DEF Before
      <4> QED BY <1>1, <3>2, <4>2, <4>3, BeforeNext
    <3> QED BY <2>1, <3>1, <3>2
  <2> QED BY <1>1, <1>4, <2>2, <2>3 DEF InOrder, ActiveInOrder
<1>5. CASE active = None /\ active' = OpenOrIgnore(e) /\ UNCHANGED <<ring, seq>>
  <2>1. RingInOrder(ring', n) /\ RingInOrder(ring', n + 1)
    <3>1. ASSUME NEW i \in DOMAIN ring PROVE UpTo(ring[i].events, n + 1)
      BY <1>1, <1>3, EventIds DEF UpTo
    <3> QED BY <1>2, <1>5, <3>1 DEF RingInOrder
  <2> QED BY <1>2, <1>4, <1>5, <2>1
<1>6. CASE active \in Acc /\ active # None /\ Flush(active) /\ active' = OpenOrIgnore(e)
  <2>1. RingInOrder(ring', n) /\ RingInOrder(ring', n + 1)
    <3>1. ActiveInOrder /\ RingInOrder(ring, Folded) /\ n = Folded
      BY DEF InOrder, n
    <3> QED BY <1>1, <1>6, <3>1, FlushOrdered
  <2>2. ring' \in Seq(Trace)
    BY <1>6, FlushTypes
  <2> QED BY <1>4, <1>6, <2>1, <2>2
<1>7. CASE /\ active \in Acc /\ active # None
           /\ active' = Joined(active, e) /\ UNCHANGED <<ring, seq>>
  <2>1. ActiveEvents = active.events
    BY <1>7, ActiveIsSequence
  <2>2. Joined(active, e).events = Append(active.events, e)
    BY <1>7 DEF Joined, Acc
  <2>3. ActiveEvents' = <<>> \/ ActiveEvents' = Append(ActiveEvents, e)
    BY <1>7, <2>1, <2>2 DEF ActiveEvents
  <2>4. Rising(ActiveEvents') /\ UpTo(ActiveEvents', n + 1)
    <3>1. CASE ActiveEvents' = <<>>
      BY <3>1 DEF Rising, UpTo
    <3> QED BY <1>1, <1>2, <2>3, <3>1, JoinOrdered
  <2>5. ASSUME NEW i \in DOMAIN ring
        PROVE  Before(ring[i].events, ActiveEvents') /\ UpTo(ring[i].events, n + 1)
    <3>1. UpTo(ring[i].events, n + 1)
      BY <1>1, <1>3, EventIds DEF UpTo
    <3>2. CASE ActiveEvents' = <<>>
      BY <3>1, <3>2 DEF Before
    <3> QED BY <1>1, <1>2, <1>3, <2>3, <3>1, <3>2, BeforeNext
  <2>6. RingInOrder(ring', n + 1)
    BY <1>2, <1>7, <2>5 DEF RingInOrder
  <2> QED BY <1>1, <1>7, <2>4, <2>5, <2>6 DEF InOrder, ActiveInOrder
<1> QED BY <1>5, <1>6, <1>7, TakeEventCases DEF e

LEMMA TickKeepsOrder ==
    ASSUME TypeOK, InOrder, TakeTick
    PROVE  InOrder'
<1>1. Folded' = Folded /\ QueueNumbered' /\ Folded \in Int
  BY TakeTickCases DEF Folded, InOrder, QueueNumbered, TypeOK
<1>2. CASE UNCHANGED foldVars
  BY <1>1, <1>2 DEF foldVars, InOrder, ActiveInOrder, RingInOrder, ActiveEvents
<1>3. CASE active \in Acc /\ active # None /\ Flush(active) /\ active' = None
  <2>1. RingInOrder(ring', Folded')
    <3>1. Folded \in Int /\ Folded >= Folded
      BY <1>1
    <3>2. RingInOrder(ring', Folded)
      BY <1>3, <3>1, FlushOrdered DEF InOrder
    <3> QED BY <1>1, <3>2
  <2>2. ActiveInOrder'
    <3>1. ActiveEvents' = <<>>
      BY <1>3 DEF ActiveEvents
    <3> QED BY <3>1 DEF ActiveInOrder, Rising, UpTo, Before
  <2> QED BY <1>1, <2>1, <2>2 DEF InOrder
<1> QED BY <1>2, <1>3, TakeTickCases

LEMMA SendKeepsOrder ==
    ASSUME TypeOK, InOrder, NEW e \in Emitters, Send(e)
    PROVE  InOrder'
<1>1. /\ ch' = Append(ch, Numbered(stamped[e], accepted + 1))
      /\ Numbered(stamped[e], accepted + 1) \in Event
      /\ accepted' = accepted + 1 /\ UNCHANGED foldVars
      /\ ch \in Seq(Event) /\ accepted \in Nat
      /\ Numbered(stamped[e], accepted + 1).id = accepted + 1
  BY SendTypes DEF Send, TypeOK, Numbered
<1> DEFINE x == Numbered(stamped[e], accepted + 1)
<1> HIDE DEF x
<1>2. /\ Len(ch) \in Nat /\ DOMAIN ch = 1 .. Len(ch)
      /\ Len(ch') = Len(ch) + 1 /\ DOMAIN ch' = 1 .. Len(ch) + 1
      /\ ch'[Len(ch) + 1].id = accepted + 1
      /\ \A i \in 1 .. Len(ch) : ch'[i] = ch[i]
  <2>1. ch' = Append(ch, x) /\ x \in Event /\ x.id = accepted + 1
    BY <1>1 DEF x
  <2> QED BY <1>1, <2>1, AppendFacts
<1>3. Folded' = Folded /\ Folded \in Int
  BY <1>1, <1>2 DEF Folded
<1>4. ASSUME NEW i \in DOMAIN ch' PROVE ch'[i].id = Folded + i
  <2>1. CASE i = Len(ch) + 1
    BY <1>1, <1>2, <2>1 DEF Folded
  <2>2. CASE i # Len(ch) + 1
    BY <1>2, <2>2 DEF InOrder, QueueNumbered
  <2> QED BY <2>1, <2>2
<1> QED BY <1>1, <1>3, <1>4
        DEF foldVars, InOrder, QueueNumbered, ActiveInOrder, RingInOrder, ActiveEvents

LEMMA BlocksOfBoth ==
    ASSUME NEW S, NEW a \in Seq(S), NEW b \in Seq(S), Len(b) = 2
    PROVE  /\ DOMAIN (a \o b) = 1 .. Len(a) + 2
           /\ \A i \in 1 .. Len(a) : (a \o b)[i] = a[i]
           /\ (a \o b)[Len(a) + 1] = b[1] /\ (a \o b)[Len(a) + 2] = b[2]
<1>0. Len(a \o b) = Len(a) + Len(b) /\ a \o b \in Seq(S)
  BY ConcatProperties, Zenon
<1>1. Len(a) \in Nat /\ a \o b \in Seq(S) /\ Len(a \o b) = Len(a) + 2
  <2>1. Len(a) \in Nat
    OBVIOUS
  <2> QED BY <1>0, <2>1
<1>2. \A i \in 1 .. Len(a) + 2 :
         (a \o b)[i] = IF i <= Len(a) THEN a[i] ELSE b[i - Len(a)]
  BY ConcatProperties
<1>3. Len(a) + 1 - Len(a) = 1 /\ Len(a) + 2 - Len(a) = 2
  BY <1>1
<1>4. (a \o b)[Len(a) + 1] = b[1] /\ (a \o b)[Len(a) + 2] = b[2]
  BY <1>1, <1>2, <1>3
<1>5. \A i \in 1 .. Len(a) : (a \o b)[i] = a[i]
  BY <1>1, <1>2
<1>6. DOMAIN (a \o b) = 1 .. Len(a) + 2
  BY <1>1
<1> QED BY <1>4, <1>5, <1>6

(* The order of the blocks is the order of the numbers.                    *)
LEMMA OrderOfBlocks == ASSUME TypeOK, InOrder PROVE FoldedOnceInOrder
<1> DEFINE r == Len(ring)
<1>1. /\ ring \in Seq(Trace) /\ r \in Nat /\ DOMAIN ring = 1 .. r
      /\ ActiveEvents \in Seq(Event) /\ ch \in Seq(Event) /\ accepted \in Nat
      /\ Folded \in Int
  BY ActiveIsSequence DEF TypeOK, Folded
<1>2. \A i \in 1 .. r : ring[i].events \in Seq(Event)
  <2>1. ASSUME NEW i \in 1 .. r PROVE ring[i] \in Trace
    BY <1>1
  <2> QED BY <2>1 DEF Trace
<1>3. /\ DOMAIN Blocks = 1 .. r + 2
      /\ \A i \in 1 .. r : Blocks[i] = ring[i].events
      /\ Blocks[r + 1] = ActiveEvents /\ Blocks[r + 2] = ch
  <2> DEFINE a == [i \in DOMAIN ring |-> ring[i].events]
             b == <<ActiveEvents, ch>>
  <2>1. a \in Seq(Seq(Event)) /\ Len(a) = r
    BY <1>1, <1>2
  <2>2. b \in Seq(Seq(Event)) /\ Len(b) = 2 /\ b[1] = ActiveEvents /\ b[2] = ch
    BY <1>1
  <2>3. \A i \in 1 .. r : a[i] = ring[i].events
    BY <1>1
  <2> HIDE DEF a, b
  <2>4. /\ DOMAIN (a \o b) = 1 .. r + 2
        /\ \A i \in 1 .. r : (a \o b)[i] = a[i]
        /\ (a \o b)[r + 1] = b[1] /\ (a \o b)[r + 2] = b[2]
    BY <1>1, <2>1, <2>2, BlocksOfBoth
  <2>5. Blocks = a \o b
    BY DEF Blocks, a, b
  <2> QED BY <2>2, <2>3, <2>4, <2>5
<1> HIDE DEF r
<1>4. \A k \in DOMAIN ch : ch[k].id = Folded + k /\ k \in Nat /\ k >= 1
  BY <1>1 DEF InOrder, QueueNumbered
<1>5. ASSUME NEW s \in Seq(Event), UpTo(s, Folded) PROVE Before(s, ch)
  <2>1. \A k \in DOMAIN s : s[k].id \in Int /\ s[k].id <= Folded
    BY <1>5, EventIds DEF UpTo
  <2> QED BY <1>1, <1>4, <2>1 DEF Before
<1>6. ASSUME NEW i \in DOMAIN Blocks, NEW j \in DOMAIN Blocks, i < j
      PROVE  Before(Blocks[i], Blocks[j])
  <2>1. CASE j \in 1 .. r
    <3>1. i \in 1 .. r
      BY <1>1, <1>3, <1>6, <2>1
    <3> QED BY <1>1, <1>3, <1>6, <2>1, <3>1 DEF InOrder, RingInOrder
  <2>2. CASE j = r + 1
    <3>1. i \in 1 .. r
      BY <1>1, <1>3, <1>6, <2>2
    <3> QED BY <1>1, <1>3, <2>2, <3>1 DEF InOrder, ActiveInOrder
  <2>3. CASE j = r + 2
    <3>1. i \in 1 .. r \/ i = r + 1
      BY <1>1, <1>3, <1>6, <2>3
    <3>2. CASE i \in 1 .. r
      <4>1. Blocks[i] \in Seq(Event) /\ UpTo(Blocks[i], Folded)
        BY <1>1, <1>2, <1>3, <3>2 DEF InOrder, RingInOrder
      <4> QED BY <1>3, <1>5, <2>3, <4>1
    <3>3. CASE i = r + 1
      <4>1. Blocks[i] \in Seq(Event) /\ UpTo(Blocks[i], Folded)
        BY <1>1, <1>3, <3>3 DEF InOrder, ActiveInOrder
      <4> QED BY <1>3, <1>5, <2>3, <4>1
    <3> QED BY <3>1, <3>2, <3>3
  <2> QED BY <1>1, <1>3, <2>1, <2>2, <2>3
<1>7. ASSUME NEW i \in DOMAIN Blocks PROVE Rising(Blocks[i])
  <2>1. CASE i \in 1 .. r
    BY <1>1, <1>3, <2>1 DEF InOrder, RingInOrder
  <2>2. CASE i = r + 1
    BY <1>3, <2>2 DEF InOrder, ActiveInOrder
  <2>3. CASE i = r + 2
    <3>1. Rising(ch)
      BY <1>1, <1>4 DEF Rising
    <3> QED BY <1>3, <2>3, <3>1
  <2> QED BY <1>1, <1>3, <2>1, <2>2, <2>3
<1> QED BY <1>6, <1>7 DEF FoldedOnceInOrder, Before, Rising

(* No event is folded twice or out of the order of the channel.            *)
THEOREM FoldCorrect == Spec => []FoldedOnceInOrder
<1>1. Init => InOrder
  BY DEF Init, InOrder, QueueNumbered, ActiveInOrder, RingInOrder, ActiveEvents, Rising, UpTo, Before
<1>2. TypeOK /\ InOrder /\ [Next]_vars => InOrder'
  <2> SUFFICES ASSUME TypeOK, InOrder, [Next]_vars PROVE InOrder'
    OBVIOUS
  <2>1. ASSUME NEW e \in Emitters, Send(e) PROVE InOrder'
    BY <2>1, SendKeepsOrder
  <2>2. CASE TakeEvent
    BY <2>2, FoldKeepsOrder
  <2>3. CASE TakeTick
    BY <2>3, TickKeepsOrder
  <2>4. CASE UNCHANGED <<ch, accepted, active, ring>>
    BY <2>4 DEF InOrder, QueueNumbered, Folded, ActiveInOrder, RingInOrder, ActiveEvents
  <2>5. \/ \E e \in Emitters : Send(e)
        \/ TakeEvent \/ TakeTick
        \/ UNCHANGED <<ch, accepted, active, ring>>
    BY DEF Next, vars, foldVars, Stamp, Drop, Advance, TickerFires
  <2> QED BY <2>1, <2>2, <2>3, <2>4, <2>5
<1>3. TypeOK /\ InOrder => FoldedOnceInOrder
  BY OrderOfBlocks
<1> QED BY <1>1, <1>2, <1>3, TypeCorrect, PTL DEF Spec

=============================================================================
