---------------------------- MODULE ExporterProofs ----------------------------
(***************************************************************************)
(* Proofs about the three programs that poll the nodes: TraceAggregator,   *)
(* PathTrace and Topology, which share no state.  Proved for any nodes,    *)
(* traces, networks, reports and bounds.                                   *)
(***************************************************************************)
EXTENDS TraceAggregator, PathTrace, Topology,
        FiniteSetTheorems, NaturalsInduction, WellFoundedInduction, TLAPS

----------------------------------------------------------------------------
(* Recursion over the naturals: the set of the numbers that something is   *)
(* true of, and a function that is given by its first value and its step.  *)
LEMMA NatSetInduction ==
    ASSUME NEW S, 0 \in S, \A n \in S \cap Nat : n + 1 \in S
    PROVE  Nat \subseteq S
<1> DEFINE R == OpToRel(<, Nat)
           T == Nat \ S
<1>1. IsWellFoundedOn(R, Nat)
  BY NatLessThanWellFounded
<1>2. SUFFICES ASSUME T # {} PROVE FALSE
  OBVIOUS
<1>3. \E x \in T : \A y \in T : ~ (<<y, x>> \in R)
  <2> HIDE DEF R
  <2>1. T \subseteq Nat
    OBVIOUS
  <2> HIDE DEF T
  <2> QED BY <1>1, <1>2, <2>1, WFMin
<1>4. \A x, y \in Nat : <<y, x>> \in R <=> y < x
  BY DEF OpToRel
<1> HIDE DEF R
<1>5. PICK x \in T : \A y \in T : ~ (y < x)
  BY <1>3, <1>4
<1>6. x # 0 /\ x - 1 \in Nat
  OBVIOUS
<1>7. x - 1 \in S
  BY <1>5, <1>6
<1>8. (x - 1) + 1 = x
  BY <1>5
<1> QED BY <1>6, <1>7, <1>8

Iterates(f, S, a, F) ==
    f \in [Nat -> S] /\ f[0] = a /\ \A n \in Nat : f[n + 1] = F[<<n, f[n]>>]

LEMMA Iteration ==
    ASSUME NEW S, NEW a \in S, NEW F \in [Nat \X S -> S]
    PROVE  \E f : Iterates(f, S, a, F)
<1> DEFINE Begins(f, n) == f[0] = a /\ \A i \in 0 .. n - 1 : f[i + 1] = F[<<i, f[i]>>]
           Far == {n \in Nat : \E f \in [0 .. n -> S] : Begins(f, n)}
<1>1. Nat \subseteq Far
  <2>1. 0 \in Far
    <3>1. [i \in 0 .. 0 |-> a] \in [0 .. 0 -> S] /\ Begins([i \in 0 .. 0 |-> a], 0)
      OBVIOUS
    <3> QED BY <3>1
  <2>2. ASSUME NEW n \in Far PROVE n + 1 \in Far
    <3>1. PICK f \in [0 .. n -> S] : Begins(f, n)
      BY <2>2
    <3> DEFINE last == F[<<n, f[n]>>]
               g == [i \in 0 .. n + 1 |-> IF i = n + 1 THEN last ELSE f[i]]
    <3>0. n \in Nat
      BY <2>2
    <3> HIDE DEF Far
    <3>2. g \in [0 .. n + 1 -> S]
      <4>1. f[n] \in S
        BY <3>0
      <4>2. last \in S
        BY <3>0, <4>1
      <4> HIDE DEF last
      <4> QED BY <3>0, <4>2
    <3>3. g[0] = a
      BY <3>0, <3>1
    <3>4. ASSUME NEW i \in 0 .. (n + 1) - 1 PROVE g[i + 1] = F[<<i, g[i]>>]
      <4>1. i \in 0 .. n /\ i # n + 1
        BY <3>0
      <4>2. g[i] = f[i]
        BY <3>0, <4>1
      <4>3. CASE i = n
        <5>1. g[n + 1] = last
          <6> HIDE DEF last
          <6> QED BY <3>0
        <5> QED BY <4>2, <4>3, <5>1
      <4>4. CASE i # n
        <5>1. i \in 0 .. n - 1 /\ i + 1 \in 0 .. n + 1 /\ i + 1 # n + 1
          BY <3>0, <4>1, <4>4
        <5>2. g[i + 1] = f[i + 1]
          BY <5>1
        <5> QED BY <3>1, <4>2, <5>1, <5>2
      <4> QED BY <4>3, <4>4
    <3>5. Begins(g, n + 1)
      BY <3>3, <3>4
    <3> HIDE DEF g, Begins
    <3> QED BY <3>0, <3>2, <3>5 DEF Far
  <2> HIDE DEF Far
  <2> QED BY <2>1, <2>2, NatSetInduction
<1>2. ASSUME NEW m \in Nat, NEW n \in Nat, NEW f \in [0 .. m -> S], NEW g \in [0 .. n -> S],
             Begins(f, m), Begins(g, n), NEW k \in Nat, k <= m, k <= n
      PROVE  f[k] = g[k]
  <2> DEFINE Same == {i \in Nat : i <= m /\ i <= n => f[i] = g[i]}
  <2>1. 0 \in Same
    BY <1>2
  <2>2. ASSUME NEW i \in Same \cap Nat PROVE i + 1 \in Same
    <3>1. SUFFICES ASSUME i + 1 <= m, i + 1 <= n PROVE f[i + 1] = g[i + 1]
      OBVIOUS
    <3>2. i \in 0 .. m - 1 /\ i \in 0 .. n - 1 /\ f[i] = g[i]
      BY <2>2, <3>1
    <3> QED BY <1>2, <3>2
  <2>3. Nat \subseteq Same
    <3> HIDE DEF Same
    <3> QED BY <2>1, <2>2, NatSetInduction
  <2> QED BY <1>2, <2>3
<1> DEFINE h == [n \in Nat |-> CHOOSE f \in [0 .. n -> S] : Begins(f, n)]
           r == [n \in Nat |-> h[n][n]]
<1>3. \A n \in Nat : h[n] \in [0 .. n -> S] /\ Begins(h[n], n)
  BY <1>1
<1> HIDE DEF h
<1>4. r \in [Nat -> S] /\ r[0] = a
  <2>1. ASSUME NEW n \in Nat PROVE h[n][n] \in S
    <3>1. h[n] \in [0 .. n -> S] /\ n \in 0 .. n
      BY <1>3
    <3> QED BY <3>1
  <2>2. h[0][0] = a
    BY <1>3
  <2> QED BY <2>1, <2>2
<1>5. ASSUME NEW n \in Nat PROVE r[n + 1] = F[<<n, r[n]>>]
  <2>1. h[n + 1] \in [0 .. n + 1 -> S] /\ Begins(h[n + 1], n + 1) /\ n \in 0 .. (n + 1) - 1
    <3>1. n + 1 \in Nat /\ n \in 0 .. (n + 1) - 1
      OBVIOUS
    <3> HIDE DEF Begins
    <3> QED BY <1>3, <3>1
  <2>2. h[n + 1][n + 1] = F[<<n, h[n + 1][n]>>]
    BY <2>1
  <2>3. h[n] \in [0 .. n -> S] /\ Begins(h[n], n)
    <3> HIDE DEF Begins
    <3> QED BY <1>3
  <2>4. n <= n /\ n <= n + 1 /\ n + 1 \in Nat
    OBVIOUS
  <2> HIDE DEF Begins
  <2>5. h[n + 1][n] = h[n][n]
    BY <1>2, <2>1, <2>3, <2>4
  <2> QED BY <2>2, <2>4, <2>5
<1> HIDE DEF r
<1> QED BY <1>4, <1>5 DEF Iterates

(***************************************************************************)
(* The trace aggregator.                                                   *)
(***************************************************************************)
(* What Bump does to a function into the naturals, as a set and at a place. *)
LEMMA BumpCounts ==
    ASSUME NEW f, NEW k, Counts(f)
    PROVE  Counts(Bump(f, k)) /\ DOMAIN Bump(f, k) = DOMAIN f \cup {k}
BY DEF Counts, Bump, Count

LEMMA CountInNat == ASSUME NEW f, NEW j, Counts(f) PROVE Count(f, j) \in Nat
BY DEF Counts, Count

LEMMA BumpAt ==
    ASSUME NEW f, NEW k, NEW j
    PROVE  Count(Bump(f, k), j) = IF j = k THEN Count(f, k) + 1 ELSE Count(f, j)
BY DEF Bump, Count

(* The four outcomes of a push, and a skip, on what they may touch. *)
LEMMA PushTypes ==
    ASSUME TypeOK, NEW d, Skip(d) \/ Delivered(d) \/ NotSent(d) \/ AnswerLost(d) \/ Refused(d)
    PROVE  /\ Counts(accepted') /\ Counts(lost')
           /\ DOMAIN lost' \subseteq DOMAIN accepted'
           /\ pushed' \subseteq DOMAIN accepted' \cup refused'
           /\ failures' \in failures..MaxFailures
<1> USE AggregatorAssumption DEF TypeOK
<1>1. CASE Skip(d)
  BY <1>1 DEF Skip, tempo
<1>2. CASE Delivered(d)
  <2>1. Counts(accepted') /\ DOMAIN accepted' = DOMAIN accepted \cup {Id(d)}
    BY <1>2, BumpCounts DEF Delivered
  <2> QED BY <1>2, <2>1 DEF Delivered
<1>3. CASE NotSent(d)
  BY <1>3 DEF NotSent, Failure, tempo
<1>4. CASE AnswerLost(d)
  <2>1. /\ Counts(accepted') /\ DOMAIN accepted' = DOMAIN accepted \cup {Id(d)}
        /\ Counts(lost') /\ DOMAIN lost' = DOMAIN lost \cup {Id(d)}
    BY <1>4, BumpCounts DEF AnswerLost
  <2> QED BY <1>4, <2>1 DEF AnswerLost, Failure
<1>5. CASE Refused(d)
  BY <1>5 DEF Refused, Failure
<1> QED BY <1>1, <1>2, <1>3, <1>4, <1>5

(* The state keeps its type, in every behaviour. *)
THEOREM TypeCorrect == AggSpec => []TypeOK
<1> USE AggregatorAssumption DEF TypeOK, env, loop, tempo
<1>1. AggInit => TypeOK
  BY DEF AggInit, Counts
<1>2. TypeOK /\ [AggNext]_aggVars => TypeOK'
  <2> SUFFICES ASSUME TypeOK, [AggNext]_aggVars PROVE TypeOK'
    OBVIOUS
  <2>1. CASE Tick
    BY <2>1 DEF Tick
  <2>2. ASSUME NEW t \in Trace, Record(t) PROVE TypeOK'
    BY <2>2 DEF Record
  <2>3. ASSUME NEW t \in Trace, Forget(t) PROVE TypeOK'
    BY <2>3 DEF Forget, Failure
  <2>4. ASSUME NEW x \in Txn, Anchor(x) PROVE TypeOK'
    BY <2>4 DEF Anchor
  <2>5. CASE PollTxns
    BY <2>5 DEF PollTxns, Fetched
  <2>6. ASSUME NEW n \in Polled, Ask(n) PROVE TypeOK'
    BY <2>6 DEF Ask, Failure
  <2>7. CASE Build
    BY <2>7 DEF Build
  <2>8. CASE Match
    BY <2>8 DEF Match
  <2>9. CASE Publish
    BY <2>9 DEF Publish
  <2>10. CASE Push
    <3> DEFINE d == dts[next]
    <3>1. Skip(d) \/ Delivered(d) \/ NotSent(d) \/ AnswerLost(d) \/ Refused(d)
      BY <2>10 DEF Push
    <3> HIDE DEF d
    <3>2. /\ Counts(accepted') /\ Counts(lost')
          /\ DOMAIN lost' \subseteq DOMAIN accepted'
          /\ pushed' \subseteq DOMAIN accepted' \cup refused'
          /\ failures' \in failures..MaxFailures
      BY <3>1, PushTypes
    <3> QED BY <2>10, <3>2 DEF Push
  <2>11. CASE Sleep
    BY <2>11 DEF Sleep
  <2>12. CASE Restart
    BY <2>12 DEF Restart, Failure
  <2>13. CASE UNCHANGED aggVars
    BY <2>13 DEF aggVars
  <2> QED BY <2>1, <2>2, <2>3, <2>4, <2>5, <2>6, <2>7, <2>8, <2>9, <2>10, <2>11, <2>12, <2>13
            DEF AggNext, Loop
<1> QED BY <1>1, <1>2, PTL DEF AggSpec

----------------------------------------------------------------------------
(* The inductive form of OncePerId: the one export that no loss explains   *)
(* is remembered in pushed.                                                *)
Explained(k) ==
    Count(accepted, k) <= Count(lost, k) + restarts + IF k \in pushed THEN 1 ELSE 0

OnceInv == \A k : Explained(k)

(* A push takes one more export only of an id that is not in pushed.       *)
LEMMA PushExplained ==
    ASSUME TypeOK, OnceInv, NEW d, restarts' = restarts,
           Skip(d) \/ Delivered(d) \/ NotSent(d) \/ AnswerLost(d) \/ Refused(d)
    PROVE  OnceInv'
<1> SUFFICES ASSUME NEW k PROVE Explained(k)'
  BY DEF OnceInv
<1>0. /\ Counts(accepted) /\ Counts(lost) /\ restarts \in Nat
      /\ Count(accepted, k) \in Nat /\ Count(lost, k) \in Nat
      /\ Explained(k)
  <2>1. Counts(accepted) /\ Counts(lost) /\ restarts \in Nat
    BY DEF TypeOK
  <2> QED BY <2>1, CountInNat DEF OnceInv
<1>1. CASE Skip(d)
  <2>1. accepted' = accepted /\ lost' = lost /\ pushed' = pushed
    BY <1>1 DEF Skip, tempo
  <2> QED BY <1>0, <2>1 DEF Explained, Count
<1>2. CASE Delivered(d)
  <2>1. /\ k # Id(d) => Count(accepted', k) = Count(accepted, k)
        /\ k = Id(d) => Count(accepted', k) = Count(accepted, k) + 1 /\ k \notin pushed
        /\ Count(lost', k) = Count(lost, k) /\ pushed' = pushed \cup {Id(d)}
    <3>1. Count(accepted', k) = IF k = Id(d) THEN Count(accepted, Id(d)) + 1 ELSE Count(accepted, k)
      BY <1>2, BumpAt DEF Delivered
    <3> QED BY <1>2, <3>1 DEF Delivered, Due
  <2> QED BY <1>0, <2>1 DEF Explained
<1>3. CASE NotSent(d)
  BY <1>0, <1>3 DEF NotSent, tempo, Explained, Count
<1>4. CASE AnswerLost(d)
  <2>1. /\ k # Id(d) => Count(accepted', k) = Count(accepted, k) /\ Count(lost', k) = Count(lost, k)
        /\ k = Id(d) => /\ Count(accepted', k) = Count(accepted, k) + 1
                        /\ Count(lost', k) = Count(lost, k) + 1
        /\ pushed' = pushed
    <3>1. Count(accepted', k) = IF k = Id(d) THEN Count(accepted, Id(d)) + 1 ELSE Count(accepted, k)
      BY <1>4, BumpAt DEF AnswerLost
    <3>2. Count(lost', k) = IF k = Id(d) THEN Count(lost, Id(d)) + 1 ELSE Count(lost, k)
      BY <1>4, BumpAt DEF AnswerLost
    <3> QED BY <1>4, <3>1, <3>2 DEF AnswerLost
  <2> QED BY <1>0, <2>1 DEF Explained
<1>5. CASE Refused(d)
  BY <1>0, <1>5 DEF Refused, Explained, Count
<1> QED BY <1>1, <1>2, <1>3, <1>4, <1>5

(* "Exactly once per trace_id" (main.go:409), up to answers that were lost *)
(* and restarts of the aggregator.                                         *)
THEOREM ExportedOncePerId == AggSpec => []OncePerId
<1>1. AggInit => OnceInv
  BY DEF AggInit, OnceInv, Explained, Count
<1>2. TypeOK /\ OnceInv /\ [AggNext]_aggVars => OnceInv'
  <2> SUFFICES ASSUME TypeOK, OnceInv, [AggNext]_aggVars PROVE OnceInv'
    OBVIOUS
  <2>1. CASE UNCHANGED <<pushed, tempo, restarts>>
    BY <2>1 DEF OnceInv, Explained, Count, tempo
  <2>2. CASE Push
    <3> DEFINE d == dts[next]
    <3>1. /\ Skip(d) \/ Delivered(d) \/ NotSent(d) \/ AnswerLost(d) \/ Refused(d)
          /\ restarts' = restarts
      BY <2>2 DEF Push
    <3> HIDE DEF d
    <3> QED BY <3>1, PushExplained
  <2>3. CASE Restart
    <3> SUFFICES ASSUME NEW k PROVE Explained(k)'
      BY DEF OnceInv
    <3>1. /\ restarts \in Nat /\ restarts' = restarts + 1
          /\ Count(accepted, k) \in Nat /\ Count(lost, k) \in Nat
          /\ Count(accepted', k) = Count(accepted, k) /\ Count(lost', k) = Count(lost, k)
          /\ Explained(k)
      <4>1. restarts \in Nat /\ Counts(accepted) /\ Counts(lost)
        BY DEF TypeOK
      <4>2. accepted' = accepted /\ lost' = lost /\ restarts' = restarts + 1
        BY <2>3 DEF Restart, tempo
      <4> QED BY <4>1, <4>2, CountInNat DEF OnceInv
    <3> QED BY <3>1 DEF Explained
  <2> QED
    BY <2>1, <2>2, <2>3 DEF AggNext, Loop, aggVars, loop, env, Tick, Record, Forget, Anchor,
       PollTxns, Ask, Build, Match, Publish, Sleep
<1>3. TypeOK /\ OnceInv => OncePerId
  <2> SUFFICES ASSUME TypeOK, OnceInv, NEW k \in DOMAIN accepted
               PROVE  accepted[k] <= 1 + Count(lost, k) + restarts
    BY DEF OncePerId
  <2>1. /\ accepted[k] \in Nat /\ Count(lost, k) \in Nat /\ restarts \in Nat
        /\ accepted[k] = Count(accepted, k) /\ Explained(k)
    BY CountInNat DEF TypeOK, OnceInv, Counts, Count
  <2> QED BY <2>1 DEF Explained
<1> QED BY <1>1, <1>2, <1>3, TypeCorrect, PTL DEF AggSpec

----------------------------------------------------------------------------
(* What build, merge and the push of a round hand on: traces in the order  *)
(* of their starts, none twice, and what merge makes of them.              *)
Ordered(g) ==
    /\ g \in Seq(Trace)
    /\ \A i, j \in DOMAIN g : i < j => StartOf[g[i]] <= StartOf[g[j]] /\ g[i] # g[j]

Links == {LinkOf[t] : t \in Trace} \cup {Unknown}
Starts == {Earliest(g) : g \in Seq(Trace)}

Stitched(d) ==
    /\ Ordered(d.roots)
    /\ d.start = Earliest(d.roots) /\ d.link \in Elected(d.roots)

Ids == {d \in [start : Starts, link : Links, roots : Seq(Trace)] : Stitched(d)}

DTraces ==
    {d \in [start : Starts, link : Links, roots : Seq(Trace), txn : Txn \cup {Unknown}] : Stitched(d)}

(* One more trace joins its group or begins one: the groups stay ordered.  *)
Before(q, i) == {q[j] : j \in 1 .. i}

Partial(q, i, groups) ==
    /\ groups \in Seq(Seq(Trace))
    /\ \A k \in DOMAIN groups : Ordered(groups[k]) /\ ToSet(groups[k]) \subseteq Before(q, i)

LEMMA AppendOrdered ==
    ASSUME NEW g, Ordered(g), NEW t \in Trace,
           \A u \in ToSet(g) : StartOf[u] <= StartOf[t] /\ u # t
    PROVE  Ordered(Append(g, t)) /\ ToSet(Append(g, t)) = ToSet(g) \cup {t}
<1> DEFINE h == Append(g, t)
<1>1. g \in Seq(Trace) /\ Len(g) \in Nat /\ DOMAIN g = 1 .. Len(g)
  BY DEF Ordered
<1>2. /\ h \in Seq(Trace) /\ DOMAIN h = 1 .. Len(g) + 1
      /\ h[Len(g) + 1] = t /\ \A i \in 1 .. Len(g) : h[i] = g[i]
  BY <1>1
<1> HIDE DEF h
<1>3. ASSUME NEW i \in DOMAIN h, NEW j \in DOMAIN h, i < j
      PROVE  StartOf[h[i]] <= StartOf[h[j]] /\ h[i] # h[j]
  <2>1. i \in 1 .. Len(g) /\ h[i] = g[i] /\ g[i] \in ToSet(g)
    BY <1>1, <1>2, <1>3 DEF ToSet
  <2>2. CASE j = Len(g) + 1
    BY <1>2, <2>1, <2>2
  <2>3. CASE j # Len(g) + 1
    <3>1. j \in 1 .. Len(g) /\ h[j] = g[j]
      BY <1>1, <1>2, <2>3
    <3> QED BY <1>1, <1>3, <2>1, <3>1 DEF Ordered
  <2> QED BY <2>2, <2>3
<1>4. ToSet(h) = ToSet(g) \cup {t}
  <2>1. ASSUME NEW x \in ToSet(h) PROVE x \in ToSet(g) \cup {t}
    <3>1. PICK i \in 1 .. Len(g) + 1 : x = h[i]
      BY <1>2 DEF ToSet
    <3>2. CASE i = Len(g) + 1
      BY <1>2, <3>1, <3>2
    <3>3. CASE i # Len(g) + 1
      BY <1>1, <1>2, <3>1, <3>3 DEF ToSet
    <3> QED BY <3>2, <3>3
  <2>2. ASSUME NEW x \in ToSet(g) \cup {t} PROVE x \in ToSet(h)
    <3>1. CASE x = t
      <4>1. Len(g) + 1 \in DOMAIN h
        BY <1>1, <1>2
      <4> QED BY <1>2, <3>1, <4>1 DEF ToSet
    <3>2. CASE x \in ToSet(g)
      <4>1. PICK i \in 1 .. Len(g) : x = g[i]
        BY <1>1, <3>2 DEF ToSet
      <4>2. i \in DOMAIN h
        BY <1>1, <1>2
      <4> QED BY <1>2, <4>1, <4>2 DEF ToSet
    <3> QED BY <3>1, <3>2
  <2> QED BY <2>1, <2>2
<1>5. Ordered(h)
  BY <1>2, <1>3 DEF Ordered
<1> QED BY <1>4, <1>5 DEF h

LEMMA JoinOrdered ==
    ASSUME NEW q, Ordered(q), NEW i \in Nat, i + 1 \in DOMAIN q,
           NEW groups, Partial(q, i, groups)
    PROVE  Partial(q, i + 1, Join(groups, q[i + 1]))
<1> DEFINE t == q[i + 1]
           n == Len(groups)
<1>1. q \in Seq(Trace) /\ DOMAIN q = 1 .. Len(q) /\ Len(q) \in Nat /\ t \in Trace
  BY DEF Ordered
<1>2. groups \in Seq(Seq(Trace)) /\ n \in Nat /\ DOMAIN groups = 1 .. n
  BY DEF Partial
<1>3. Before(q, i + 1) = Before(q, i) \cup {t}
  <2>1. 1 .. i + 1 = (1 .. i) \cup {i + 1}
    OBVIOUS
  <2> QED BY <2>1 DEF Before
<1>4. \A u \in Before(q, i) : StartOf[u] <= StartOf[t] /\ u # t
  <2>1. ASSUME NEW j \in 1 .. i PROVE StartOf[q[j]] <= StartOf[t] /\ q[j] # t
    <3>1. j \in DOMAIN q /\ j < i + 1
      BY <1>1
    <3> QED BY <3>1 DEF Ordered
  <2> QED BY <2>1 DEF Before
<1> HIDE DEF t
<1>5. CASE groups # <<>> /\ StartOf[t] - StartOf[Last(groups)[1]] <= Window
  <2> DEFINE last == Append(groups[n], t)
             joined == [groups EXCEPT ![n] = last]
  <2>1. n \in DOMAIN groups /\ groups[n] \in Seq(Trace)
    BY <1>2, <1>5
  <2>2. Ordered(groups[n]) /\ ToSet(groups[n]) \subseteq Before(q, i)
    BY <2>1 DEF Partial
  <2>3. Ordered(last) /\ ToSet(last) = ToSet(groups[n]) \cup {t}
    BY <1>1, <1>4, <2>2, AppendOrdered
  <2>4. Join(groups, t) = joined
    BY <1>5 DEF Join
  <2>5. last \in Seq(Trace)
    BY <2>3 DEF Ordered
  <2> HIDE DEF last
  <2>6. joined \in Seq(Seq(Trace)) /\ DOMAIN joined = DOMAIN groups /\ joined[n] = last
    BY <1>2, <2>1, <2>5
  <2>7. \A k \in DOMAIN groups : k # n => joined[k] = groups[k]
    BY <1>2
  <2> HIDE DEF joined
  <2>8. ASSUME NEW k \in DOMAIN joined
        PROVE  Ordered(joined[k]) /\ ToSet(joined[k]) \subseteq Before(q, i + 1)
    <3>1. CASE k = n
      BY <1>3, <2>2, <2>3, <2>6, <3>1
    <3>2. CASE k # n
      BY <1>3, <2>6, <2>7, <3>2 DEF Partial
    <3> QED BY <3>1, <3>2
  <2> QED BY <2>4, <2>6, <2>8 DEF Partial, t
<1>6. CASE ~ (groups # <<>> /\ StartOf[t] - StartOf[Last(groups)[1]] <= Window)
  <2> DEFINE joined == Append(groups, <<t>>)
  <2>1. Join(groups, t) = joined
    BY <1>6 DEF Join
  <2>2. Ordered(<<t>>) /\ ToSet(<<t>>) = {t}
    BY <1>1 DEF Ordered, ToSet
  <2>3. /\ joined \in Seq(Seq(Trace)) /\ DOMAIN joined = 1 .. n + 1
        /\ joined[n + 1] = <<t>> /\ \A k \in 1 .. n : joined[k] = groups[k]
    BY <1>1, <1>2
  <2> HIDE DEF joined
  <2>4. ASSUME NEW k \in DOMAIN joined
        PROVE  Ordered(joined[k]) /\ ToSet(joined[k]) \subseteq Before(q, i + 1)
    <3>1. CASE k = n + 1
      BY <1>3, <2>2, <2>3, <3>1
    <3>2. CASE k # n + 1
      <4>1. k \in DOMAIN groups /\ joined[k] = groups[k]
        BY <1>2, <2>3, <3>2
      <4> QED BY <1>3, <4>1 DEF Partial
    <3> QED BY <3>1, <3>2
  <2> QED BY <2>1, <2>3, <2>4 DEF Partial, t
<1> QED BY <1>5, <1>6

(* build: every group is in the order of the starts.                       *)
LEMMA GroupsOrdered ==
    ASSUME NEW q, Ordered(q)
    PROVE  Groups(q) \in Seq(Seq(Trace)) /\ \A k \in DOMAIN Groups(q) : Ordered(Groups(q)[k])
<1> DEFINE S == Seq(Seq(Trace))
           F == [x \in Nat \X S |-> IF x[1] + 1 \in DOMAIN q THEN Join(x[2], q[x[1] + 1]) ELSE x[2]]
           L == Len(q)
<1>1. q \in Seq(Trace) /\ L \in Nat /\ DOMAIN q = 1 .. L
  BY DEF Ordered
<1>2. ASSUME NEW s \in S, NEW t \in Trace PROVE Join(s, t) \in S
  <2>1. CASE s # <<>> /\ StartOf[t] - StartOf[Last(s)[1]] <= Window
    <3>1. Len(s) \in DOMAIN s /\ Append(s[Len(s)], t) \in Seq(Trace)
      BY <2>1
    <3> QED BY <2>1, <3>1 DEF Join
  <2>2. CASE ~ (s # <<>> /\ StartOf[t] - StartOf[Last(s)[1]] <= Window)
    BY <2>2 DEF Join
  <2> QED BY <2>1, <2>2
<1> HIDE DEF L
<1>3. /\ F \in [Nat \X S -> S]
      /\ \A n \in Nat, s \in S : n + 1 \in 1 .. L => F[<<n, s>>] = Join(s, q[n + 1])
  <2>0. \A n \in Nat : n + 1 \in DOMAIN q => q[n + 1] \in Trace
    BY <1>1
  <2> HIDE DEF S
  <2> QED BY <1>1, <1>2, <2>0
<1>4. <<>> \in S
  OBVIOUS
<1> HIDE DEF F, S
<1>5. PICK f : Iterates(f, S, <<>>, F)
  BY <1>3, <1>4, Iteration
<1> DEFINE g == [i \in 0 .. L |-> f[i]]
           Upto == CHOOSE h : h = [i \in 0 .. L |-> IF i = 0 THEN <<>> ELSE Join(h[i - 1], q[i])]
<1>6. g = [i \in 0 .. L |-> IF i = 0 THEN <<>> ELSE Join(g[i - 1], q[i])]
  <2>1. ASSUME NEW i \in 0 .. L, i # 0 PROVE f[i] = Join(g[i - 1], q[i])
    <3>1. i - 1 \in Nat /\ i - 1 \in 0 .. L /\ (i - 1) + 1 = i /\ i \in 1 .. L
      BY <1>1, <2>1
    <3>2. f[i - 1] \in S /\ f[(i - 1) + 1] = F[<<i - 1, f[i - 1]>>]
      BY <1>5, <3>1 DEF Iterates
    <3> QED BY <1>3, <3>1, <3>2
  <2>2. f[0] = <<>>
    BY <1>5 DEF Iterates
  <2> QED BY <2>1, <2>2
<1>7. Upto = [i \in 0 .. L |-> IF i = 0 THEN <<>> ELSE Join(Upto[i - 1], q[i])]
  <2> HIDE DEF g
  <2> QED BY <1>6
<1>8. Groups(q) = Upto[L]
  BY DEF Groups, L
<1> HIDE DEF Upto, g
<1>9. Upto[0] = <<>> /\ \A i \in Nat : i + 1 \in 1 .. L => Upto[i + 1] = Join(Upto[i], q[i + 1])
  <2>1. \A i \in 0 .. L : Upto[i] = IF i = 0 THEN <<>> ELSE Join(Upto[i - 1], q[i])
    BY <1>7, Zenon
  <2>2. ASSUME NEW i \in Nat, i + 1 \in 1 .. L PROVE Upto[i + 1] = Join(Upto[i], q[i + 1])
    <3>1. i + 1 \in 0 .. L /\ i + 1 # 0 /\ (i + 1) - 1 = i
      BY <1>1, <2>2
    <3> QED BY <2>1, <3>1
  <2>3. 0 \in 0 .. L
    BY <1>1
  <2> QED BY <2>1, <2>2, <2>3
<1> DEFINE T == {i \in Nat : i \in 0 .. L => Partial(q, i, Upto[i])}
<1>10. 0 \in T
  <2>1. Partial(q, 0, <<>>)
    BY DEF Partial
  <2> QED BY <1>9, <2>1
<1>11. ASSUME NEW i \in T \cap Nat PROVE i + 1 \in T
  <2>1. SUFFICES ASSUME i + 1 \in 0 .. L PROVE Partial(q, i + 1, Upto[i + 1])
    OBVIOUS
  <2>2. i \in 0 .. L /\ i + 1 \in 1 .. L
    BY <1>1, <2>1
  <2>3. Partial(q, i, Upto[i])
    BY <1>11, <2>2
  <2> HIDE DEF T
  <2> QED BY <1>1, <1>9, <2>2, <2>3, JoinOrdered
<1> HIDE DEF T
<1>12. Nat \subseteq T
  BY <1>10, <1>11, NatSetInduction
<1>13. L \in 0 .. L
  BY <1>1
<1>14. Partial(q, L, Upto[L])
  BY <1>1, <1>12, <1>13 DEF T
<1> QED BY <1>8, <1>14 DEF Partial

(* Two ordered sequences of the same traces are the same, if no two of the *)
(* traces start at one time.                                               *)
LEMMA OrderedOnce ==
    ASSUME NEW g, Ordered(g), NEW i \in DOMAIN g, NEW j \in DOMAIN g, g[i] = g[j]
    PROVE  i = j
<1>1. DOMAIN g = 1 .. Len(g) /\ Len(g) \in Nat
  BY DEF Ordered
<1>2. i < j \/ j < i \/ i = j
  BY <1>1
<1> QED BY <1>2 DEF Ordered

LEMMA OrderedSame ==
    ASSUME NEW g, NEW h, Ordered(g), Ordered(h), ToSet(g) = ToSet(h),
           \A i, j \in DOMAIN g : StartOf[g[i]] = StartOf[g[j]] => i = j
    PROVE  g = h
<1>1. /\ g \in Seq(Trace) /\ DOMAIN g = 1 .. Len(g) /\ Len(g) \in Nat
      /\ h \in Seq(Trace) /\ DOMAIN h = 1 .. Len(h) /\ Len(h) \in Nat
  BY DEF Ordered
<1>2. /\ \A i \in DOMAIN g : \E j \in DOMAIN h : g[i] = h[j]
      /\ \A j \in DOMAIN h : \E i \in DOMAIN g : h[j] = g[i]
  BY DEF ToSet
<1> DEFINE Same(i) == i \in DOMAIN g /\ i \in DOMAIN h => g[i] = h[i]
           T == {n \in Nat : \A i \in 1 .. n : Same(i)}
<1>3. 0 \in T
  OBVIOUS
<1>4. ASSUME NEW n \in T \cap Nat PROVE n + 1 \in T
  <2>1. \A i \in 1 .. n : Same(i)
    BY <1>4
  <2> DEFINE m == n + 1
  <2>2. Same(m)
    <3>1. SUFFICES ASSUME m \in DOMAIN g, m \in DOMAIN h PROVE g[m] = h[m]
      OBVIOUS
    <3>2. PICK j \in DOMAIN h : g[m] = h[j]
      BY <1>2, <3>1
    <3>3. PICK i \in DOMAIN g : h[m] = g[i]
      BY <1>2, <3>1
    <3>4. j >= m
      <4>1. SUFFICES ASSUME j < m PROVE FALSE
        BY <1>1, <3>2
      <4>2. j \in 1 .. n /\ j \in DOMAIN g /\ j # m
        BY <1>1, <3>1, <4>1
      <4>3. g[j] = h[j]
        BY <2>1, <4>2, <3>2
      <4> QED BY <3>1, <3>2, <4>2, <4>3, OrderedOnce
    <3>5. i >= m
      <4>1. SUFFICES ASSUME i < m PROVE FALSE
        BY <1>1, <3>3
      <4>2. i \in 1 .. n /\ i \in DOMAIN h /\ i # m
        BY <1>1, <3>1, <4>1
      <4>3. g[i] = h[i]
        BY <2>1, <4>2, <3>3
      <4> QED BY <3>1, <3>3, <4>2, <4>3, OrderedOnce
    <3>6. CASE j = m
      BY <3>2, <3>6
    <3>7. CASE i = m
      BY <3>3, <3>7
    <3>8. CASE j # m /\ i # m
      <4>1. m < j /\ m < i
        BY <1>1, <3>2, <3>3, <3>4, <3>5, <3>8
      <4>2. StartOf[h[m]] <= StartOf[h[j]] /\ StartOf[g[m]] <= StartOf[g[i]]
        BY <3>1, <4>1 DEF Ordered
      <4>3. StartOf[h[m]] \in Nat /\ StartOf[g[m]] \in Nat
        BY <1>1, <3>1, AggregatorAssumption
      <4>4. StartOf[g[m]] = StartOf[g[i]]
        BY <3>2, <3>3, <4>2, <4>3
      <4> QED BY <3>1, <3>8, <4>4
    <3> QED BY <3>6, <3>7, <3>8
  <2> HIDE DEF Same
  <2> QED BY <1>4, <2>1, <2>2
<1>5. \A i \in Nat \ {0} : Same(i)
  <2> HIDE DEF T
  <2>1. Nat \subseteq T
    BY <1>3, <1>4, NatSetInduction
  <2> HIDE DEF Same
  <2> QED BY <2>1 DEF T
<1>6. Len(g) <= Len(h)
  <2>1. SUFFICES ASSUME Len(h) < Len(g) PROVE FALSE
    BY <1>1
  <2> DEFINE m == Len(h) + 1
  <2>2. m \in DOMAIN g
    BY <1>1, <2>1
  <2>3. PICK j \in DOMAIN h : g[m] = h[j]
    BY <1>2, <2>2
  <2>4. j \in DOMAIN g /\ j # m /\ j \in Nat \ {0}
    BY <1>1, <2>1
  <2>5. g[j] = h[j]
    BY <1>5, <2>3, <2>4
  <2> QED BY <2>2, <2>3, <2>4, <2>5, OrderedOnce
<1>7. Len(h) <= Len(g)
  <2>1. SUFFICES ASSUME Len(g) < Len(h) PROVE FALSE
    BY <1>1
  <2> DEFINE m == Len(g) + 1
  <2>2. m \in DOMAIN h
    BY <1>1, <2>1
  <2>3. PICK j \in DOMAIN g : h[m] = g[j]
    BY <1>2, <2>2
  <2>4. j \in DOMAIN h /\ j # m /\ j \in Nat \ {0}
    BY <1>1, <2>1
  <2>5. g[j] = h[j]
    BY <1>5, <2>3, <2>4
  <2> QED BY <2>2, <2>3, <2>4, <2>5, OrderedOnce
<1>8. Len(g) = Len(h)
  <2>1. \A m, n \in Nat : m <= n /\ n <= m => m = n
    OBVIOUS
  <2> QED BY <1>1, <1>6, <1>7, <2>1, Zenon
<1>9. ASSUME NEW i \in 1 .. Len(g) PROVE g[i] = h[i]
  BY <1>1, <1>5, <1>8
<1> QED BY <1>1, <1>8, <1>9

----------------------------------------------------------------------------
(* The inductive form of SameGroupSameId: what stands in the round, and    *)
(* every id that Tempo took, says only what merge makes of its traces.     *)
GroupInv ==
    /\ IsFiniteSet(recorded)
    /\ dts \in Seq(DTraces) /\ next \in Nat \ {0}
    /\ DOMAIN accepted \subseteq Ids

LEMMA IdStitched == ASSUME NEW d \in DTraces PROVE Id(d) \in Ids
BY DEF DTraces, Ids, Id, Stitched

LEMMA MergedStitched ==
    ASSUME NEW g, g \in Seq(Trace), Ordered(g), NEW d \in Merged(g)
    PROVE  d \in DTraces
<1>1. PICK k \in Elected(g) : d = [start |-> Earliest(g), link |-> k, roots |-> g, txn |-> Unknown]
  BY DEF Merged
<1>2. k \in Links
  <2>1. \A i \in DOMAIN g : LinkOf[g[i]] \in Links
    BY DEF Links
  <2>2. Elected(g) \subseteq {LinkOf[g[i]] : i \in DOMAIN g} \cup {Unknown}
    BY DEF Elected
  <2>3. Unknown \in Links
    BY DEF Links
  <2> QED BY <2>1, <2>2, <2>3
<1>3. Earliest(g) \in Starts
  BY DEF Starts
<1> QED BY <1>1, <1>2, <1>3 DEF DTraces, Stitched

LEMMA BuildOrdered ==
    ASSUME TypeOK, GroupInv, NEW q \in ByStart(gathered)
    PROVE  Ordered(q)
<1> DEFINE n == Cardinality(gathered)
<1>1. IsFiniteSet(gathered) /\ gathered \subseteq Trace
  <2>1. gathered \in SUBSET recorded /\ recorded \subseteq Trace
    BY DEF TypeOK
  <2> QED BY <2>1, FS_Subset DEF GroupInv
<1>2. n \in Nat
  BY <1>1, FS_CardinalityType
<1> HIDE DEF n
<1>3. q \in [1 .. n -> gathered] /\ \A i, j \in 1 .. n : i # j => q[i] # q[j]
  BY DEF ByStart, SetToSeqs, n
<1>4. q \in Seq(Trace) /\ DOMAIN q = 1 .. n
  BY <1>1, <1>2, <1>3
<1>5. \A i, j \in DOMAIN q : i < j => StartOf[q[i]] <= StartOf[q[j]]
  BY DEF ByStart
<1>6. \A i, j \in DOMAIN q : i < j => i # j
  BY <1>2, <1>4
<1> QED BY <1>3, <1>4, <1>5, <1>6 DEF Ordered

LEMMA BuildStitched == ASSUME TypeOK, GroupInv, Build PROVE dts' \in Seq(DTraces)
<1>1. PICK q \in ByStart(gathered) :
         LET groups == Groups(q)
         IN  dts' \in {s \in [DOMAIN groups -> UNION {Merged(groups[i]) : i \in DOMAIN groups}] :
                         \A i \in DOMAIN groups : s[i] \in Merged(groups[i])}
  BY Zenon DEF Build
<1> DEFINE groups == Groups(q)
<1>2. Ordered(q)
  BY BuildOrdered
<1>3. groups \in Seq(Seq(Trace)) /\ \A k \in DOMAIN groups : Ordered(groups[k])
  BY <1>2, GroupsOrdered
<1> HIDE DEF groups
<1>4. PICK s : s = dts'
  OBVIOUS
<1>5. /\ s \in [DOMAIN groups -> UNION {Merged(groups[i]) : i \in DOMAIN groups}]
      /\ \A i \in DOMAIN groups : s[i] \in Merged(groups[i])
  BY <1>1, <1>4 DEF groups
<1>6. \A i \in DOMAIN groups : s[i] \in DTraces
  BY <1>3, <1>5, MergedStitched
<1>7. DOMAIN groups = 1 .. Len(groups) /\ Len(groups) \in Nat
  BY <1>3
<1>8. s \in [1 .. Len(groups) -> DTraces]
  BY <1>5, <1>6, <1>7
<1> QED BY <1>4, <1>7, <1>8

(* matchTxn fills in the transaction and leaves the rest.                  *)
LEMMA MatchStitched == ASSUME TypeOK, GroupInv, Match PROVE dts' \in Seq(DTraces)
<1>1. PICK x \in Governing(dts[next].start) : dts' = [dts EXCEPT ![next].txn = x]
  BY DEF Match
<1>2. x \in Txn \cup {Unknown}
  BY DEF Governing, TypeOK
<1>3. dts \in Seq(DTraces) /\ next \in 1 .. Len(dts)
  BY DEF GroupInv, Match
<1> DEFINE d == dts[next]
           e == [d EXCEPT !.txn = x]
<1>4. d \in DTraces
  BY <1>3
<1>5. dts' = [dts EXCEPT ![next] = e]
  BY <1>1
<1> HIDE DEF d
<1>6. e \in DTraces
  <2>1. d \in [start : Starts, link : Links, roots : Seq(Trace), txn : Txn \cup {Unknown}] /\ Stitched(d)
    BY <1>4 DEF DTraces
  <2>2. /\ e \in [start : Starts, link : Links, roots : Seq(Trace), txn : Txn \cup {Unknown}]
        /\ e.start = d.start /\ e.link = d.link /\ e.roots = d.roots
    BY <1>2, <2>1
  <2> HIDE DEF e
  <2> QED BY <2>1, <2>2 DEF DTraces, Stitched
<1> HIDE DEF e
<1> QED BY <1>3, <1>5, <1>6

(* A push gives Tempo the id of what it pushes, or nothing.                *)
LEMMA PushStitched ==
    ASSUME GroupInv, TypeOK, NEW d \in DTraces,
           Skip(d) \/ Delivered(d) \/ NotSent(d) \/ AnswerLost(d) \/ Refused(d)
    PROVE  DOMAIN accepted' \subseteq Ids
<1>1. DOMAIN accepted' \subseteq DOMAIN accepted \cup {Id(d)}
  BY BumpCounts DEF Skip, Delivered, NotSent, AnswerLost, Refused, tempo, TypeOK
<1> QED BY <1>1, IdStitched DEF GroupInv

LEMMA GroupInvStays == TypeOK /\ GroupInv /\ [AggNext]_aggVars => GroupInv'
<1> SUFFICES ASSUME TypeOK, GroupInv, [AggNext]_aggVars PROVE GroupInv'
  OBVIOUS
<1> USE DEF env, loop, tempo
<1>1. CASE Tick \/ PollTxns \/ Publish \/ UNCHANGED aggVars
  BY <1>1 DEF GroupInv, Tick, PollTxns, Publish, aggVars
<1>9. CASE Sleep
  BY <1>9 DEF GroupInv, Sleep
<1>2. ASSUME NEW t \in Trace, Record(t) \/ Forget(t) PROVE GroupInv'
  <2>1. IsFiniteSet(recorded')
    BY <1>2, FS_AddElement DEF GroupInv, Record, Forget
  <2> QED BY <1>2, <2>1 DEF GroupInv, Record, Forget
<1>3. ASSUME NEW x \in Txn, Anchor(x) PROVE GroupInv'
  BY <1>3 DEF GroupInv, Anchor
<1>4. ASSUME NEW n \in Polled, Ask(n) PROVE GroupInv'
  BY <1>4 DEF GroupInv, Ask
<1>5. CASE Build
  BY <1>5, BuildStitched DEF GroupInv, Build
<1>6. CASE Match
  <2>1. next' = next + 1 /\ recorded' = recorded /\ accepted' = accepted
    BY <1>6 DEF Match
  <2>2. dts' \in Seq(DTraces)
    BY <1>6, MatchStitched
  <2> QED BY <2>1, <2>2 DEF GroupInv
<1>7. CASE Push
  <2> DEFINE d == dts[next]
  <2>1. Skip(d) \/ Delivered(d) \/ NotSent(d) \/ AnswerLost(d) \/ Refused(d)
    BY <1>7 DEF Push
  <2>2. d \in DTraces
    BY <1>7 DEF Push, GroupInv
  <2> HIDE DEF d
  <2>3. DOMAIN accepted' \subseteq Ids
    BY <2>1, <2>2, PushStitched
  <2> QED BY <1>7, <2>3 DEF Push, GroupInv
<1>8. CASE Restart
  BY <1>8 DEF Restart, GroupInv
<1> QED BY <1>1, <1>2, <1>3, <1>4, <1>5, <1>6, <1>7, <1>8, <1>9 DEF AggNext, Loop

(* An id is made of the stitched traces alone (main.go:414): the same      *)
(* traces, with distinct starts and one elected link, have one id, in      *)
(* whatever round, with whatever transaction and after whatever restarts.  *)
THEOREM GroupIsId == AggSpec => []SameGroupSameId
<1>1. AggInit => GroupInv
  BY FS_EmptySet DEF AggInit, GroupInv
<1>2. GroupInv => SameGroupSameId
  <2> SUFFICES ASSUME GroupInv, NEW a \in DOMAIN accepted, NEW b \in DOMAIN accepted,
                      ToSet(a.roots) = ToSet(b.roots), Decided(a.roots)
               PROVE  a = b
    BY DEF SameGroupSameId
  <2>1. a \in Ids /\ b \in Ids
    BY DEF GroupInv
  <2>2. a.roots = b.roots
    BY <2>1, OrderedSame DEF Ids, Stitched, Decided
  <2>3. a.start = b.start /\ a.link = b.link
    BY <2>1, <2>2 DEF Ids, Stitched, Decided
  <2> QED BY <2>1, <2>2, <2>3 DEF Ids
<1> QED BY <1>1, <1>2, GroupInvStays, TypeCorrect, PTL DEF AggSpec

(***************************************************************************)
(* The path-trace exporter.                                                *)
(***************************************************************************)
Known == UNION {n.routes \cup n.spare : n \in Networks}
Values == {None} \cup {r.nh : r \in Known} \cup {r.push : r \in Known}
LeafWrite == [node : Node, leaf : Leaf, value : Values]

Typed ==
    /\ net \in Networks
    /\ aft \in [Node -> [Leaf -> Values]]
    /\ work \in Seq(LeafWrite)
    /\ ip2node \in [Addr -> Node \cup {None}]
    /\ at \in Node
    /\ held \in [Leaf -> SUBSET Values]
    /\ filed \in [Node -> SUBSET (Vrf \X Prefix)]
    /\ raced \in Nat /\ faults \in Nat

(* The ingester deletes no next hop of a route that FPM has not taken back. *)
Hop(v, p) == <<"nh", v, p>>

Rewritten(n, v, p) ==
    \A i \in 1 .. Len(work) :
        work[i].node = n /\ work[i].leaf = Hop(v, p) => work[i].value # None

FiledIsShown ==
    \A n \in Node, v \in Vrf, p \in Prefix :
        <<v, p>> \in filed[n] => aft[n][Hop(v, p)] # None /\ Rewritten(n, v, p)

(* A route is filed by its last leaf; its next hop is there by then.       *)
HopComes ==
    LET w == work[Len(work)] IN
    work # <<>> /\ w.value # None =>
        /\ Rewritten(w.node, w.leaf[2], w.leaf[3])
        /\ \/ aft[w.node][Hop(w.leaf[2], w.leaf[3])] # None
           \/ \E i \in 1 .. Len(work) : /\ work[i].node = w.node
                                        /\ work[i].leaf = Hop(w.leaf[2], w.leaf[3])

(* During a Get: what was read, and a route that was there all the time.   *)
Stood(v, p) ==
    v \in Vrf /\ p \in Covers /\ <<v, p>> \in filed[at] /\ None \notin held[Hop(v, p)]

GetSees ==
    pc = "asked" =>
        /\ raced = 0 => work = <<>> /\ \A l \in Leaf : held[l] = {aft[at][l]}
        /\ ~gap /\ raced <= 1 => \E v, p : Stood(v, p)

GetInv == FiledIsShown /\ HopComes /\ GetSees

LEMMA RouteTypes ==
    ASSUME Typed, NEW r \in net.routes \cup net.spare
    PROVE  /\ r.node \in Node /\ r.vrf \in Vrf /\ r.prefix \in Prefix /\ r.nh # None
           /\ \A kind \in {"nh", "push"}, value \in {None, r.nh, r.push} :
                 Write(r, kind, value) \in LeafWrite
<1>1. /\ r.node \in Node /\ r.vrf \in Vrf /\ r.prefix \in Prefix /\ r.nh # None
      /\ r \in Known
  BY NetworkAssumption DEF Typed, Known
<1>2. {None, r.nh, r.push} \subseteq Values
  BY <1>1 DEF Values
<1>3. \A kind \in {"nh", "push"} : RouteLeaf(r, kind) \in Leaf
  BY <1>1 DEF RouteLeaf, Leaf
<1> QED BY <1>1, <1>2, <1>3 DEF Write, LeafWrite

(* The two leaf writes of a message.                                       *)
LEMMA TwoWrites ==
    ASSUME Typed, NEW r \in net.routes \cup net.spare,
           NEW q, q = Writes(r) \/ q = Deletes(r)
    PROVE  /\ q \in Seq(LeafWrite) /\ Len(q) = 2 /\ q # <<>>
           /\ q[1] \in LeafWrite /\ q[2] \in LeafWrite
<1> DEFINE W(kind, value) == Write(r, kind, value)
<1>1. \A kind \in {"nh", "push"}, value \in {None, r.nh, r.push} : W(kind, value) \in LeafWrite
  BY RouteTypes
<1>2. \/ q = <<W("push", None), W("nh", r.nh)>> \/ q = <<W("nh", r.nh), W("push", r.push)>>
      \/ q = <<W("nh", None), W("push", None)>>
  BY DEF Writes, Deletes
<1>3. /\ W("push", None) \in LeafWrite /\ W("nh", r.nh) \in LeafWrite
      /\ W("push", r.push) \in LeafWrite /\ W("nh", None) \in LeafWrite
  BY <1>1
<1> HIDE DEF W
<1>4. \A a, b \in LeafWrite : q = <<a, b>> =>
         /\ q \in Seq(LeafWrite) /\ Len(q) = 2 /\ q # <<>>
         /\ q[1] \in LeafWrite /\ q[2] \in LeafWrite
  OBVIOUS
<1> QED BY <1>2, <1>3, <1>4

LEMMA TailParts ==
    ASSUME NEW S, NEW s \in Seq(S), s # <<>>
    PROVE  /\ Len(s) \in Nat \ {0} /\ Head(s) = s[1]
           /\ \A i \in 1 .. Len(s) : s[i] \in S
           /\ Tail(s) \in Seq(S) /\ Len(Tail(s)) = Len(s) - 1
           /\ \A i \in 1 .. Len(s) - 1 : Tail(s)[i] = s[i + 1]
OBVIOUS

(* The end of a round, whatever it found.                                  *)
Round ==
    /\ at' \in Node /\ pc' # "asked" /\ held' = [l \in Leaf |-> {}]
    /\ UNCHANGED <<tableVars, ip2node, filed, gap, raced>>

LEMMA GoEndsRound ==
    ASSUME Typed, NEW hop, NEW labels, Go(hop, labels)
    PROVE  Round /\ pc' # "noRoute"
<1>1. CASE hop \in Addr /\ ip2node[hop] # None
  BY <1>1 DEF Go, Settle, Round, Typed
<1>2. CASE ~ (hop \in Addr /\ ip2node[hop] # None)
  BY <1>2 DEF Go, Settle, Round, Typed
<1> QED BY <1>1, <1>2

LEMMA MplsEndsRound ==
    ASSUME Typed, MplsHop
    PROVE  Round /\ pc' # "noRoute" /\ UNCHANGED faults
<1> DEFINE key == <<at, Head(stack)>>
           e == net.lfib[key]
<1>1. \/ Settle("noLabel", at, <<>>)
      \/ Go(e.nh, e.out \o Tail(stack))
      \/ Settle("walk", at, Tail(stack))
  BY Zenon DEF MplsHop
<1>2. UNCHANGED faults
  BY DEF MplsHop
<1> HIDE DEF key, e
<1> QED BY <1>1, <1>2, GoEndsRound DEF Settle, Round, Typed

LEMMA IpEndsRound ==
    ASSUME Typed, IpHop
    PROVE  Round /\ UNCHANGED faults
<1>1. \/ \E hop, labels : Go(hop, labels)
      \/ Settle("noRoute", at, <<>>)
  BY Zenon DEF IpHop
<1>2. UNCHANGED faults
  BY DEF IpHop
<1> QED BY <1>1, <1>2, GoEndsRound DEF Settle, Round, Typed

LEMMA NoAnswerEndsRound ==
    ASSUME Typed, NoAnswer
    PROVE  Round /\ faults' = faults + 1
BY DEF NoAnswer, Settle, Fault, Round, Typed

(* A leaf write keeps the next hop of every route the ingester rewrites.   *)
LEMMA WriteKeeps ==
    ASSUME Typed, WriteLeaf, NEW n \in Node, NEW v \in Vrf, NEW p \in Prefix,
           Rewritten(n, v, p)
    PROVE  /\ Rewritten(n, v, p)'
           /\ \/ aft[n][Hop(v, p)] # None
              \/ Head(work).node = n /\ Head(work).leaf = Hop(v, p)
              => aft'[n][Hop(v, p)] # None
<1> DEFINE w == Head(work)
<1>1. /\ w = work[1] /\ w \in LeafWrite /\ Len(work) \in Nat \ {0}
      /\ Len(Tail(work)) = Len(work) - 1
      /\ \A i \in 1 .. Len(work) - 1 : Tail(work)[i] = work[i + 1]
  BY TailParts DEF WriteLeaf, Typed
<1>2. work' = Tail(work) /\ aft' = [aft EXCEPT ![w.node][w.leaf] = w.value]
  BY DEF WriteLeaf
<1>3. w.node \in Node /\ w.leaf \in Leaf
  BY <1>1 DEF LeafWrite
<1> HIDE DEF w
<1>4. Rewritten(n, v, p)'
  <2> SUFFICES ASSUME NEW i \in 1 .. Len(work'), work'[i].node = n, work'[i].leaf = Hop(v, p)
               PROVE  work'[i].value # None
    BY DEF Rewritten, Hop
  <2>1. i + 1 \in 1 .. Len(work) /\ work'[i] = work[i + 1]
    BY <1>1, <1>2
  <2> QED BY <2>1 DEF Rewritten
<1>5. w.node = n /\ w.leaf = Hop(v, p) => w.value # None
  BY <1>1 DEF Rewritten
<1>6. Hop(v, p) \in Leaf
  BY DEF Hop, Leaf
<1>7. aft'[n][Hop(v, p)] =
        IF w.node = n /\ w.leaf = Hop(v, p) THEN w.value ELSE aft[n][Hop(v, p)]
  BY <1>2, <1>3, <1>6 DEF Typed
<1> QED BY <1>4, <1>5, <1>7 DEF w

(* Message chooses one route.                                              *)
LEMMA MessageWrites ==
    ASSUME Typed, Message
    PROVE  \E r \in net.routes \cup net.spare :
              \/ work' = Writes(r) /\ filed' = filed
              \/ /\ work' = Deletes(r)
                 /\ filed' = [filed EXCEPT ![r.node] = @ \ {<<r.vrf, r.prefix>>}]
BY Zenon DEF Message

----------------------------------------------------------------------------
LEMMA InitTyped == Init => Typed
<1> SUFFICES ASSUME Init PROVE Typed
  OBVIOUS
<1> USE DEF Init
<1>1. /\ net \in Networks /\ ip2node \in [Addr -> Node \cup {None}]
      /\ held \in [Leaf -> SUBSET Values] /\ raced \in Nat /\ faults \in Nat
  OBVIOUS
<1>2. at \in Node
  BY <1>1, NetworkAssumption
<1>3. \A n \in Node, l \in Leaf : Shown(net.routes, n)[l] \in Values
  <2> SUFFICES ASSUME NEW n \in Node, NEW l \in Leaf PROVE Shown(net.routes, n)[l] \in Values
    OBVIOUS
  <2> DEFINE here == {r \in net.routes : r.node = n /\ <<r.vrf, r.prefix>> = <<l[2], l[3]>>}
             chosen == CHOOSE r \in here : TRUE
  <2>1. CASE here = {}
    BY <2>1 DEF Shown, Values
  <2>2. CASE here # {}
    <3>1. chosen \in here
      BY <2>2
    <3>2. chosen \in Known
      BY <1>1, <3>1 DEF Known
    <3>3. {None, chosen.nh, chosen.push} \subseteq Values
      BY <3>2 DEF Values
    <3>4. Shown(net.routes, n)[l] \in {None, chosen.nh, chosen.push}
      BY <2>2 DEF Shown
    <3> QED BY <3>3, <3>4
  <2> QED BY <2>1, <2>2
<1>4. aft \in [Node -> [Leaf -> Values]]
  <2>1. \A n \in Node : Shown(net.routes, n) \in [Leaf -> Values]
    BY <1>3 DEF Shown
  <2> QED BY <2>1
<1>5. filed \in [Node -> SUBSET (Vrf \X Prefix)]
  BY <1>1, NetworkAssumption
<1>6. work \in Seq(LeafWrite)
  OBVIOUS
<1> QED BY <1>1, <1>2, <1>4, <1>5, <1>6 DEF Typed

LEMMA TypedStays == Typed /\ [Next]_vars => Typed'
<1> SUFFICES ASSUME Typed, [Next]_vars PROVE Typed'
  OBVIOUS
<1>1. CASE Message
  <2>1. PICK r \in net.routes \cup net.spare :
           /\ work' = Writes(r) \/ work' = Deletes(r)
           /\ \/ filed' = filed
              \/ filed' = [filed EXCEPT ![r.node] = @ \ {<<r.vrf, r.prefix>>}]
    BY <1>1, MessageWrites
  <2>2. work' \in Seq(LeafWrite)
    BY <2>1, TwoWrites
  <2>3. filed' \in [Node -> SUBSET (Vrf \X Prefix)]
    BY <2>1 DEF Typed
  <2> QED BY <1>1, <2>2, <2>3 DEF Message, walkVars, Typed
<1>2. CASE WriteLeaf
  <2> DEFINE w == Head(work)
  <2>1. w \in LeafWrite /\ Tail(work) \in Seq(LeafWrite)
    BY <1>2, TailParts DEF WriteLeaf, Typed
  <2>2. w.node \in Node /\ w.leaf \in Leaf /\ w.value \in Values
    BY <2>1 DEF LeafWrite
  <2>3. /\ aft' = [aft EXCEPT ![w.node][w.leaf] = w.value]
        /\ work' = Tail(work)
        /\ held' = held \/ held' = [held EXCEPT ![w.leaf] = @ \cup {w.value}]
        /\ \/ filed' = filed
           \/ filed' = [filed EXCEPT ![w.node] = @ \cup {<<w.leaf[2], w.leaf[3]>>}]
        /\ UNCHANGED <<net, ip2node, at, raced, faults>>
    BY <1>2 DEF WriteLeaf, walkVars
  <2> HIDE DEF w
  <2>4. aft' \in [Node -> [Leaf -> Values]] /\ held' \in [Leaf -> SUBSET Values]
    BY <2>2, <2>3 DEF Typed
  <2>5. <<w.leaf[2], w.leaf[3]>> \in Vrf \X Prefix
    BY <2>2 DEF Leaf
  <2>6. filed' \in [Node -> SUBSET (Vrf \X Prefix)]
    BY <2>2, <2>3, <2>5 DEF Typed
  <2> QED BY <2>1, <2>3, <2>4, <2>6 DEF Typed
<1>3. CASE Begin
  <2>1. net.start \in Node /\ net.owner \in [Addr -> Node]
    BY NetworkAssumption DEF Typed
  <2>2. ip2node' \in [Addr -> Node \cup {None}] /\ faults' \in Nat
    BY <1>3, <2>1 DEF Begin, Fault, Typed
  <2> QED BY <1>3, <2>1, <2>2 DEF Begin, tableVars, Typed
<1>4. CASE Look
  <2>1. held' \in [Leaf -> SUBSET Values]
    <3>1. \A l \in Leaf : {aft[at][l]} \in SUBSET Values
      BY DEF Typed
    <3>2. held' = [l \in Leaf |-> {aft[at][l]}] \/ held' = held
      BY <1>4 DEF Look
    <3> QED BY <3>1, <3>2 DEF Typed
  <2> QED BY <1>4, <2>1 DEF Look, tableVars, Typed
<1>5. CASE Round /\ faults' \in Nat
  BY <1>5 DEF Round, tableVars, Typed
<1>6. CASE UNCHANGED vars
  BY <1>6 DEF vars, tableVars, walkVars, Typed
<1>7. CASE MplsHop \/ IpHop \/ NoAnswer
  <2>1. Round /\ faults' \in {faults, faults + 1}
    BY <1>7, MplsEndsRound, IpEndsRound, NoAnswerEndsRound
  <2> QED BY <1>5, <2>1 DEF Typed
<1> QED BY <1>1, <1>2, <1>3, <1>4, <1>6, <1>7 DEF Next, Walk

----------------------------------------------------------------------------
LEMMA InitFiled == Init => GetInv
<1> SUFFICES ASSUME Init PROVE GetInv
  OBVIOUS
<1>1. Typed
  BY InitTyped
<1>2. FiledIsShown
  <2> SUFFICES ASSUME NEW n \in Node, NEW v \in Vrf, NEW p \in Prefix, <<v, p>> \in filed[n]
               PROVE  aft[n][Hop(v, p)] # None /\ Rewritten(n, v, p)
    BY DEF FiledIsShown
  <2> DEFINE here == {r \in net.routes : r.node = n /\ <<r.vrf, r.prefix>> = <<v, p>>}
             chosen == CHOOSE r \in here : TRUE
  <2>1. here # {}
    BY DEF Init
  <2>2. chosen \in net.routes
    BY <2>1
  <2>3. chosen.nh # None
    BY <1>1, <2>2, NetworkAssumption DEF Typed
  <2>4. Hop(v, p) \in Leaf /\ Hop(v, p)[1] = "nh" /\ Hop(v, p)[2] = v /\ Hop(v, p)[3] = p
    BY DEF Hop, Leaf
  <2>5. Shown(net.routes, n)[Hop(v, p)] = chosen.nh
    BY <2>1, <2>4 DEF Shown
  <2>6. aft[n] = Shown(net.routes, n)
    BY DEF Init
  <2>7. Rewritten(n, v, p)
    BY DEF Init, Rewritten
  <2> QED BY <2>3, <2>5, <2>6, <2>7
<1>3. HopComes /\ GetSees
  BY DEF Init, HopComes, GetSees
<1> QED BY <1>2, <1>3 DEF GetInv

(* A message deletes the next hop of no route that it leaves filed, and its *)
(* last write has a value only if a next hop comes with it.                *)
LEMMA MessageFiles ==
    ASSUME Typed, FiledIsShown, Message
    PROVE  /\ \A n \in Node, v \in Vrf, p \in Prefix :
                 <<v, p>> \in filed'[n] => <<v, p>> \in filed[n] /\ Rewritten(n, v, p)'
           /\ HopComes'
<1>1. PICK r \in net.routes \cup net.spare :
         \/ work' = Writes(r) /\ filed' = filed
         \/ /\ work' = Deletes(r)
            /\ filed' = [filed EXCEPT ![r.node] = @ \ {<<r.vrf, r.prefix>>}]
  BY MessageWrites
<1>2. /\ r.node \in Node /\ r.vrf \in Vrf /\ r.prefix \in Prefix /\ r.nh # None
  BY RouteTypes
<1>3. CASE work' = Writes(r) /\ filed' = filed
  <2>1. \/ work' = <<Write(r, "push", None), Write(r, "nh", r.nh)>>
        \/ work' = <<Write(r, "nh", r.nh), Write(r, "push", r.push)>>
    BY <1>3 DEF Writes
  <2>2. /\ Len(work') = 2 /\ work' # <<>>
        /\ \/ work'[1] = Write(r, "push", None) /\ work'[2] = Write(r, "nh", r.nh)
           \/ work'[1] = Write(r, "nh", r.nh) /\ work'[2] = Write(r, "push", r.push)
    BY <2>1
  <2>3. \A n \in Node, v \in Vrf, p \in Prefix : Rewritten(n, v, p)'
    <3> SUFFICES ASSUME NEW n \in Node, NEW v \in Vrf, NEW p \in Prefix,
                        NEW i \in 1 .. Len(work'), work'[i].node = n, work'[i].leaf = Hop(v, p)
                 PROVE  work'[i].value # None
      BY DEF Rewritten, Hop
    <3>1. i \in {1, 2}
      BY <2>2
    <3> QED BY <1>2, <2>2, <3>1 DEF Write, RouteLeaf, Hop
  <2>4. \E i \in 1 .. Len(work') : work'[i] = Write(r, "nh", r.nh)
    BY <2>2
  <2>5. /\ work'[2].node = r.node /\ work'[2].leaf[2] = r.vrf /\ work'[2].leaf[3] = r.prefix
    BY <2>2 DEF Write, RouteLeaf
  <2>6. HopComes'
    BY <1>2, <2>2, <2>3, <2>4, <2>5 DEF HopComes, Write, RouteLeaf, Hop
  <2> QED BY <1>3, <2>3, <2>6
<1>4. CASE /\ work' = Deletes(r)
           /\ filed' = [filed EXCEPT ![r.node] = @ \ {<<r.vrf, r.prefix>>}]
  <2>1. /\ Len(work') = 2 /\ work' # <<>>
        /\ work'[1] = Write(r, "nh", None) /\ work'[2] = Write(r, "push", None)
    BY <1>4 DEF Deletes
  <2>2. HopComes'
    BY <2>1 DEF HopComes, Write
  <2>3. ASSUME NEW n \in Node, NEW v \in Vrf, NEW p \in Prefix, <<v, p>> \in filed'[n]
        PROVE  <<v, p>> \in filed[n] /\ Rewritten(n, v, p)'
    <3>1. <<v, p>> \in filed[n] /\ ~ (n = r.node /\ v = r.vrf /\ p = r.prefix)
      BY <1>2, <1>4, <2>3 DEF Typed
    <3>2. Rewritten(n, v, p)'
      <4> SUFFICES ASSUME NEW i \in 1 .. Len(work'), work'[i].node = n, work'[i].leaf = Hop(v, p)
                   PROVE  FALSE
        BY DEF Rewritten, Hop
      <4>1. i \in {1, 2}
        BY <2>1
      <4> QED BY <2>1, <3>1, <4>1 DEF Write, RouteLeaf, Hop
    <3> QED BY <3>1, <3>2
  <2> QED BY <2>2, <2>3
<1> QED BY <1>1, <1>3, <1>4

(* The last write of a route files it; its next hop stands by then.        *)
LEMMA WriteFiles ==
    ASSUME Typed, FiledIsShown, HopComes, WriteLeaf
    PROVE  FiledIsShown' /\ HopComes'
<1> DEFINE w == Head(work)
<1>1. /\ w = work[1] /\ w \in LeafWrite /\ Len(work) \in Nat \ {0}
      /\ \A i \in 1 .. Len(work) : work[i] \in LeafWrite
      /\ Tail(work) \in Seq(LeafWrite) /\ Len(Tail(work)) = Len(work) - 1
      /\ \A i \in 1 .. Len(work) - 1 : Tail(work)[i] = work[i + 1]
  BY TailParts DEF WriteLeaf, Typed
<1>2. /\ work # <<>> /\ work' = Tail(work)
      /\ aft' = [aft EXCEPT ![w.node][w.leaf] = w.value]
      /\ filed' = IF Len(work) = 1 /\ w.value # None
                  THEN [filed EXCEPT ![w.node] = @ \cup {<<w.leaf[2], w.leaf[3]>>}]
                  ELSE filed
  BY DEF WriteLeaf
<1>3. \A x \in LeafWrite : x.node \in Node /\ x.leaf[2] \in Vrf /\ x.leaf[3] \in Prefix
  BY DEF LeafWrite, Leaf
<1> HIDE DEF w
<1>4. ASSUME NEW n \in Node, NEW v \in Vrf, NEW p \in Prefix, <<v, p>> \in filed'[n]
      PROVE  aft'[n][Hop(v, p)] # None /\ Rewritten(n, v, p)'
  <2>1. CASE <<v, p>> \in filed[n]
    BY <2>1, WriteKeeps DEF FiledIsShown
  <2>2. CASE <<v, p>> \notin filed[n]
    <3>1. /\ Len(work) = 1 /\ w.value # None /\ n = w.node
          /\ v = w.leaf[2] /\ p = w.leaf[3]
      BY <1>1, <1>2, <1>3, <1>4, <2>2 DEF Typed
    <3>2. work[Len(work)] = w
      BY <1>1, <3>1
    <3>3. /\ Rewritten(n, v, p)
          /\ aft[n][Hop(v, p)] # None \/ (w.node = n /\ w.leaf = Hop(v, p))
      BY <1>1, <1>2, <3>1, <3>2 DEF HopComes
    <3> QED BY <3>3, WriteKeeps DEF w
  <2> QED BY <2>1, <2>2
<1>5. ASSUME work' # <<>>, work'[Len(work')].value # None
      PROVE  HopComes'
  <2> DEFINE x == work[Len(work)]
  <2>1. /\ Len(work') \in Nat \ {0} /\ Len(work') = Len(work) - 1 /\ work'[Len(work')] = x
        /\ x \in LeafWrite
    BY <1>1, <1>2, <1>5
  <2>2. PICK n \in Node, v \in Vrf, p \in Prefix : n = x.node /\ v = x.leaf[2] /\ p = x.leaf[3]
    BY <1>3, <2>1
  <2>3. /\ Rewritten(n, v, p)
        /\ \/ aft[n][Hop(v, p)] # None
           \/ \E i \in 1 .. Len(work) : work[i].node = n /\ work[i].leaf = Hop(v, p)
    BY <1>2, <1>5, <2>1, <2>2 DEF HopComes
  <2>4. /\ Rewritten(n, v, p)'
        /\ \/ aft[n][Hop(v, p)] # None \/ (w.node = n /\ w.leaf = Hop(v, p))
           => aft'[n][Hop(v, p)] # None
    BY <2>3, WriteKeeps DEF w
  <2>5. \/ aft'[n][Hop(v, p)] # None
        \/ \E i \in 1 .. Len(work') : work'[i].node = n /\ work'[i].leaf = Hop(v, p)
    <3>1. CASE \/ aft[n][Hop(v, p)] # None
               \/ w.node = n /\ w.leaf = Hop(v, p)
      BY <2>4, <3>1
    <3>2. ASSUME NEW i \in 1 .. Len(work), work[i].node = n, work[i].leaf = Hop(v, p), i # 1
          PROVE  \E j \in 1 .. Len(work') : work'[j].node = n /\ work'[j].leaf = Hop(v, p)
      <4>1. i - 1 \in 1 .. Len(work') /\ work'[i - 1] = work[i]
        BY <1>1, <1>2, <2>1, <3>2
      <4> QED BY <3>2, <4>1
    <3> QED BY <1>1, <2>3, <3>1, <3>2
  <2>6. x.node = n /\ x.leaf[2] = v /\ x.leaf[3] = p
    BY <2>2
  <2> HIDE DEF x
  <2> QED BY <2>1, <2>4, <2>5, <2>6 DEF HopComes
<1> QED BY <1>4, <1>5 DEF FiledIsShown, HopComes

LEMMA IInvStays == Typed /\ GetInv /\ [Next]_vars => GetInv'
<1> SUFFICES ASSUME Typed, GetInv, [Next]_vars PROVE GetInv'
  OBVIOUS
<1> USE DEF GetInv
<1>1. CASE Message
  <2>1. FiledIsShown'
    <3>1. aft' = aft
      BY <1>1 DEF Message
    <3> QED BY <1>1, <3>1, MessageFiles DEF FiledIsShown
  <2>2. GetSees'
    <3> SUFFICES ASSUME pc' = "asked"
                 PROVE  /\ raced' # 0
                        /\ ~ gap' /\ raced' <= 1 => (\E v, p : Stood(v, p))'
      BY DEF GetSees
    <3>1. /\ work = <<>> /\ raced' = raced + 1 /\ gap' = (gap \/ NoneFiled')
          /\ UNCHANGED <<aft, pc, at, held>>
      BY <1>1 DEF Message, walkVars
    <3>2. ASSUME ~ gap', raced' <= 1 PROVE (\E v, p : Stood(v, p))'
      <4>1. raced = 0 /\ \A l \in Leaf : held[l] = {aft[at][l]}
        BY <3>1, <3>2 DEF GetSees, Typed
      <4>2. PICK v \in Vrf, p \in Covers : <<v, p>> \in filed'[at]
        BY <3>1, <3>2 DEF NoneFiled
      <4>3. p \in Prefix /\ at \in Node
        BY PathAssumption DEF Typed
      <4>4. <<v, p>> \in filed[at]
        BY <1>1, <4>2, <4>3, MessageFiles
      <4>5. aft[at][Hop(v, p)] # None /\ Hop(v, p) \in Leaf
        BY <4>3, <4>4 DEF FiledIsShown, Hop, Leaf
      <4> QED BY <3>1, <4>1, <4>2, <4>5 DEF Stood, Hop
    <3> QED BY <3>1, <3>2 DEF Typed
  <2> QED BY <1>1, <2>1, <2>2, MessageFiles
<1>2. CASE WriteLeaf
  <2> DEFINE w == Head(work)
  <2>1. GetSees'
    <3> SUFFICES ASSUME pc' = "asked"
                 PROVE  /\ raced' # 0
                        /\ ~ gap' /\ raced' <= 1 => (\E v, p : Stood(v, p))'
      BY DEF GetSees
    <3>1. /\ work # <<>> /\ UNCHANGED <<pc, at, gap, raced>>
          /\ held' = IF pc = "asked" /\ w.node = at
                     THEN [held EXCEPT ![w.leaf] = @ \cup {w.value}] ELSE held
          /\ filed' = IF Len(work) = 1 /\ w.value # None
                      THEN [filed EXCEPT ![w.node] = @ \cup {<<w.leaf[2], w.leaf[3]>>}]
                      ELSE filed
      BY <1>2 DEF WriteLeaf, walkVars
    <3>2. w = work[1] /\ 1 \in 1 .. Len(work)
      BY <3>1, TailParts DEF Typed
    <3> HIDE DEF w
    <3>3. raced # 0
      BY <3>1 DEF GetSees
    <3>4. ASSUME ~ gap', raced' <= 1 PROVE (\E v, p : Stood(v, p))'
      <4>1. PICK v, p : Stood(v, p)
        BY <3>1, <3>4 DEF GetSees
      <4>2. v \in Vrf /\ p \in Covers /\ p \in Prefix /\ at \in Node /\ <<v, p>> \in filed[at]
        BY <4>1, PathAssumption DEF Stood, Typed
      <4>3. w.node = at /\ w.leaf = Hop(v, p) => w.value # None
        BY <3>2, <4>2 DEF FiledIsShown, Rewritten
      <4>4. <<v, p>> \in filed'[at]
        BY <3>1, <4>2 DEF Typed
      <4>5. Hop(v, p) \in Leaf
        BY <4>2 DEF Hop, Leaf
      <4>6. None \notin held[Hop(v, p)]
        BY <4>1 DEF Stood
      <4>7. None \notin held'[Hop(v, p)]
        BY <3>1, <4>3, <4>5, <4>6 DEF Typed
      <4> QED BY <3>1, <4>2, <4>4, <4>7 DEF Stood, Hop
    <3> QED BY <3>1, <3>3, <3>4
  <2> QED BY <1>2, <2>1, WriteFiles
<1>3. ASSUME UNCHANGED <<aft, work, filed>>, GetSees' PROVE GetInv'
  BY <1>3 DEF FiledIsShown, Rewritten, HopComes, Hop
<1>4. CASE Begin
  BY <1>3, <1>4 DEF Begin, tableVars, GetSees
<1>5. CASE Look
  <2>1. GetSees'
    <3> SUFFICES ASSUME pc' = "asked" PROVE GetSees'
      BY DEF GetSees
    <3>1. /\ held' = [l \in Leaf |-> {aft[at][l]}] /\ gap' = NoneFiled
          /\ raced' = IF work = <<>> THEN 0 ELSE 1
          /\ UNCHANGED <<aft, work, at, filed>>
      BY <1>5 DEF Look, tableVars
    <3>2. raced' = 0 => work' = <<>> /\ \A l \in Leaf : held'[l] = {aft'[at'][l]}
      BY <3>1
    <3>3. ASSUME ~ gap' PROVE (\E v, p : Stood(v, p))'
      <4>1. PICK v \in Vrf, p \in Covers : <<v, p>> \in filed[at]
        BY <3>1, <3>3 DEF NoneFiled
      <4>2. p \in Prefix /\ at \in Node /\ Hop(v, p) \in Leaf
        BY PathAssumption DEF Typed, Hop, Leaf
      <4>3. aft[at][Hop(v, p)] # None
        BY <4>1, <4>2 DEF FiledIsShown
      <4> QED BY <3>1, <4>1, <4>2, <4>3 DEF Stood, Hop
    <3> QED BY <3>2, <3>3 DEF GetSees
  <2> QED BY <1>3, <1>5, <2>1 DEF Look, tableVars
<1>6. CASE MplsHop \/ IpHop \/ NoAnswer
  <2>1. Round
    BY <1>6, MplsEndsRound, IpEndsRound, NoAnswerEndsRound
  <2> QED BY <1>3, <2>1 DEF Round, tableVars, GetSees
<1>7. CASE UNCHANGED vars
  <2>1. GetSees'
    BY <1>7 DEF vars, tableVars, walkVars, GetSees, Stood, Hop
  <2> QED BY <1>3, <1>7, <2>1 DEF vars, tableVars
<1> QED BY <1>1, <1>2, <1>4, <1>5, <1>6, <1>7 DEF Next, Walk

(* A walk that finds no route read None in every table it could match.     *)
LEMMA NoRouteIsReal ==
    ASSUME Typed, GetSees, IpHop, pc' = "noRoute"
    PROVE  gap \/ raced > 1
<1>1. pc = "asked"
  BY DEF IpHop
<1>2. SUFFICES ASSUME ~ gap, raced <= 1 PROVE FALSE
  <2>1. raced <= 1 \/ raced > 1
    BY DEF Typed
  <2> QED BY <2>1, Zenon
<1>3. PICK v, p : Stood(v, p)
  BY <1>1, <1>2 DEF GetSees
<1>4. \A q \in Covers : MayBeMissing(q)
  <2>1. \/ \E hop, labels : Go(hop, labels)
        \/ \A q \in Covers : MayBeMissing(q)
    BY Zenon DEF IpHop
  <2> QED BY <2>1, GoEndsRound
<1>5. None \in Read("nh", p)
  BY <1>3, <1>4 DEF Stood, MayBeMissing
<1>6. v \in Vrf /\ None \notin held[<<"nh", v, p>>]
  BY <1>3 DEF Stood, Hop
<1> QED BY <1>5, <1>6 DEF Read

(* For any networks, nodes, VRFs, prefixes and bounds: a walk says "no     *)
(* route" only if in some moment of its Get no route was filed, or two     *)
(* changes crossed that Get.                                               *)
THEOREM ReplacedIsNotMissing == Spec => DropIsReal
<1>1. Init => Typed /\ GetInv
  BY InitTyped, InitFiled
<1>2. Typed /\ GetInv /\ [Next]_vars => (Typed /\ GetInv)'
  BY TypedStays, IInvStays
<1>3. Typed /\ GetInv /\ [Next]_vars =>
        [pc' = "noRoute" /\ pc = "asked" /\ faults' = faults => gap \/ raced > 1]_vars
  <2> SUFFICES ASSUME Typed, GetInv, [Next]_vars,
                      pc' = "noRoute", pc = "asked", faults' = faults
               PROVE  gap \/ raced > 1
    OBVIOUS
  <2>1. CASE IpHop
    BY <2>1, NoRouteIsReal DEF GetInv
  <2>2. CASE MplsHop
    BY <2>2, MplsEndsRound
  <2>3. CASE NoAnswer
    BY <2>3, NoAnswerEndsRound DEF Typed
  <2>4. CASE Message \/ WriteLeaf \/ UNCHANGED vars
    <3>1. pc' = pc
      BY <2>4 DEF Message, WriteLeaf, vars, walkVars
    <3> QED BY <3>1
  <2>5. CASE Begin \/ Look
    BY <2>5 DEF Begin, Look, Ends
  <2> QED BY <2>1, <2>2, <2>3, <2>4, <2>5 DEF Next, Walk
<1> QED BY <1>1, <1>2, <1>3, PTL DEF Spec, DropIsReal

----------------------------------------------------------------------------
(* Where packets are, round by round: a packet that is lost stays lost.    *)
LEMMA AfterFacts ==
    ASSUME NEW network, NEW tables
    PROVE  /\ After(network, tables)[0] = {<<network.start, network.from, <<>>>>}
           /\ \A k \in Nat : k < MaxHops =>
                 After(network, tables)[k + 1] = Onward(network, tables, After(network, tables)[k])
<1> DEFINE first == {<<network.start, network.from, <<>>>>}
           Next1(S) == Onward(network, tables, S)
           Rounds(f, n) == f = [k \in 0 .. n |-> IF k = 0 THEN first ELSE Next1(f[k - 1])]
           Far == {n \in Nat : \E f : Rounds(f, n)}
<1> HIDE DEF first, Next1
<1>1. 0 \in Far
  <2>1. Rounds([k \in 0 .. 0 |-> first], 0)
    OBVIOUS
  <2> QED BY <2>1
<1>2. ASSUME NEW n \in Far \cap Nat PROVE n + 1 \in Far
  <2>1. PICK f : Rounds(f, n)
    BY <1>2
  <2> DEFINE g == [k \in 0 .. n + 1 |-> IF k = n + 1 THEN Next1(f[n]) ELSE f[k]]
  <2>2. ASSUME NEW k \in 0 .. n + 1
        PROVE  g[k] = IF k = 0 THEN first ELSE Next1(g[k - 1])
    <3>1. CASE k = n + 1
      <4>1. k # 0 /\ k - 1 = n /\ n \in 0 .. n + 1 /\ n # n + 1
        BY <3>1
      <4>2. g[k - 1] = f[n] /\ g[k] = Next1(f[n])
        BY <3>1, <4>1
      <4> QED BY <4>1, <4>2
    <3>2. CASE k # n + 1
      <4>1. k \in 0 .. n /\ g[k] = f[k]
        BY <3>2
      <4>2. f[k] = IF k = 0 THEN first ELSE Next1(f[k - 1])
        BY <2>1, <4>1
      <4>3. k # 0 => k - 1 \in 0 .. n + 1 /\ k - 1 # n + 1
        BY <4>1
      <4>4. k # 0 => g[k - 1] = f[k - 1]
        BY <4>3
      <4> QED BY <4>1, <4>2, <4>4
    <3> QED BY <3>1, <3>2
  <2>3. Rounds(g, n + 1)
    <3>1. g = [k \in 0 .. n + 1 |-> g[k]]
      OBVIOUS
    <3> HIDE DEF g
    <3> QED BY <2>2, <3>1
  <2> HIDE DEF g, Rounds
  <2> QED BY <2>3
<1>3. Nat \subseteq Far
  <2> HIDE DEF Far
  <2> QED BY <1>1, <1>2, NatSetInduction
<1>4. MaxHops \in Nat
  BY PathAssumption
<1>5. PICK f : Rounds(f, MaxHops)
  BY <1>3, <1>4
<1> DEFINE after == After(network, tables)
<1>6. after = CHOOSE f1 : Rounds(f1, MaxHops)
  BY DEF After, first, Next1
<1>7. Rounds(after, MaxHops)
  <2> HIDE DEF after, Rounds
  <2> QED BY <1>5, <1>6
<1> HIDE DEF after
<1>8. after[0] = first
  BY <1>4, <1>7
<1>9. ASSUME NEW k \in Nat, k < MaxHops PROVE after[k + 1] = Next1(after[k])
  <2>1. k + 1 \in 0 .. MaxHops /\ k + 1 # 0 /\ (k + 1) - 1 = k
    BY <1>4, <1>9
  <2>2. after[k + 1] = IF k + 1 = 0 THEN first ELSE Next1(after[(k + 1) - 1])
    BY <1>7, <2>1
  <2> QED BY <2>1, <2>2
<1> QED BY <1>8, <1>9 DEF after, first, Next1

LEMMA LostStaysLost ==
    ASSUME NEW network, NEW tables, NEW j \in Nat, j <= MaxHops,
           After(network, tables)[j] = {}
    PROVE  \A k \in Nat : j <= k /\ k <= MaxHops => After(network, tables)[k] = {}
<1> DEFINE after == After(network, tables)
           T == {k \in Nat : j <= k /\ k <= MaxHops => after[k] = {}}
<1>1. Onward(network, tables, {}) = {}
  BY DEF Onward
<1>2. \A k \in Nat : k < MaxHops => after[k + 1] = Onward(network, tables, after[k])
  BY AfterFacts
<1>3. after[j] = {}
  OBVIOUS
<1> HIDE DEF after
<1>4. 0 \in T
  <2>1. j <= 0 => j = 0
    OBVIOUS
  <2> QED BY <1>3, <2>1
<1>5. ASSUME NEW k \in T \cap Nat PROVE k + 1 \in T
  <2>1. SUFFICES ASSUME j <= k + 1, k + 1 <= MaxHops PROVE after[k + 1] = {}
    OBVIOUS
  <2>2. CASE j = k + 1
    BY <1>3, <2>2
  <2>3. CASE j # k + 1
    <3>1. j <= k /\ k <= MaxHops /\ k < MaxHops /\ k \in Nat
      BY <2>1, <2>3, PathAssumption
    <3>2. after[k] = {}
      BY <1>5, <3>1
    <3> QED BY <1>1, <1>2, <3>1, <3>2
  <2> QED BY <2>2, <2>3
<1> HIDE DEF T
<1>6. Nat \subseteq T
  BY <1>4, <1>5, NatSetInduction
<1> QED BY <1>6 DEF T, after

LEMMA OnePacket ==
    ASSUME NEW network, NEW tables, NEW n, NEW v, NEW labels,
           ~ Received(network, <<n, v, labels>>)
    PROVE  Onward(network, tables, {<<n, v, labels>>}) = Forwarded(network, tables, n, v, labels)
<1> DEFINE F(c) == Forwarded(network, tables, c[1], c[2], c[3])
           c == <<n, v, labels>>
<1>1. F(c) = Forwarded(network, tables, n, v, labels)
  OBVIOUS
<1>2. {d \in {c} : ~ Received(network, d)} = {c}
  OBVIOUS
<1>3. Onward(network, tables, {c}) = UNION {F(d) : d \in {c}}
  BY <1>2 DEF Onward
<1> HIDE DEF F, c
<1>4. UNION {F(d) : d \in {c}} = F(c)
  OBVIOUS
<1> QED BY <1>1, <1>3, <1>4 DEF c

----------------------------------------------------------------------------
(* The ingester shows labels only next to a next hop, but for the moment   *)
(* between the two deletes of a route.                                     *)
Labels(v, p) == <<"push", v, p>>

Single(r, kind, value) == work = <<Write(r, kind, value)>>

WorkShape ==
    \/ work = <<>>
    \/ \E r \in net.routes \cup net.spare :
          \/ work = Writes(r) \/ work = Deletes(r)
          \/ Single(r, "nh", r.nh) \/ Single(r, "push", None)
          \/ Single(r, "push", r.push) /\ aft[r.node][Hop(r.vrf, r.prefix)] # None

Leaving(n, v, p) ==
    Len(work) = 1 /\ work[1] = [node |-> n, leaf |-> Labels(v, p), value |-> None]

LabelsHaveHop ==
    \A n \in Node, v \in Vrf, p \in Prefix :
        aft[n][Labels(v, p)] # None => aft[n][Hop(v, p)] # None \/ Leaving(n, v, p)

Paired == WorkShape /\ LabelsHaveHop

LEMMA LeafNames ==
    ASSUME NEW v \in Vrf, NEW p \in Prefix
    PROVE  /\ Hop(v, p) \in Leaf /\ Labels(v, p) \in Leaf
           /\ \A w \in Vrf, q \in Prefix :
                 /\ Hop(v, p) # Labels(w, q)
                 /\ (Hop(v, p) = Hop(w, q) => v = w /\ p = q)
                 /\ (Labels(v, p) = Labels(w, q) => v = w /\ p = q)
<1>1. \A k, l \in {"nh", "push"}, w \in Vrf, q \in Prefix :
         <<k, v, p>> = <<l, w, q>> => k = l /\ v = w /\ p = q
  OBVIOUS
<1>2. Hop(v, p) \in Leaf /\ Labels(v, p) \in Leaf
  BY DEF Hop, Labels, Leaf
<1>3. \A w \in Vrf, q \in Prefix : Hop(v, p) # Labels(w, q)
  BY DEF Hop, Labels
<1> QED BY <1>1, <1>2, <1>3 DEF Hop, Labels

(* A write changes one leaf, of the route it is about.                     *)
LEMMA WriteOne ==
    ASSUME Typed, WriteLeaf, NEW r \in net.routes \cup net.spare, NEW kind \in {"nh", "push"},
           NEW value, Head(work) = Write(r, kind, value)
    PROVE  \A n \in Node, l \in Leaf :
              aft'[n][l] = IF n = r.node /\ l = RouteLeaf(r, kind) THEN value ELSE aft[n][l]
<1>1. r.node \in Node /\ RouteLeaf(r, kind) \in Leaf
  BY RouteTypes DEF RouteLeaf, Leaf
<1>2. /\ Head(work).node = r.node /\ Head(work).leaf = RouteLeaf(r, kind)
      /\ Head(work).value = value
  BY DEF Write
<1>3. aft' = [aft EXCEPT ![r.node][RouteLeaf(r, kind)] = value]
  BY <1>2 DEF WriteLeaf
<1> QED BY <1>1, <1>3 DEF Typed

LEMMA InitPaired == Init => Paired
<1> SUFFICES ASSUME Init PROVE Paired
  OBVIOUS
<1>1. ASSUME NEW n \in Node, NEW v \in Vrf, NEW p \in Prefix, aft[n][Labels(v, p)] # None
      PROVE  aft[n][Hop(v, p)] # None
  <2> DEFINE here == {r \in net.routes : r.node = n /\ <<r.vrf, r.prefix>> = <<v, p>>}
             chosen == CHOOSE r \in here : TRUE
  <2>1. /\ Hop(v, p) \in Leaf /\ Hop(v, p)[1] = "nh" /\ Hop(v, p)[2] = v /\ Hop(v, p)[3] = p
        /\ Labels(v, p) \in Leaf /\ Labels(v, p)[2] = v /\ Labels(v, p)[3] = p
    BY DEF Hop, Labels, Leaf
  <2>2. aft[n] = Shown(net.routes, n)
    BY DEF Init
  <2>3. here # {}
    BY <1>1, <2>1, <2>2 DEF Shown
  <2>4. aft[n][Hop(v, p)] = chosen.nh
    BY <2>1, <2>2, <2>3 DEF Shown
  <2>5. chosen \in net.routes
    BY <2>3
  <2> HIDE DEF chosen, here
  <2>6. chosen.nh # None
    BY <2>5, NetworkAssumption DEF Init
  <2> QED BY <2>4, <2>6
<1> QED BY <1>1 DEF Init, Paired, WorkShape, LabelsHaveHop

LEMMA MessagePaired == ASSUME Typed, Paired, Message PROVE Paired'
<1>1. PICK r \in net.routes \cup net.spare : work' = Writes(r) \/ work' = Deletes(r)
  BY MessageWrites
<1>2. UNCHANGED <<aft, net>> /\ work = <<>>
  BY DEF Message
<1>3. WorkShape'
  BY <1>1, <1>2 DEF WorkShape
<1>4. LabelsHaveHop'
  <2>1. \A n \in Node, v \in Vrf, p \in Prefix : ~ Leaving(n, v, p)
    BY <1>2 DEF Leaving
  <2> QED BY <1>2, <2>1 DEF LabelsHaveHop, Paired, Labels, Hop
<1> QED BY <1>3, <1>4 DEF Paired

(* What the write does of the one route, and what is left of its message.  *)
LEMMA WriteCases ==
    ASSUME Typed, Paired, WriteLeaf
    PROVE  \E r \in net.routes \cup net.spare :
              \/ /\ Head(work) = Write(r, "push", None)
                 /\ ~ \E n \in Node, v \in Vrf, p \in Prefix :
                       Leaving(n, v, p) /\ ~ (n = r.node /\ v = r.vrf /\ p = r.prefix)
                 /\ Tail(work) = <<Write(r, "nh", r.nh)>> \/ Tail(work) = <<>>
              \/ /\ Head(work) = Write(r, "nh", None)
                 /\ Tail(work) = <<Write(r, "push", None)>>
                 /\ \A n \in Node, v \in Vrf, p \in Prefix : ~ Leaving(n, v, p)
              \/ /\ Head(work) = Write(r, "nh", r.nh)
                 /\ Tail(work) = <<>> \/ Tail(work) = <<Write(r, "push", r.push)>>
                 /\ \A n \in Node, v \in Vrf, p \in Prefix : ~ Leaving(n, v, p)
              \/ /\ Head(work) = Write(r, "push", r.push) /\ Tail(work) = <<>>
                 /\ aft[r.node][Hop(r.vrf, r.prefix)] # None
<1>1. PICK r \in net.routes \cup net.spare :
          \/ work = Writes(r) \/ work = Deletes(r)
          \/ Single(r, "nh", r.nh) \/ Single(r, "push", None)
          \/ Single(r, "push", r.push) /\ aft[r.node][Hop(r.vrf, r.prefix)] # None
  BY DEF WriteLeaf, Paired, WorkShape
<1>2. \A a, b : /\ Head(<<a, b>>) = a /\ Tail(<<a, b>>) = <<b>> /\ Len(<<a, b>>) = 2
                /\ Head(<<a>>) = a /\ Tail(<<a>>) = <<>> /\ <<a>>[1] = a
  OBVIOUS
<1>3. r.vrf \in Vrf /\ r.prefix \in Prefix /\ r.node \in Node
  BY RouteTypes
<1>4. \A n \in Node, v \in Vrf, p \in Prefix :
         Leaving(n, v, p) => Len(work) = 1 /\ work[1].leaf = Labels(v, p) /\ work[1].node = n
  BY DEF Leaving
<1>5. CASE work = Writes(r)
  <2>1. \/ work = <<Write(r, "push", None), Write(r, "nh", r.nh)>>
        \/ work = <<Write(r, "nh", r.nh), Write(r, "push", r.push)>>
    BY <1>5 DEF Writes
  <2>2. \A n \in Node, v \in Vrf, p \in Prefix : ~ Leaving(n, v, p)
    <3>1. Len(work) = 2
      BY <1>2, <2>1
    <3> QED BY <3>1 DEF Leaving
  <2>3. CASE work = <<Write(r, "push", None), Write(r, "nh", r.nh)>>
    <3>1. Head(work) = Write(r, "push", None) /\ Tail(work) = <<Write(r, "nh", r.nh)>>
      BY <1>2, <2>3
    <3> QED BY <2>2, <3>1
  <2>4. CASE work = <<Write(r, "nh", r.nh), Write(r, "push", r.push)>>
    <3>1. Head(work) = Write(r, "nh", r.nh) /\ Tail(work) = <<Write(r, "push", r.push)>>
      BY <1>2, <2>4
    <3> QED BY <2>2, <3>1
  <2> QED BY <2>1, <2>3, <2>4
<1>6. CASE work = Deletes(r)
  <2>1. work = <<Write(r, "nh", None), Write(r, "push", None)>>
    BY <1>6 DEF Deletes
  <2>2. Len(work) # 1
    BY <1>2, <2>1
  <2> QED BY <1>2, <1>4, <2>1, <2>2
<1>7. CASE Single(r, "nh", r.nh)
  <2>1. work = <<Write(r, "nh", r.nh)>> /\ work[1].leaf = Hop(r.vrf, r.prefix)
    BY <1>7 DEF Single, Write, RouteLeaf, Hop
  <2>2. \A n \in Node, v \in Vrf, p \in Prefix : ~ Leaving(n, v, p)
    BY <1>3, <1>4, <2>1, LeafNames
  <2> QED BY <1>2, <2>1, <2>2
<1>8. CASE Single(r, "push", None)
  <2>1. /\ work = <<Write(r, "push", None)>>
        /\ work[1].leaf = Labels(r.vrf, r.prefix) /\ work[1].node = r.node
    BY <1>8 DEF Single, Write, RouteLeaf, Labels
  <2>2. \A n \in Node, v \in Vrf, p \in Prefix :
           Leaving(n, v, p) => n = r.node /\ v = r.vrf /\ p = r.prefix
    BY <1>3, <1>4, <2>1, LeafNames
  <2> QED BY <1>2, <2>1, <2>2
<1>9. CASE Single(r, "push", r.push) /\ aft[r.node][Hop(r.vrf, r.prefix)] # None
  BY <1>2, <1>9 DEF Single
<1> QED BY <1>1, <1>5, <1>6, <1>7, <1>8, <1>9

LEMMA WritePaired == ASSUME Typed, Paired, WriteLeaf PROVE Paired'
<1>1. work' = Tail(work) /\ net' = net
  BY DEF WriteLeaf
<1>2. PICK r \in net.routes \cup net.spare :
              \/ /\ Head(work) = Write(r, "push", None)
                 /\ ~ \E n \in Node, v \in Vrf, p \in Prefix :
                       Leaving(n, v, p) /\ ~ (n = r.node /\ v = r.vrf /\ p = r.prefix)
                 /\ Tail(work) = <<Write(r, "nh", r.nh)>> \/ Tail(work) = <<>>
              \/ /\ Head(work) = Write(r, "nh", None)
                 /\ Tail(work) = <<Write(r, "push", None)>>
                 /\ \A n \in Node, v \in Vrf, p \in Prefix : ~ Leaving(n, v, p)
              \/ /\ Head(work) = Write(r, "nh", r.nh)
                 /\ Tail(work) = <<>> \/ Tail(work) = <<Write(r, "push", r.push)>>
                 /\ \A n \in Node, v \in Vrf, p \in Prefix : ~ Leaving(n, v, p)
              \/ /\ Head(work) = Write(r, "push", r.push) /\ Tail(work) = <<>>
                 /\ aft[r.node][Hop(r.vrf, r.prefix)] # None
  BY WriteCases
<1>3. /\ r.node \in Node /\ r.vrf \in Vrf /\ r.prefix \in Prefix /\ r.nh # None
      /\ RouteLeaf(r, "nh") = Hop(r.vrf, r.prefix)
      /\ RouteLeaf(r, "push") = Labels(r.vrf, r.prefix)
  BY RouteTypes DEF RouteLeaf, Hop, Labels
<1>4. ASSUME NEW kind \in {"nh", "push"}, NEW value, Head(work) = Write(r, kind, value),
             NEW n \in Node, NEW v \in Vrf, NEW p \in Prefix
      PROVE  /\ aft'[n][Hop(v, p)] = IF kind = "nh" /\ n = r.node /\ v = r.vrf /\ p = r.prefix
                                     THEN value ELSE aft[n][Hop(v, p)]
             /\ aft'[n][Labels(v, p)] = IF kind = "push" /\ n = r.node /\ v = r.vrf /\ p = r.prefix
                                        THEN value ELSE aft[n][Labels(v, p)]
  <2>1. \A m \in Node, l \in Leaf :
           aft'[m][l] = IF m = r.node /\ l = RouteLeaf(r, kind) THEN value ELSE aft[m][l]
    BY <1>4, WriteOne
  <2>2. /\ Hop(v, p) \in Leaf /\ Labels(v, p) \in Leaf
        /\ Hop(v, p) = Hop(r.vrf, r.prefix) <=> v = r.vrf /\ p = r.prefix
        /\ Labels(v, p) = Labels(r.vrf, r.prefix) <=> v = r.vrf /\ p = r.prefix
        /\ Hop(v, p) # Labels(r.vrf, r.prefix) /\ Labels(v, p) # Hop(r.vrf, r.prefix)
    BY <1>3, LeafNames
  <2> QED BY <1>3, <1>4, <2>1, <2>2
<1>5. CASE /\ Head(work) = Write(r, "push", None)
           /\ ~ \E n \in Node, v \in Vrf, p \in Prefix :
                 Leaving(n, v, p) /\ ~ (n = r.node /\ v = r.vrf /\ p = r.prefix)
           /\ Tail(work) = <<Write(r, "nh", r.nh)>> \/ Tail(work) = <<>>
  <2>1. WorkShape'
    BY <1>1, <1>5 DEF WorkShape, Single
  <2>2. LabelsHaveHop'
    BY <1>4, <1>5 DEF LabelsHaveHop, Paired
  <2> QED BY <2>1, <2>2 DEF Paired
<1>6. CASE /\ Head(work) = Write(r, "nh", None)
           /\ Tail(work) = <<Write(r, "push", None)>>
           /\ \A n \in Node, v \in Vrf, p \in Prefix : ~ Leaving(n, v, p)
  <2>1. WorkShape'
    BY <1>1, <1>6 DEF WorkShape, Single
  <2>2. Leaving(r.node, r.vrf, r.prefix)'
    <3>1. \A a : Len(<<a>>) = 1 /\ <<a>>[1] = a
      OBVIOUS
    <3>2. Len(work') = 1 /\ work'[1] = Write(r, "push", None)
      BY <1>1, <1>6, <3>1
    <3>3. Write(r, "push", None) =
            [node |-> r.node, leaf |-> Labels(r.vrf, r.prefix), value |-> None]
      BY <1>3 DEF Write
    <3> QED BY <3>2, <3>3 DEF Leaving, Labels
  <2>3. ASSUME NEW n \in Node, NEW v \in Vrf, NEW p \in Prefix, aft'[n][Labels(v, p)] # None
        PROVE  aft'[n][Hop(v, p)] # None \/ Leaving(n, v, p)'
    BY <1>4, <1>6, <2>2, <2>3 DEF LabelsHaveHop, Paired
  <2> QED BY <2>1, <2>3 DEF Paired, LabelsHaveHop, Labels, Hop
<1>7. CASE /\ Head(work) = Write(r, "nh", r.nh)
           /\ Tail(work) = <<>> \/ Tail(work) = <<Write(r, "push", r.push)>>
           /\ \A n \in Node, v \in Vrf, p \in Prefix : ~ Leaving(n, v, p)
  <2>1. aft'[r.node][Hop(r.vrf, r.prefix)] # None
    BY <1>3, <1>4, <1>7
  <2>2. WorkShape'
    BY <1>1, <1>7, <2>1 DEF WorkShape, Single, Hop
  <2>3. ASSUME NEW n \in Node, NEW v \in Vrf, NEW p \in Prefix, aft'[n][Labels(v, p)] # None
        PROVE  aft'[n][Hop(v, p)] # None
    BY <1>3, <1>4, <1>7, <2>3 DEF LabelsHaveHop, Paired
  <2> QED BY <2>2, <2>3 DEF Paired, LabelsHaveHop, Labels, Hop
<1>8. CASE /\ Head(work) = Write(r, "push", r.push) /\ Tail(work) = <<>>
           /\ aft[r.node][Hop(r.vrf, r.prefix)] # None
  <2>1. WorkShape'
    BY <1>1, <1>8 DEF WorkShape
  <2>2. \A n \in Node, v \in Vrf, p \in Prefix :
           Leaving(n, v, p) => n = r.node /\ v = r.vrf /\ p = r.prefix
    <3>1. work # <<>> /\ work[1] = Head(work) /\ work[1].node = r.node
          /\ work[1].leaf = Labels(r.vrf, r.prefix)
      BY <1>3, <1>8, TailParts DEF WriteLeaf, Typed, Write
    <3> QED BY <1>3, <3>1, LeafNames DEF Leaving
  <2>3. ASSUME NEW n \in Node, NEW v \in Vrf, NEW p \in Prefix, aft'[n][Labels(v, p)] # None
        PROVE  aft'[n][Hop(v, p)] # None
    BY <1>4, <1>8, <2>2, <2>3 DEF LabelsHaveHop, Paired
  <2> QED BY <2>1, <2>3 DEF Paired, LabelsHaveHop, Labels, Hop
<1> QED BY <1>2, <1>5, <1>6, <1>7, <1>8

LEMMA PairedStays == Typed /\ Paired /\ [Next]_vars => Paired'
<1> SUFFICES ASSUME Typed, Paired, [Next]_vars PROVE Paired'
  OBVIOUS
<1>1. ASSUME UNCHANGED <<net, aft, work>> PROVE Paired'
  BY <1>1 DEF Paired, WorkShape, LabelsHaveHop, Leaving, Single, Hop, Labels
<1>2. CASE MplsHop \/ IpHop \/ NoAnswer
  <2>1. Round
    BY <1>2, MplsEndsRound, IpEndsRound, NoAnswerEndsRound
  <2> QED BY <1>1, <2>1 DEF Round, tableVars
<1>3. CASE Begin \/ Look \/ UNCHANGED vars
  BY <1>1, <1>3 DEF Begin, Look, vars, tableVars
<1> QED BY <1>2, <1>3, MessagePaired, WritePaired DEF Next, Walk

----------------------------------------------------------------------------
(* The inductive form of VerdictIsRight: in a network that stands still    *)
(* the walk is where the packet is, and no packet was delivered before.    *)
Still == quiet /\ work = <<>>

AtGoal(network, packets) == \E c \in packets : Received(network, c)

Followed ==
    /\ pc \in {"walk", "asked"} =>
          /\ hops \in 0 .. MaxHops
          /\ \E v \in Vrf : After(net, aft)[hops] = {<<at, v, stack>>}
          /\ \A k \in 0 .. hops - 1 : ~ AtGoal(net, After(net, aft)[k])
    /\ pc = "asked" => hops # MaxHops /\ ~ AtGoal(net, After(net, aft)[hops])
    /\ pc \in Ends => (pc = "reached" <=> Arrives(net, aft))

AskedNow == pc = "asked" => \A l \in Leaf : held[l] = {aft[at][l]}

Walked ==
    Still /\ pc # "idle" =>
        ip2node = net.owner /\ AskedNow /\ (Clear(net, aft) => Followed)

(* What a Get shows of a prefix that is installed in a VRF.                *)
LEMMA ReadSeen ==
    ASSUME Typed, AskedNow, pc = "asked", NEW v \in Vrf, NEW p \in Installed(aft, at, v)
    PROVE  ~ MayBeMissing(p)
<1>1. at \in Node /\ p \in Prefix /\ aft[at][Hop(v, p)] # None
  BY PathAssumption DEF Typed, Installed, Hop
<1>2. held[<<"nh", v, p>>] = {aft[at][Hop(v, p)]}
  BY <1>1, LeafNames DEF AskedNow, Hop
<1>3. ~ \A w \in Vrf : None \in held[<<"nh", w, p>>]
  BY <1>1, <1>2
<1>4. None \notin Read("nh", p)
  BY <1>3 DEF Read
<1> QED BY <1>4 DEF MayBeMissing

(* And of one that is in no other VRF: its next hop and its labels.        *)
LEMMA ReadInstalled ==
    ASSUME Typed, Paired, Still, AskedNow, pc = "asked",
           NEW v \in Vrf, NEW p \in Installed(aft, at, v),
           \A w \in Vrf \ {v} : p \notin Installed(aft, at, w)
    PROVE  /\ Read("nh", p) = {aft[at][Hop(v, p)]}
           /\ Read("push", p) = {aft[at][Labels(v, p)]}
<1>1. at \in Node /\ v \in Vrf /\ p \in Covers /\ p \in Prefix /\ aft[at][Hop(v, p)] # None
  BY PathAssumption DEF Typed, Installed, Hop
<1>2. \A w \in Vrf : w # v => aft[at][Hop(w, p)] = None
  BY <1>1 DEF Installed, Hop
<1>3. \A w \in Vrf : w # v => aft[at][Labels(w, p)] = None
  <2>1. \A w \in Vrf : ~ Leaving(at, w, p)
    BY DEF Still, Leaving
  <2> QED BY <1>1, <1>2, <2>1 DEF Paired, LabelsHaveHop
<1>4. \A w \in Vrf : /\ held[<<"nh", w, p>>] = {aft[at][Hop(w, p)]}
                     /\ held[<<"push", w, p>>] = {aft[at][Labels(w, p)]}
  BY <1>1, LeafNames DEF AskedNow, Hop, Labels
<1>5. Read("nh", p) = {aft[at][Hop(v, p)]}
  <2> DEFINE values == UNION {held[<<"nh", w, p>>] : w \in Vrf}
  <2>1. aft[at][Hop(v, p)] \in values /\ values \subseteq {aft[at][Hop(v, p)], None}
    <3>1. aft[at][Hop(v, p)] \in held[<<"nh", v, p>>]
      BY <1>1, <1>4
    <3>2. ASSUME NEW x \in values PROVE x \in {aft[at][Hop(v, p)], None}
      <4>1. PICK w \in Vrf : x \in held[<<"nh", w, p>>]
        BY <3>2
      <4>2. x = aft[at][Hop(w, p)]
        BY <1>4, <4>1
      <4> QED BY <1>2, <4>2
    <3> QED BY <1>1, <3>1, <3>2
  <2>2. ~ \A w \in Vrf : None \in held[<<"nh", w, p>>]
    BY <1>1, <1>4
  <2>3. Read("nh", p) = values \ {None}
    BY <2>2 DEF Read
  <2> HIDE DEF values
  <2> QED BY <1>1, <2>1, <2>3
<1>6. Read("push", p) = {aft[at][Labels(v, p)]}
  <2> DEFINE values == UNION {held[<<"push", w, p>>] : w \in Vrf}
  <2>1. aft[at][Labels(v, p)] \in values /\ values \subseteq {aft[at][Labels(v, p)], None}
    <3>1. aft[at][Labels(v, p)] \in held[<<"push", v, p>>]
      BY <1>1, <1>4
    <3>2. ASSUME NEW x \in values PROVE x \in {aft[at][Labels(v, p)], None}
      <4>1. PICK w \in Vrf : x \in held[<<"push", w, p>>]
        BY <3>2
      <4>2. x = aft[at][Labels(w, p)]
        BY <1>4, <4>1
      <4> QED BY <1>3, <4>2
    <3> QED BY <1>1, <3>1, <3>2
  <2>2. CASE aft[at][Labels(v, p)] = None
    <3>1. \A w \in Vrf : None \in held[<<"push", w, p>>]
      BY <1>3, <1>4, <2>2
    <3>2. Read("push", p) = values
      BY <3>1 DEF Read
    <3> HIDE DEF values
    <3> QED BY <2>1, <2>2, <3>2
  <2>3. CASE aft[at][Labels(v, p)] # None
    <3>1. ~ \A w \in Vrf : None \in held[<<"push", w, p>>]
      BY <1>1, <1>4, <2>3
    <3>2. Read("push", p) = values \ {None}
      BY <3>1 DEF Read
    <3> HIDE DEF values
    <3> QED BY <2>1, <2>3, <3>2
  <2> QED BY <2>2, <2>3
<1> QED BY <1>5, <1>6

LEMMA ReadNothing ==
    ASSUME Typed, Paired, Still, AskedNow, pc = "asked",
           NEW p \in Covers, \A w \in Vrf : p \notin Installed(aft, at, w)
    PROVE  Read("nh", p) \subseteq {None} /\ Read("push", p) \subseteq {None}
<1>1. at \in Node /\ p \in Prefix
  BY PathAssumption DEF Typed
<1>2. \A w \in Vrf : aft[at][Hop(w, p)] = None
  BY DEF Installed, Hop
<1>3. \A w \in Vrf : aft[at][Labels(w, p)] = None
  <2>1. \A w \in Vrf : ~ Leaving(at, w, p)
    BY DEF Still, Leaving
  <2> QED BY <1>1, <1>2, <2>1 DEF Paired, LabelsHaveHop
<1>4. \A w \in Vrf : held[<<"nh", w, p>>] = {None} /\ held[<<"push", w, p>>] = {None}
  BY <1>1, <1>2, <1>3, LeafNames DEF AskedNow, Hop, Labels
<1> QED BY <1>4 DEF Read

(* A round makes the step of the packet, or ends where it is lost.         *)
RoundFollows(v) ==
    /\ hops' = hops + 1
    /\ \/ pc' = "walk" /\ \E w \in Vrf : Forwarded(net, aft, at, v, stack) = {<<at', w, stack'>>}
       \/ pc' \in Ends \ {"reached"} /\ Forwarded(net, aft, at, v, stack) = {}

LEMMA GoFollows ==
    ASSUME Typed, ip2node = net.owner, NEW v, NEW hop, NEW labels, Go(hop, labels),
           Forwarded(net, aft, at, v, stack) = ToHop(net, hop, labels)
    PROVE  RoundFollows(v)
<1>1. CASE hop \in Addr
  <2>1. ip2node[hop] # None /\ net.home[hop] \in Vrf
    BY <1>1, NetworkAssumption, NoneAssumption DEF Typed
  <2>2. Settle("walk", net.owner[hop], labels)
    BY <1>1, <2>1 DEF Go
  <2>3. Forwarded(net, aft, at, v, stack) = {<<net.owner[hop], net.home[hop], labels>>}
    BY <1>1 DEF ToHop
  <2> QED BY <2>1, <2>2, <2>3 DEF Settle, RoundFollows
<1>2. CASE hop \notin Addr
  <2>1. Settle("unknownHop", at, <<>>)
    BY <1>2 DEF Go
  <2> QED BY <1>2, <2>1 DEF Settle, ToHop, RoundFollows, Ends
<1> QED BY <1>1, <1>2

(* The prefix the walk takes is the best one of the packet's VRF.          *)
LEMMA TakesBest ==
    ASSUME Typed, Paired, Still, AskedNow, pc = "asked", NEW v \in Vrf,
           OwnRouteLeads(aft, at, v), NEW p, LongestMatch(p),
           \E w \in Vrf : p \in Installed(aft, at, w)
    PROVE  /\ p \in Installed(aft, at, v) /\ Best(aft, at, v) = {p}
           /\ \A w \in Vrf \ {v} : p \notin Installed(aft, at, w)
<1>1. /\ p \in Covers /\ \A q \in Covers : Length[q] \in Nat
      /\ \A q \in Covers : Length[q] > Length[p] => MayBeMissing(q)
  BY PathAssumption DEF LongestMatch
<1>2. ASSUME NEW q \in Installed(aft, at, v) PROVE q \in Covers /\ ~ (Length[q] > Length[p])
  <2>1. q \in Covers /\ ~ MayBeMissing(q)
    BY <1>2, ReadSeen DEF Installed
  <2> QED BY <1>1, <2>1
<1>3. \A w \in Vrf \ {v} : p \notin Installed(aft, at, w)
  BY <1>2 DEF OwnRouteLeads
<1>4. p \in Installed(aft, at, v)
  BY <1>3
<1>5. p \in Best(aft, at, v)
  BY <1>1, <1>2, <1>4 DEF Best
<1>6. ASSUME NEW q \in Best(aft, at, v) PROVE q = p
  <2>1. q \in Covers /\ Length[q] <= Length[p] /\ Length[p] <= Length[q]
    BY <1>1, <1>2, <1>4, <1>6 DEF Best
  <2>2. Length[p] = Length[q]
    BY <1>1, <2>1
  <2> QED BY <1>1, <2>1, <2>2, PathAssumption
<1> QED BY <1>3, <1>4, <1>5, <1>6

LEMMA IpFollows ==
    ASSUME Typed, Paired, Still, ip2node = net.owner, AskedNow, IpHop,
           NEW v \in Vrf, OwnRouteLeads(aft, at, v)
    PROVE  RoundFollows(v)
<1>1. pc = "asked" /\ stack = <<>>
  BY DEF IpHop
<1>2. Forwarded(net, aft, at, v, stack) = UNION {Routed(net, aft[at], v, p) : p \in Best(aft, at, v)}
  BY <1>1 DEF Forwarded
<1>3. CASE \E p \in Prefix : LongestMatch(p) /\
              \E hop \in Read("nh", p), labels \in Read("push", p) :
                 /\ <<hop, labels>> # <<None, None>>
                 /\ Go(hop, IF labels = None THEN <<>> ELSE labels)
  <2>1. PICK p \in Prefix : LongestMatch(p) /\
              \E hop \in Read("nh", p), labels \in Read("push", p) :
                 /\ <<hop, labels>> # <<None, None>>
                 /\ Go(hop, IF labels = None THEN <<>> ELSE labels)
    BY <1>3
  <2>2. PICK hop \in Read("nh", p), labels \in Read("push", p) :
                 /\ <<hop, labels>> # <<None, None>>
                 /\ Go(hop, IF labels = None THEN <<>> ELSE labels)
    BY <2>1
  <2>3. p \in Covers
    BY <2>1 DEF LongestMatch
  <2>4. \E w \in Vrf : p \in Installed(aft, at, w)
    BY <1>1, <2>2, <2>3, ReadNothing
  <2>5. /\ p \in Installed(aft, at, v) /\ Best(aft, at, v) = {p}
        /\ \A w \in Vrf \ {v} : p \notin Installed(aft, at, w)
    BY <1>1, <2>1, <2>4, TakesBest
  <2>6. hop = aft[at][Hop(v, p)] /\ labels = aft[at][Labels(v, p)]
    BY <1>1, <2>2, <2>5, ReadInstalled
  <2> DEFINE rest == IF labels = None THEN <<>> ELSE labels
  <2>7. Routed(net, aft[at], v, p) = ToHop(net, hop, rest)
    BY <2>6 DEF Routed, Hop, Labels
  <2>8. Forwarded(net, aft, at, v, stack) = Routed(net, aft[at], v, p)
    <3> DEFINE R(q) == Routed(net, aft[at], v, q)
    <3>1. Forwarded(net, aft, at, v, stack) = UNION {R(q) : q \in {p}}
      BY <1>2, <2>5
    <3>2. UNION {R(q) : q \in {p}} = R(p)
      <4> HIDE DEF R
      <4> QED OBVIOUS
    <3> QED BY <3>1, <3>2
  <2>9. Go(hop, rest)
    BY <2>2
  <2> HIDE DEF rest
  <2> QED BY <2>7, <2>8, <2>9, GoFollows
<1>4. CASE (\A p \in Covers : MayBeMissing(p)) /\ Settle("noRoute", at, <<>>)
  <2>1. Installed(aft, at, v) = {}
    <3>1. \A p \in Installed(aft, at, v) : p \in Covers
      BY DEF Installed
    <3> QED BY <1>1, <1>4, <3>1, ReadSeen
  <2>2. Best(aft, at, v) = {}
    BY <2>1 DEF Best
  <2>3. Forwarded(net, aft, at, v, stack) = {}
    BY <1>2, <2>2
  <2> QED BY <1>4, <2>3 DEF RoundFollows, Settle, Ends
<1> QED BY <1>3, <1>4, Zenon DEF IpHop

LEMMA MplsFollows ==
    ASSUME Typed, ip2node = net.owner, MplsHop, NEW v \in Vrf
    PROVE  RoundFollows(v)
<1> DEFINE key == <<at, Head(stack)>>
           e == net.lfib[key]
<1>1. stack # <<>>
  BY DEF MplsHop
<1>2. CASE key \notin DOMAIN net.lfib
  <2>1. Settle("noLabel", at, <<>>)
    BY <1>2, Zenon DEF MplsHop
  <2>2. Forwarded(net, aft, at, v, stack) = {}
    BY <1>1, <1>2 DEF Forwarded
  <2> QED BY <2>1, <2>2 DEF RoundFollows, Settle, Ends
<1>3. CASE key \in DOMAIN net.lfib
  <2>1. IF Egress(e) THEN Settle("walk", at, Tail(stack)) ELSE Go(e.nh, e.out \o Tail(stack))
    BY <1>3, Zenon DEF MplsHop
  <2>2. Forwarded(net, aft, at, v, stack) =
           IF Egress(e) THEN {<<at, e.vrf, Tail(stack)>>}
           ELSE ToHop(net, e.nh, e.out \o Tail(stack))
    BY <1>1, <1>3, Zenon DEF Forwarded, Switched
  <2>3. CASE Egress(e)
    <3>1. e.vrf \in Vrf
      BY <1>3, <2>3, NetworkAssumption DEF Typed
    <3>2. Settle("walk", at, Tail(stack)) /\ Forwarded(net, aft, at, v, stack) = {<<at, e.vrf, Tail(stack)>>}
      BY <2>1, <2>2, <2>3
    <3> HIDE DEF e
    <3> QED BY <3>1, <3>2 DEF RoundFollows, Settle
  <2>4. CASE ~ Egress(e)
    <3> DEFINE labels == e.out \o Tail(stack)
               hop == e.nh
    <3>1. Go(hop, labels) /\ Forwarded(net, aft, at, v, stack) = ToHop(net, hop, labels)
      BY <2>1, <2>2, <2>4
    <3> HIDE DEF hop, labels
    <3> QED BY <3>1, GoFollows
  <2> QED BY <2>3, <2>4
<1> QED BY <1>2, <1>3

(* Where the packet is asked about, no other VRF's route leads.            *)
LEMMA ClearHere ==
    ASSUME Followed, Clear(net, aft), pc = "asked"
    PROVE  \E v \in Vrf :
              /\ After(net, aft)[hops] = {<<at, v, stack>>}
              /\ ~ Received(net, <<at, v, stack>>)
              /\ stack = <<>> => OwnRouteLeads(aft, at, v)
<1> DEFINE after == After(net, aft)
<1>1. PICK v \in Vrf : after[hops] = {<<at, v, stack>>}
  BY DEF Followed
<1>2. hops \in 0 .. MaxHops - 1 /\ ~ AtGoal(net, after[hops])
  BY PathAssumption DEF Followed
<1>3. ~ Received(net, <<at, v, stack>>)
  BY <1>1, <1>2 DEF AtGoal
<1>4. stack = <<>> => OwnRouteLeads(aft, at, v)
  <2>1. \A c \in after[hops] : c[3] = <<>> /\ ~ Received(net, c) => OwnRouteLeads(aft, c[1], c[2])
    BY <1>2 DEF Clear
  <2>2. <<at, v, stack>> \in after[hops]
    BY <1>1
  <2> HIDE DEF after
  <2> QED BY <1>3, <2>1, <2>2
<1> QED BY <1>1, <1>3, <1>4

(* The round after this one begins where the packet is, or after its end.  *)
LEMMA FollowedOn ==
    ASSUME Followed, pc = "asked", net' = net, aft' = aft, NEW v \in Vrf, RoundFollows(v),
           After(net, aft)[hops] = {<<at, v, stack>>}, ~ Received(net, <<at, v, stack>>)
    PROVE  Followed'
<1> DEFINE after == After(net, aft)
<1>1. /\ hops \in 0 .. MaxHops /\ hops # MaxHops /\ hops \in Nat /\ MaxHops \in Nat
      /\ after[hops] = {<<at, v, stack>>}
      /\ \A k \in 0 .. hops : ~ AtGoal(net, after[k])
  <2>1. /\ hops \in 0 .. MaxHops
        /\ \A k \in 0 .. hops - 1 : ~ AtGoal(net, after[k])
        /\ hops # MaxHops /\ ~ AtGoal(net, after[hops])
    BY DEF Followed
  <2>2. after[hops] = {<<at, v, stack>>}
    OBVIOUS
  <2> HIDE DEF after
  <2>3. MaxHops \in Nat /\ hops \in Nat
    BY <2>1, PathAssumption
  <2>4. ASSUME NEW k \in 0 .. hops PROVE ~ AtGoal(net, after[k])
    <3>1. k = hops \/ k \in 0 .. hops - 1
      BY <2>3
    <3> QED BY <2>1, <3>1
  <2> QED BY <2>1, <2>2, <2>3, <2>4
<1>2. after[hops + 1] = Forwarded(net, aft, at, v, stack)
  <2>1. hops < MaxHops
    BY <1>1
  <2>2. after[hops + 1] = Onward(net, aft, after[hops])
    <3>1. \A k \in Nat : k < MaxHops => after[k + 1] = Onward(net, aft, after[k])
      BY AfterFacts
    <3> HIDE DEF after
    <3> QED BY <1>1, <2>1, <3>1
  <2>3. Onward(net, aft, {<<at, v, stack>>}) = Forwarded(net, aft, at, v, stack)
    BY OnePacket
  <2> QED BY <1>1, <2>2, <2>3
<1>3. /\ hops' = hops + 1 /\ After(net, aft)' = after
      /\ \A S : AtGoal(net, S)' = AtGoal(net, S)
      /\ Arrives(net, aft)' = Arrives(net, aft)
  BY DEF RoundFollows, AtGoal
<1>4. CASE pc' = "walk" /\ \E w \in Vrf : Forwarded(net, aft, at, v, stack) = {<<at', w, stack'>>}
  <2>1. hops' \in 0 .. MaxHops /\ hops' - 1 = hops
    BY <1>1, <1>3
  <2>2. \E w \in Vrf : after[hops'] = {<<at', w, stack'>>}
    BY <1>2, <1>3, <1>4
  <2> HIDE DEF after
  <2>3. \A k \in 0 .. hops' - 1 : ~ AtGoal(net', after[k])
    BY <1>1, <2>1
  <2> QED BY <1>3, <1>4, <2>1, <2>2, <2>3 DEF Followed, Ends
<1>5. CASE pc' \in Ends \ {"reached"} /\ Forwarded(net, aft, at, v, stack) = {}
  <2>1. \A k \in Nat : hops + 1 <= k /\ k <= MaxHops => after[k] = {}
    <3>1. hops + 1 \in Nat /\ hops + 1 <= MaxHops
      BY <1>1
    <3> QED BY <1>2, <1>5, <3>1, LostStaysLost
  <2>2. ASSUME NEW k \in 0 .. MaxHops - 1 PROVE ~ AtGoal(net, after[k])
    <3> HIDE DEF after
    <3>1. CASE k <= hops
      BY <1>1, <3>1
    <3>2. CASE ~ (k <= hops)
      <4>1. after[k] = {}
        BY <1>1, <2>1, <3>2
      <4> QED BY <4>1 DEF AtGoal
    <3> QED BY <3>1, <3>2
  <2>3. ~ Arrives(net, aft)
    BY <2>2 DEF Arrives, AtGoal
  <2>4. pc' \notin {"walk", "asked"}
    BY <1>5 DEF Ends
  <2> QED BY <1>3, <1>5, <2>3, <2>4 DEF Followed
<1> QED BY <1>4, <1>5 DEF RoundFollows

LEMMA FollowedLook ==
    ASSUME Followed, Clear(net, aft), Look, ip2node = net.owner, at \in Node
    PROVE  Followed'
<1> DEFINE after == After(net, aft)
<1>1. /\ pc = "walk" /\ UNCHANGED <<net, aft, at, stack, hops>>
      /\ pc' = IF hops = MaxHops THEN "tooLong" ELSE IF Arrived THEN "reached" ELSE "asked"
  BY DEF Look, tableVars
<1>2. PICK v \in Vrf : after[hops] = {<<at, v, stack>>}
  BY <1>1 DEF Followed
<1>3. /\ hops \in 0 .. MaxHops /\ MaxHops \in Nat
      /\ \A k \in 0 .. hops - 1 : ~ AtGoal(net, after[k])
  BY <1>1, PathAssumption DEF Followed
<1>4. hops # MaxHops => (AtGoal(net, after[hops]) <=> Arrived)
  <2> DEFINE c == <<at, v, stack>>
  <2>1. AtGoal(net, after[hops]) <=> Received(net, c)
    BY <1>2 DEF AtGoal
  <2>2. Received(net, c) => Arrived
    BY DEF Received, Arrived
  <2>3. ASSUME hops # MaxHops, Arrived, ~ Received(net, c) PROVE FALSE
    <3>1. hops \in 0 .. MaxHops - 1 /\ c \in after[hops]
      BY <1>2, <1>3, <2>3
    <3>2. c[1] = at /\ c[3] = stack
      OBVIOUS
    <3>3. \A d \in after[hops] : d[3] = <<>> /\ ~ Received(net, d) =>
             ~ (net.dst \in Addr /\ d[1] = net.owner[net.dst])
      BY <3>1 DEF Clear
    <3> HIDE DEF after, c
    <3> QED BY <2>3, <3>1, <3>2, <3>3 DEF Arrived
  <2> QED BY <2>1, <2>2, <2>3
<1>5. /\ After(net, aft)' = after /\ Arrives(net, aft)' = Arrives(net, aft)
      /\ \A S : AtGoal(net, S)' = AtGoal(net, S)
  BY <1>1 DEF AtGoal
<1>6. CASE pc' = "tooLong"
  <2>1. hops = MaxHops
    BY <1>1, <1>6
  <2>2. ~ Arrives(net, aft)
    BY <1>3, <2>1 DEF Arrives, AtGoal
  <2> QED BY <1>5, <1>6, <2>2 DEF Followed, Ends
<1>7. CASE pc' = "reached"
  <2>1. hops # MaxHops /\ Arrived
    BY <1>1, <1>7
  <2>2. hops \in 0 .. MaxHops - 1
    BY <1>3, <2>1
  <2>3. Arrives(net, aft)
    BY <1>4, <2>1, <2>2 DEF Arrives, AtGoal
  <2> QED BY <1>5, <1>7, <2>3 DEF Followed, Ends
<1>8. CASE pc' = "asked"
  <2>1. hops # MaxHops /\ ~ Arrived
    BY <1>1, <1>8
  <2> HIDE DEF after
  <2>2. ~ AtGoal(net', after[hops'])
    BY <1>1, <1>4, <2>1
  <2>3. \A k \in 0 .. hops' - 1 : ~ AtGoal(net', after[k])
    BY <1>1, <1>3
  <2>4. \E w \in Vrf : after[hops'] = {<<at', w, stack'>>}
    BY <1>1, <1>2
  <2> QED BY <1>1, <1>3, <1>5, <1>8, <2>1, <2>2, <2>3, <2>4 DEF Followed, Ends
<1> QED BY <1>1, <1>6, <1>7, <1>8

LEMMA WalkedStays == Typed /\ Paired /\ Walked /\ [Next]_vars => Walked'
<1> SUFFICES ASSUME Typed, Paired, Walked, [Next]_vars, Still', pc' # "idle"
             PROVE  /\ ip2node' = net'.owner /\ AskedNow'
                    /\ Clear(net, aft)' => Followed'
  BY DEF Walked
<1>1. CASE Message
  <2>1. work' # <<>>
    BY <1>1, MessageWrites, TwoWrites
  <2> QED BY <2>1 DEF Still
<1>2. CASE WriteLeaf \/ NoAnswer
  BY <1>2 DEF WriteLeaf, NoAnswer, Still
<1>3. CASE Begin
  <2>1. faults' = faults /\ work = <<>>
    BY <1>3 DEF Begin, Still, tableVars
  <2>2. ip2node' = net.owner /\ UNCHANGED <<net, aft>>
    BY <1>3, <2>1 DEF Begin, Fault, tableVars, Typed
  <2>3. pc' = "walk" /\ at' = net.start /\ stack' = <<>> /\ hops' = 0
    BY <1>3 DEF Begin
  <2>4. After(net', aft')[0] = {<<net.start, net.from, <<>>>>} /\ net.from \in Vrf
    BY <2>2, AfterFacts, NetworkAssumption DEF Typed
  <2>5. Followed'
    BY <2>2, <2>3, <2>4, PathAssumption DEF Followed, Ends
  <2> QED BY <2>2, <2>3, <2>5 DEF AskedNow
<1>4. CASE Look
  <2>1. UNCHANGED <<net, aft, work, quiet, ip2node, at>> /\ pc = "walk"
    BY <1>4 DEF Look, tableVars
  <2>2. ip2node = net.owner /\ (Clear(net, aft) => Followed)
    BY <2>1 DEF Walked, Still
  <2>3. AskedNow'
    <3>1. pc' = "asked" => held' = [l \in Leaf |-> {aft[at][l]}]
      BY <1>4 DEF Look
    <3> QED BY <2>1, <3>1 DEF AskedNow
  <2>4. at \in Node
    BY DEF Typed
  <2>5. Clear(net, aft)' = Clear(net, aft)
    BY <2>1
  <2> QED BY <1>4, <2>1, <2>2, <2>3, <2>4, <2>5, FollowedLook
<1>5. CASE IpHop \/ MplsHop
  <2>1. Round /\ quiet' = quiet /\ pc = "asked"
    BY <1>5, IpEndsRound, MplsEndsRound DEF IpHop, MplsHop
  <2>2. UNCHANGED <<net, aft, work, ip2node>> /\ pc' # "asked"
    BY <2>1 DEF Round, tableVars
  <2>3. Still /\ ip2node = net.owner /\ AskedNow /\ (Clear(net, aft) => Followed)
    BY <2>1, <2>2 DEF Walked, Still
  <2>4. ASSUME Clear(net, aft) PROVE Followed'
    <3>1. PICK v \in Vrf :
              /\ After(net, aft)[hops] = {<<at, v, stack>>}
              /\ ~ Received(net, <<at, v, stack>>)
              /\ stack = <<>> => OwnRouteLeads(aft, at, v)
      BY <2>1, <2>3, <2>4, ClearHere
    <3>2. RoundFollows(v)
      <4>1. CASE IpHop
        <5>1. stack = <<>>
          BY <4>1 DEF IpHop
        <5> QED BY <2>3, <3>1, <4>1, <5>1, IpFollows
      <4>2. CASE MplsHop
        BY <2>3, <4>2, MplsFollows
      <4> QED BY <1>5, <4>1, <4>2
    <3> QED BY <2>1, <2>2, <2>3, <2>4, <3>1, <3>2, FollowedOn
  <2>5. Clear(net, aft)' = Clear(net, aft)
    BY <2>2
  <2> QED BY <2>2, <2>3, <2>4, <2>5 DEF AskedNow
<1>6. CASE UNCHANGED vars
  <2>1. UNCHANGED <<net, aft, work, quiet, ip2node, pc, at, stack, hops, held>>
    BY <1>6 DEF vars, tableVars, walkVars
  <2>2. ip2node = net.owner /\ AskedNow /\ (Clear(net, aft) => Followed)
    BY <2>1 DEF Walked, Still
  <2>3. AskedNow'
    BY <2>1, <2>2 DEF AskedNow
  <2>4. Clear(net, aft)' => Followed'
    BY <2>1, <2>2 DEF Followed, AtGoal
  <2> QED BY <2>1, <2>2, <2>3, <2>4
<1> QED BY <1>1, <1>2, <1>3, <1>4, <1>5, <1>6 DEF Next, Walk

(* "1 if the destination was reached by the control-plane path walk"       *)
(* (main.go:110): for any networks, routes and labels, looping or not, the *)
(* walk over tables that stood still ends where a packet does that stays in *)
(* its VRF, unless another VRF's route was taken on the way.               *)
THEOREM VerdictCorrect == Spec => []VerdictIsRight
<1>1. Init => Typed /\ Paired /\ Walked
  BY InitTyped, InitPaired DEF Init, Walked
<1>2. Typed /\ Paired /\ Walked /\ [Next]_vars => (Typed /\ Paired /\ Walked)'
  BY TypedStays, PairedStays, WalkedStays
<1>3. Walked => VerdictIsRight
  <2> SUFFICES ASSUME Walked, pc \in Ends, Still, Clear(net, aft)
               PROVE  pc = "reached" <=> Arrives(net, aft)
    BY DEF VerdictIsRight, Still
  <2>1. pc # "idle"
    BY DEF Ends
  <2> QED BY <2>1 DEF Walked, Followed
<1> QED BY <1>1, <1>2, <1>3, PTL DEF Spec

(***************************************************************************)
(* The topology exporter.                                                  *)
(***************************************************************************)
(* What was answered and is in the graph already. *)
Added == {x \in got : x[1] # asked \/ x[2] \notin answer}

ClaimsOf(set) == UNION {Wanted(x[1], x[2]) : x \in set}

(* E is the union of C: GraphIsUnion of any edges and claims. *)
Unites(E, C) ==
    /\ DOMAIN E = {c[1] : c \in C}
    /\ \A k \in DOMAIN E :
          /\ <<k, E[k]>> \in C
          /\ E[k] = Default => \A c \in C : c[1] = k => c[2] = Default

(* Every claim is a pair, and only sessions have a default detail. *)
Shaped(C) == \A c \in C : c = <<c[1], c[2]>> /\ (c[1][1] = "vlan" => c[2] # Default)

(* Nodes are asked once, after the addresses were read, and what is in hand *)
(* was answered.                                                            *)
Bookkept ==
    /\ addressed = Nobody => got = {} /\ answer = {}
    /\ \A x \in got : x = <<x[1], x[2]>> /\ x[1] \notin toAsk
    /\ \A r \in answer : <<asked, r>> \in got

TopoInv == Bookkept /\ Unites(edges, ClaimsOf(Added))

LEMMA WantedShape ==
    ASSUME NEW n, NEW r
    PROVE  /\ Shaped(Wanted(n, r))
           /\ \A v, w \in Wanted(n, r) : v[1] = w[1] /\ v # w => v[1][1] = "vlan"
<1>1. CASE r.layer = "vlan"
  BY <1>1, DetailAssumption DEF Wanted, Shaped
<1>2. CASE r.layer # "vlan"
  BY <1>2 DEF Wanted, Shaped
<1> QED BY <1>1, <1>2

LEMMA ClaimsShape == ASSUME NEW set PROVE Shaped(ClaimsOf(set))
BY WantedShape DEF ClaimsOf, Shaped

LEMMA OneClaimMore ==
    ASSUME NEW set, NEW n, NEW r
    PROVE  ClaimsOf(set \cup {<<n, r>>}) = ClaimsOf(set) \cup Wanted(n, r)
<1>1. \A c : c \in ClaimsOf(set \cup {<<n, r>>}) <=> \E x \in set \cup {<<n, r>>} : c \in Wanted(x[1], x[2])
  BY DEF ClaimsOf
<1>2. \A c : c \in ClaimsOf(set) <=> \E x \in set : c \in Wanted(x[1], x[2])
  BY DEF ClaimsOf
<1>3. \A c : (\E x \in set \cup {<<n, r>>} : c \in Wanted(x[1], x[2]))
              <=> (\E x \in set : c \in Wanted(x[1], x[2])) \/ c \in Wanted(n, r)
  <2>1. <<n, r>>[1] = n /\ <<n, r>>[2] = r
    OBVIOUS
  <2> DEFINE Of(c, x) == c \in Wanted(x[1], x[2])
  <2>2. \A c : Of(c, <<n, r>>) <=> c \in Wanted(n, r)
    BY <2>1
  <2>3. \A c : (\E x \in set \cup {<<n, r>>} : Of(c, x)) <=> (\E x \in set : Of(c, x)) \/ Of(c, <<n, r>>)
    <3> HIDE DEF Of
    <3> QED OBVIOUS
  <2> QED BY <2>2, <2>3
<1> QED BY <1>1, <1>2, <1>3

(* One report more, as addEdge and addPseudo add it. *)
LEMMA AddUnites ==
    ASSUME NEW E, NEW F, NEW C, NEW W, NEW new,
           Unites(E, C), Shaped(C), Shaped(W),
           \A v, w \in W : v[1] = w[1] /\ v # w => v[1][1] = "vlan",
           new \subseteq W,
           \A w \in W : w \in new <=> ~(w[1] \in DOMAIN E /\ (w[1][1] = "vlan" \/ E[w[1]] # Default)),
           DOMAIN F = DOMAIN E \cup {w[1] : w \in new},
           \A k \in DOMAIN F : IF \E w \in new : w[1] = k
                              THEN \E w \in new : w[1] = k /\ F[k] = w[2]
                              ELSE F[k] = E[k]
    PROVE  Unites(F, C \cup W)
<1>1. DOMAIN F = {c[1] : c \in C \cup W}
  BY DEF Unites
<1>2. ASSUME NEW k \in DOMAIN F
      PROVE  /\ <<k, F[k]>> \in C \cup W
             /\ F[k] = Default => \A c \in C \cup W : c[1] = k => c[2] = Default
  <2>1. CASE \E w \in new : w[1] = k
    <3>1. PICK w \in new : w[1] = k /\ F[k] = w[2]
      BY <2>1
    <3>2. w \in W /\ w = <<k, F[k]>>
      BY <3>1 DEF Shaped
    <3>3. ASSUME F[k] = Default, NEW c \in C \cup W, c[1] = k PROVE c[2] = Default
      <4>1. k[1] # "vlan"
        BY <3>1, <3>2, <3>3 DEF Shaped
      <4>2. CASE c \in W
        BY <3>1, <3>2, <3>3, <4>1, <4>2
      <4>3. CASE c \in C
        <5>1. k \in DOMAIN E /\ E[k] = Default
          BY <3>1, <3>3, <4>3 DEF Unites
        <5> QED BY <3>3, <4>3, <5>1 DEF Unites
      <4> QED BY <3>3, <4>2, <4>3
    <3> QED BY <3>2, <3>3
  <2>2. CASE ~ \E w \in new : w[1] = k
    <3>1. k \in DOMAIN E /\ F[k] = E[k]
      BY <2>2
    <3>2. ASSUME F[k] = Default, NEW c \in C \cup W, c[1] = k PROVE c[2] = Default
      <4>1. k[1] # "vlan"
        <5>1. <<k, E[k]>> \in C /\ E[k] = Default
          BY <3>1, <3>2 DEF Unites
        <5> QED BY <5>1 DEF Shaped
      <4>2. c \notin W
        BY <2>2, <3>1, <3>2, <4>1
      <4> QED BY <3>1, <3>2, <4>2 DEF Unites
    <3> QED BY <3>1, <3>2 DEF Unites
  <2> QED BY <2>1, <2>2
<1> QED BY <1>1, <1>2 DEF Unites

(* "Keep the more specific non-default detail so the merge is               *)
(* order-independent" (main.go:119), for every order of nodes and reports.  *)
THEOREM GraphCorrect == TopoSpec => []GraphIsUnion
<1>1. TopoInit => TopoInv
  BY DEF TopoInit, TopoInv, Bookkept, Unites, ClaimsOf, Added
<1>2. TopoInv /\ [TopoNext]_topoVars => TopoInv'
  <2> SUFFICES ASSUME TopoInv, [TopoNext]_topoVars PROVE TopoInv'
    OBVIOUS
  <2>1. CASE ReadAddresses
    <3>1. got = {} /\ answer = {} /\ UNCHANGED <<got, answer, edges, asked, toAsk>>
      BY <2>1 DEF ReadAddresses, TopoInv, Bookkept
    <3>2. ClaimsOf(Added) = {} /\ ClaimsOf(Added)' = {}
      BY <3>1 DEF ClaimsOf, Added
    <3> QED BY <3>1, <3>2 DEF TopoInv, Bookkept, Unites
  <2>2. ASSUME NEW n \in Inventory, AskNode(n) PROVE TopoInv'
    <3>1. /\ addressed' = addressed /\ addressed # Nobody /\ edges' = edges
          /\ answer = {} /\ n \in toAsk /\ asked' = n /\ toAsk' = toAsk \ {n}
          /\ got' = got \cup {<<n, r>> : r \in answer'}
      BY <2>2 DEF AskNode
    <3>2. Bookkept'
      BY <3>1 DEF TopoInv, Bookkept
    <3>3. Added = got /\ Added' = got
      BY <3>1 DEF TopoInv, Bookkept, Added
    <3>4. ClaimsOf(Added)' = ClaimsOf(Added)
      BY <3>1, <3>3 DEF ClaimsOf, Wanted, Peer, Owner
    <3> QED BY <3>1, <3>2, <3>4 DEF TopoInv, Unites
  <2>3. ASSUME NEW r \in answer, AddReport(r) PROVE TopoInv'
    <3>1. /\ UNCHANGED <<addressed, toAsk, asked, got>>
          /\ answer' = answer \ {r} /\ <<asked, r>> \in got
      BY <2>3 DEF AddReport, TopoInv, Bookkept
    <3>2. Bookkept'
      BY <3>1, <2>3 DEF TopoInv, Bookkept
    <3>3. Added' = Added \cup {<<asked, r>>}
      BY <3>1, <2>3 DEF TopoInv, Bookkept, Added
    <3>4. ClaimsOf(Added)' = ClaimsOf(Added) \cup Wanted(asked, r)
      <4>1. ClaimsOf(Added)' = ClaimsOf(Added')
        BY <3>1 DEF ClaimsOf, Wanted, Peer, Owner
      <4> QED BY <3>3, <4>1, OneClaimMore
    <3>5. Unites(edges', ClaimsOf(Added) \cup Wanted(asked, r))
      <4> DEFINE new == {w \in Wanted(asked, r) : ~Stays(w[1])}
      <4>1. /\ DOMAIN edges' = DOMAIN edges \cup {w[1] : w \in new}
            /\ \A k \in DOMAIN edges' : IF \E w \in new : w[1] = k
                                       THEN \E w \in new : w[1] = k /\ edges'[k] = w[2]
                                       ELSE edges'[k] = edges[k]
        <5>1. edges' = [k \in DOMAIN edges \cup {w[1] : w \in new} |->
                          IF \E w \in new : w[1] = k
                          THEN (CHOOSE w \in new : w[1] = k)[2] ELSE edges[k]]
          BY <2>3 DEF AddReport
        <5> HIDE DEF new
        <5> QED BY <5>1
      <4>2. /\ new \subseteq Wanted(asked, r)
            /\ \A w \in Wanted(asked, r) : w \in new <=>
                  ~(w[1] \in DOMAIN edges /\ (w[1][1] = "vlan" \/ edges[w[1]] # Default))
        BY DEF Stays
      <4>3. Unites(edges, ClaimsOf(Added)) /\ Shaped(ClaimsOf(Added)) /\ Shaped(Wanted(asked, r))
        BY ClaimsShape, WantedShape DEF TopoInv
      <4>4. \A v, w \in Wanted(asked, r) : v[1] = w[1] /\ v # w => v[1][1] = "vlan"
        BY WantedShape
      <4> HIDE DEF new
      <4> QED BY ONLY <4>1, <4>2, <4>3, <4>4, AddUnites, SMTT(40)
    <3> QED BY <3>2, <3>4, <3>5 DEF TopoInv, Unites
  <2>4. CASE UNCHANGED topoVars
    <3>1. UNCHANGED <<addressed, toAsk, answer, asked, edges, got>>
      BY <2>4 DEF topoVars
    <3>2. ClaimsOf(Added)' = ClaimsOf(Added)
      BY <3>1 DEF ClaimsOf, Added, Wanted, Peer, Owner
    <3>3. Bookkept'
      BY <3>1 DEF TopoInv, Bookkept
    <3> QED BY <3>1, <3>2, <3>3 DEF TopoInv, Unites
  <2> QED BY <2>1, <2>2, <2>3, <2>4 DEF TopoNext
<1>3. TopoInv => GraphIsUnion
  <2> SUFFICES ASSUME TopoInv, answer = {} PROVE Unites(edges, Claims)
    BY DEF GraphIsUnion, Unites
  <2>1. Added = got
    BY DEF Added
  <2> QED BY <2>1 DEF TopoInv, ClaimsOf, Claims
<1> QED BY <1>1, <1>2, <1>3, PTL DEF TopoSpec

===============================================================================
