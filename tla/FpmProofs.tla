------------------------------ MODULE FpmProofs -------------------------------
(***************************************************************************)
(* FpmRoutes: what zebra pushed last is what is shown.  Proved for any     *)
(* nexthop ids, gateways, tables, prefixes, depth and bounds.              *)
(***************************************************************************)
EXTENDS FpmRoutes, NaturalsInduction, WellFoundedInduction, TLAPS

----------------------------------------------------------------------------
(* Recursion over the naturals: the set of the numbers that something is   *)
(* true of, and a function that is given by its first value and its step.  *)
LEMMA NatSetInduction ==
    ASSUME NEW S, 0 \in S, \A n \in S \cap Nat : n + 1 \in S
    PROVE  Nat \subseteq S
<1> DEFINE R == OpToRel(<, Nat)
           T == Nat \ S
<1>1. IsWellFoundedOn(R, Nat)
  BY NatLessThanWellFounded
<1>2. SUFFICES ASSUME T # {} PROVE FALSE
  OBVIOUS
<1>3. \E x \in T : \A y \in T : ~ (<<y, x>> \in R)
  <2> HIDE DEF R
  <2>1. T \subseteq Nat
    OBVIOUS
  <2> HIDE DEF T
  <2> QED BY <1>1, <1>2, <2>1, WFMin
<1>4. \A x, y \in Nat : <<y, x>> \in R <=> y < x
  BY DEF OpToRel
<1> HIDE DEF R
<1>5. PICK x \in T : \A y \in T : ~ (y < x)
  BY <1>3, <1>4
<1>6. x # 0 /\ x - 1 \in Nat
  OBVIOUS
<1>7. x - 1 \in S
  BY <1>5, <1>6
<1>8. (x - 1) + 1 = x
  BY <1>5
<1> QED BY <1>6, <1>7, <1>8

Iterates(f, S, a, F) ==
    f \in [Nat -> S] /\ f[0] = a /\ \A n \in Nat : f[n + 1] = F[<<n, f[n]>>]

LEMMA Iteration ==
    ASSUME NEW S, NEW a \in S, NEW F \in [Nat \X S -> S]
    PROVE  \E f : Iterates(f, S, a, F)
<1> DEFINE Begins(f, n) == f[0] = a /\ \A i \in 0 .. n - 1 : f[i + 1] = F[<<i, f[i]>>]
           Far == {n \in Nat : \E f \in [0 .. n -> S] : Begins(f, n)}
<1>1. Nat \subseteq Far
  <2>1. 0 \in Far
    <3>1. [i \in 0 .. 0 |-> a] \in [0 .. 0 -> S] /\ Begins([i \in 0 .. 0 |-> a], 0)
      OBVIOUS
    <3> QED BY <3>1
  <2>2. ASSUME NEW n \in Far PROVE n + 1 \in Far
    <3>1. PICK f \in [0 .. n -> S] : Begins(f, n)
      BY <2>2
    <3> DEFINE last == F[<<n, f[n]>>]
               g == [i \in 0 .. n + 1 |-> IF i = n + 1 THEN last ELSE f[i]]
    <3>0. n \in Nat
      BY <2>2
    <3> HIDE DEF Far
    <3>2. g \in [0 .. n + 1 -> S]
      <4>1. f[n] \in S
        BY <3>0
      <4>2. last \in S
        BY <3>0, <4>1
      <4> HIDE DEF last
      <4> QED BY <3>0, <4>2
    <3>3. g[0] = a
      BY <3>0, <3>1
    <3>4. ASSUME NEW i \in 0 .. (n + 1) - 1 PROVE g[i + 1] = F[<<i, g[i]>>]
      <4>1. i \in 0 .. n /\ i # n + 1
        BY <3>0
      <4>2. g[i] = f[i]
        BY <3>0, <4>1
      <4>3. CASE i = n
        <5>1. g[n + 1] = last
          <6> HIDE DEF last
          <6> QED BY <3>0
        <5> QED BY <4>2, <4>3, <5>1
      <4>4. CASE i # n
        <5>1. i \in 0 .. n - 1 /\ i + 1 \in 0 .. n + 1 /\ i + 1 # n + 1
          BY <3>0, <4>1, <4>4
        <5>2. g[i + 1] = f[i + 1]
          BY <5>1
        <5> QED BY <3>1, <4>2, <5>1, <5>2
      <4> QED BY <4>3, <4>4
    <3>5. Begins(g, n + 1)
      BY <3>3, <3>4
    <3> HIDE DEF g, Begins
    <3> QED BY <3>0, <3>2, <3>5 DEF Far
  <2> HIDE DEF Far
  <2> QED BY <2>1, <2>2, NatSetInduction
<1>2. ASSUME NEW m \in Nat, NEW n \in Nat, NEW f \in [0 .. m -> S], NEW g \in [0 .. n -> S],
             Begins(f, m), Begins(g, n), NEW k \in Nat, k <= m, k <= n
      PROVE  f[k] = g[k]
  <2> DEFINE Same == {i \in Nat : i <= m /\ i <= n => f[i] = g[i]}
  <2>1. 0 \in Same
    BY <1>2
  <2>2. ASSUME NEW i \in Same \cap Nat PROVE i + 1 \in Same
    <3>1. SUFFICES ASSUME i + 1 <= m, i + 1 <= n PROVE f[i + 1] = g[i + 1]
      OBVIOUS
    <3>2. i \in 0 .. m - 1 /\ i \in 0 .. n - 1 /\ f[i] = g[i]
      BY <2>2, <3>1
    <3> QED BY <1>2, <3>2
  <2>3. Nat \subseteq Same
    <3> HIDE DEF Same
    <3> QED BY <2>1, <2>2, NatSetInduction
  <2> QED BY <1>2, <2>3
<1> DEFINE h == [n \in Nat |-> CHOOSE f \in [0 .. n -> S] : Begins(f, n)]
           r == [n \in Nat |-> h[n][n]]
<1>3. \A n \in Nat : h[n] \in [0 .. n -> S] /\ Begins(h[n], n)
  BY <1>1
<1> HIDE DEF h
<1>4. r \in [Nat -> S] /\ r[0] = a
  <2>1. ASSUME NEW n \in Nat PROVE h[n][n] \in S
    <3>1. h[n] \in [0 .. n -> S] /\ n \in 0 .. n
      BY <1>3
    <3> QED BY <3>1
  <2>2. h[0][0] = a
    BY <1>3
  <2> QED BY <2>1, <2>2
<1>5. ASSUME NEW n \in Nat PROVE r[n + 1] = F[<<n, r[n]>>]
  <2>1. h[n + 1] \in [0 .. n + 1 -> S] /\ Begins(h[n + 1], n + 1) /\ n \in 0 .. (n + 1) - 1
    <3>1. n + 1 \in Nat /\ n \in 0 .. (n + 1) - 1
      OBVIOUS
    <3> HIDE DEF Begins
    <3> QED BY <1>3, <3>1
  <2>2. h[n + 1][n + 1] = F[<<n, h[n + 1][n]>>]
    BY <2>1
  <2>3. h[n] \in [0 .. n -> S] /\ Begins(h[n], n)
    <3> HIDE DEF Begins
    <3> QED BY <1>3
  <2>4. n <= n /\ n <= n + 1 /\ n + 1 \in Nat
    OBVIOUS
  <2> HIDE DEF Begins
  <2>5. h[n + 1][n] = h[n][n]
    BY <1>2, <2>1, <2>3, <2>4
  <2> QED BY <2>2, <2>4, <2>5
<1> HIDE DEF r
<1> QED BY <1>4, <1>5 DEF Iterates

----------------------------------------------------------------------------
(* resolveNH                                                               *)
NhTables == [Ids -> Objects \union {None}]

LEMMA ObjectFacts ==
    /\ None \notin Objects /\ None \notin Shows /\ None \notin Job /\ None \notin Labelled
    /\ MaxDepth \in Nat /\ MaxSends \in Nat /\ MaxSessions \in Nat
    /\ MaxFaults \in Nat
    /\ \A o \in Refs : o \in Objects /\ o.to \in Ids /\ o.kind = "see"
    /\ \A o \in Objects : \/ o.kind = "blackhole"
                          \/ o.kind = "via" /\ o.to \in Gateways
                          \/ o.kind = "see" /\ o \in Refs
BY FpmAssumption, NoneAssumption DEF Objects, Refs, Hops, Blackhole, Shows

LEMMA ReachedFacts ==
    ASSUME NEW table \in NhTables, NEW object \in Objects
    PROVE  /\ Reached(table, object) \in [Nat -> Objects]
           /\ Reached(table, object)[0] = object
           /\ \A n \in Nat : Reached(table, object)[n + 1] = LookUp(table, Reached(table, object)[n])
<1> DEFINE F == [x \in Nat \X Objects |-> LookUp(table, x[2])]
           At == Reached(table, object)
<1>1. \A o \in Objects : LookUp(table, o) \in Objects
  BY ObjectFacts DEF LookUp, NhTables
<1>2. F \in [Nat \X Objects -> Objects] /\ \A n \in Nat, o \in Objects : F[<<n, o>>] = LookUp(table, o)
  BY <1>1
<1> HIDE DEF F
<1>3. PICK f : Iterates(f, Objects, object, F)
  BY <1>2, Iteration
<1>4. \A n \in Nat : f[n] = IF n = 0 THEN object ELSE LookUp(table, f[n - 1])
  <2>1. ASSUME NEW n \in Nat, n # 0 PROVE f[n] = LookUp(table, f[n - 1])
    <3>1. n - 1 \in Nat /\ (n - 1) + 1 = n
      BY <2>1
    <3>2. f[n - 1] \in Objects /\ f[(n - 1) + 1] = F[<<n - 1, f[n - 1]>>]
      BY <1>3, <3>1 DEF Iterates
    <3> QED BY <1>2, <3>1, <3>2
  <2> QED BY <1>3, <2>1 DEF Iterates
<1>5. f = [n \in Nat |-> IF n = 0 THEN object ELSE LookUp(table, f[n - 1])]
  BY <1>3, <1>4 DEF Iterates
<1>6. At = CHOOSE g : g = [n \in Nat |-> IF n = 0 THEN object ELSE LookUp(table, g[n - 1])]
  BY DEF Reached
<1>7. At = [n \in Nat |-> IF n = 0 THEN object ELSE LookUp(table, At[n - 1])]
  BY <1>5, <1>6
<1> HIDE DEF At
<1>8. At[0] = object /\ \A n \in Nat : At[n + 1] = LookUp(table, At[n])
  <2>1. \A n \in Nat : At[n] = IF n = 0 THEN object ELSE LookUp(table, At[n - 1])
    BY <1>7, Zenon
  <2>2. ASSUME NEW n \in Nat PROVE At[n + 1] = LookUp(table, At[n])
    <3>1. n + 1 \in Nat /\ n + 1 # 0 /\ (n + 1) - 1 = n
      OBVIOUS
    <3> QED BY <2>1, <3>1
  <2>3. 0 \in Nat
    OBVIOUS
  <2> QED BY <2>1, <2>2, <2>3
<1>9. \A n \in Nat : At[n] \in Objects
  <2> DEFINE T == {n \in Nat : At[n] \in Objects}
  <2>1. 0 \in T /\ \A n \in T \cap Nat : n + 1 \in T
    BY <1>1, <1>8
  <2> HIDE DEF T
  <2>2. Nat \subseteq T
    BY <2>1, NatSetInduction
  <2> QED BY <2>2 DEF T
<1>10. At \in [Nat -> Objects]
  BY <1>7, <1>9
<1> QED BY <1>8, <1>10 DEF At

LEMMA ShownType ==
    ASSUME NEW table \in NhTables, NEW object \in Objects
    PROVE  Shown(table, object) \in Shows
<1> DEFINE o == Reached(table, object)[MaxDepth + 1]
<1>1. o \in Objects
  BY ReachedFacts, ObjectFacts
<1>2. Shown(table, object) = IF o.kind = "blackhole" THEN "blackhole"
                             ELSE IF o.kind = "via" THEN o.to ELSE "-"
  BY DEF Shown
<1> HIDE DEF o
<1> QED BY <1>1, <1>2, ObjectFacts DEF Shows

\* No reference leads to an object that is not there.
Closed(z) == \A id \in Ids : z[id] \in Refs => z[z[id].to] # None

\* A table that has all of a closed one shows what that one shows.
LEMMA ShownSame ==
    ASSUME NEW z \in NhTables, NEW n \in NhTables, Closed(z), NEW object \in Objects,
           object \in Refs => z[object.to] # None,
           \A id \in Ids : z[id] # None => n[id] = z[id]
    PROVE  Shown(n, object) = Shown(z, object)
<1> DEFINE Z == Reached(z, object)
           N == Reached(n, object)
           T == {k \in Nat : N[k] = Z[k] /\ (Z[k] \in Refs => z[Z[k].to] # None)}
<1>1. /\ Z \in [Nat -> Objects] /\ Z[0] = object /\ \A k \in Nat : Z[k + 1] = LookUp(z, Z[k])
      /\ N \in [Nat -> Objects] /\ N[0] = object /\ \A k \in Nat : N[k + 1] = LookUp(n, N[k])
  BY ReachedFacts
<1> HIDE DEF Z, N
<1>2. 0 \in T
  BY <1>1
<1>3. ASSUME NEW k \in T \cap Nat PROVE k + 1 \in T
  <2>1. k \in Nat /\ Z[k] \in Objects /\ N[k] = Z[k] /\ (Z[k] \in Refs => z[Z[k].to] # None)
    BY <1>1
  <2>2. CASE Z[k] \in Refs
    <3>1. Z[k].to \in Ids /\ z[Z[k].to] # None /\ n[Z[k].to] = z[Z[k].to]
      BY <2>1, <2>2, ObjectFacts
    <3>2. Z[k + 1] = z[Z[k].to] /\ N[k + 1] = n[Z[k].to]
      BY <1>1, <2>1, <2>2, <3>1 DEF LookUp
    <3> QED BY <3>1, <3>2 DEF Closed
  <2>3. CASE Z[k] \notin Refs
    <3>1. Z[k + 1] = Z[k] /\ N[k + 1] = N[k]
      BY <1>1, <2>1, <2>3 DEF LookUp
    <3> QED BY <2>1, <3>1
  <2> QED BY <2>2, <2>3
<1>4. Nat \subseteq T
  <2> HIDE DEF T
  <2> QED BY <1>2, <1>3, NatSetInduction
<1>5. MaxDepth + 1 \in Nat
  BY ObjectFacts
<1>6. N[MaxDepth + 1] = Z[MaxDepth + 1]
  BY <1>4, <1>5
<1> QED BY <1>6 DEF Shown, Z, N

----------------------------------------------------------------------------
(* Messages, jobs and leaves                                               *)
Message == NexthopMsg \union RouteMsg

Naming(r) == {m \in RouteMsg : m.route = r}

LEMMA MessageFacts ==
    /\ \A m \in Message : m.op = "nexthop" =>
          /\ m \in NexthopMsg /\ m.id \in Ids /\ m.object \in Objects \union {None}
          /\ \A r : m \notin Naming(r)
    /\ \A m \in Message : m.op = "route" =>
          /\ m \in RouteMsg /\ m.route \in Routes /\ m.object \in Objects \union {None}
          /\ m \in Naming(m.route) /\ \A r : r # m.route => m \notin Naming(r)
    /\ \A m \in Message : m.op \in {"nexthop", "route"}
    /\ \A r : \A m \in Naming(r) : m \in Message /\ m.op = "route" /\ m.route = r
    /\ \A id \in Ids, o \in Objects \union {None} :
          [op |-> "nexthop", id |-> id, object |-> o] \in Message
    /\ \A r \in Routes, o \in Objects \union {None} :
          [op |-> "route", route |-> r, object |-> o] \in Message
BY DEF Message, NexthopMsg, RouteMsg, Naming

LEMMA InstanceFacts ==
    /\ \A r \in Routes : r[1] \in Tables /\ r[2] \in Prefixes /\ r = <<r[1], r[2]>>
    /\ \A t \in Tables : \A names :
          /\ Instance(t, names) \in Instances /\ Instance(t, names)[2] = t
          /\ t \in names => Instance(t, names) = <<"vrf", t>>
          /\ t \notin names => Instance(t, names) = <<"table", t>>
    /\ \A i \in Instances : i[2] \in Tables
    /\ \A t \in Tables : <<"table", t>> \in Instances /\ <<"vrf", t>> \in Instances
                         /\ <<"table", t>> # <<"vrf", t>>
    /\ \A j \in Job : j.instance \in Instances /\ j.prefix \in Prefixes /\ j.show \in Shows \union {None}
BY DEF Routes, Instance, Instances, Job

LEMMA StreamType == TypeOK => stream \in [Sessions -> Seq(Message)]
BY DEF TypeOK, Message

LEMMA SendsEffect ==
    ASSUME TypeOK, NEW msg \in Message, Sends(msg)
    PROVE  /\ session > 0 /\ session \in Sessions /\ sends' \in 0 .. MaxSends
           /\ stream' \in [Sessions -> Seq(Message)]
           /\ stream'[session] = Append(stream[session], msg)
           /\ \A s \in Sessions : s # session => stream'[s] = stream[s]
<1>1. session \in Sessions /\ session > 0
  BY DEF Sends, TypeOK, Sessions
<1>2. sends' \in 0 .. MaxSends
  BY ObjectFacts DEF Sends, TypeOK
<1>3. stream \in [Sessions -> Seq(Message)]
  BY StreamType
<1>4. Append(stream[session], msg) \in Seq(Message)
  BY <1>1, <1>3
<1> QED BY <1>1, <1>2, <1>3, <1>4 DEF Sends

LEMMA TailTyped ==
    ASSUME TypeOK, NEW s \in Sessions, stream[s] # <<>>, stream' = [stream EXCEPT ![s] = Tail(@)]
    PROVE  /\ stream[s] \in Seq(Message) /\ Head(stream[s]) \in Message
           /\ stream' \in [Sessions -> Seq(Message)] /\ stream'[s] = Tail(stream[s])
           /\ \A q \in Sessions : q # s => stream'[q] = stream[q]
<1>1. stream \in [Sessions -> Seq(Message)]
  BY StreamType
<1>2. Tail(stream[s]) \in Seq(Message) /\ Head(stream[s]) \in Message
  BY <1>1
<1> QED BY <1>1, <1>2

\* What a route that refers to the object shows.
ShowOf(z, object) == IF object = None THEN None ELSE Shown(z, object)

LEMMA TakeRouteJob ==
    ASSUME TypeOK, NEW s \in Sessions, TakeRoute(s)
    PROVE  /\ Head(stream[s]) \in Message /\ Head(stream[s]).op = "route"
           /\ job'[s] \in Job /\ job'[s].instance = Instance(Head(stream[s]).route[1], known')
           /\ job'[s].prefix = Head(stream[s]).route[2]
           /\ job'[s].show = ShowOf(nh, Head(stream[s]).object)
           /\ job' \in [Sessions -> Job \union {None}]
           /\ \A q \in Sessions : q # s => job'[q] = job[q]
<1> DEFINE msg == Head(stream[s])
           show == IF msg.object = None THEN None ELSE Shown(nh, msg.object)
           j == [instance |-> Instance(msg.route[1], known'), prefix |-> msg.route[2], show |-> show]
<1>1. job' = [job EXCEPT ![s] = j] /\ msg.op = "route" /\ msg \in Message
  BY TailTyped DEF TakeRoute
<1>2. msg.route \in Routes /\ msg.object \in Objects \union {None}
  BY <1>1, MessageFacts
<1>3. show \in Shows \union {None}
  BY <1>2, ShownType DEF TypeOK, NhTables
<1>4. show = ShowOf(nh, msg.object)
  BY DEF ShowOf
<1> HIDE DEF msg, show
<1>5. msg.route[1] \in Tables /\ msg.route[2] \in Prefixes /\ Instance(msg.route[1], known') \in Instances
  BY <1>2, InstanceFacts
<1>6. j \in Job /\ j.instance = Instance(msg.route[1], known') /\ j.prefix = msg.route[2] /\ j.show = show
  BY <1>3, <1>5 DEF Job
<1> HIDE DEF j
<1>7. job'[s] = j /\ job' \in [Sessions -> Job \union {None}]
      /\ \A q \in Sessions : q # s => job'[q] = job[q]
  BY <1>1, <1>6 DEF TypeOK
<1> QED BY <1>1, <1>4, <1>6, <1>7 DEF msg

----------------------------------------------------------------------------
(* Types                                                                   *)
LEMMA ResolveTypes ==
    ASSUME TypeOK, NEW table, Resolve(table)
    PROVE  known' \in SUBSET VrfTables /\ late' \in SUBSET VrfTables /\ faults' \in 0 .. MaxFaults
<1>1. CASE known' = Refreshed(table) /\ UNCHANGED <<faults, late>>
  BY <1>1 DEF Refreshed, TypeOK
<1>2. CASE /\ faults < MaxFaults /\ faults' = faults + 1 /\ known' \in Stale(table)
           /\ late' = late \union ({table} \intersect (vrfs \ known'))
  BY <1>2, ObjectFacts DEF Stale, TypeOK
<1> QED BY <1>1, <1>2 DEF Resolve

LEMMA Types == ASSUME TypeOK, [Next]_vars PROVE TypeOK'
<1>a. stream' \in [Sessions -> Seq(Message)] => stream' \in [Sessions -> Seq(NexthopMsg \union RouteMsg)]
  BY DEF Message
<1>0. stream \in [Sessions -> Seq(Message)]
  BY StreamType
<1>1. ASSUME NEW kept \in 0 .. IF session = 0 THEN 0 ELSE Len(stream[session]), Connect(kept)
      PROVE  TypeOK'
  <2>1. session' \in 0 .. MaxSessions
    BY <1>1, ObjectFacts DEF Connect, TypeOK
  <2>2. stream' \in [Sessions -> Seq(Message)]
    <3>1. CASE session = 0
      BY <1>0, <1>1, <3>1 DEF Connect
    <3>2. CASE session # 0
      <4>1. session \in Sessions
        BY <3>2 DEF TypeOK, Sessions
      <4>2. SubSeq(stream[session], 1, kept) \in Seq(Message)
        BY <1>0, <1>1, <3>2, <4>1
      <4> QED BY <1>0, <1>1, <3>2, <4>2 DEF Connect
    <3> QED BY <3>1, <3>2
  <2> QED BY <1>1, <1>a, <2>1, <2>2 DEF Connect, nameVars, leafVars, histVars, TypeOK
<1>2. ASSUME NEW msg \in Message, Sends(msg), znh' \in NhTables, pushed' \in [Routes -> Shows \union {None}],
             UNCHANGED <<session, vrfs, nh, nameVars, job, leafVars, histVars>>
      PROVE  TypeOK'
  <2>1. sends' \in 0 .. MaxSends /\ stream' \in [Sessions -> Seq(Message)]
    BY <1>2, SendsEffect
  <2> QED BY <1>2, <1>a, <2>1 DEF nameVars, leafVars, histVars, NhTables, TypeOK
<1>3. ASSUME NEW id \in Ids, NEW object \in Objects \union {None},
             Sends([op |-> "nexthop", id |-> id, object |-> object]),
             znh' = [znh EXCEPT ![id] = object],
             UNCHANGED <<pushed, session, vrfs, nh, nameVars, job, leafVars, histVars>>
      PROVE  TypeOK'
  <2>1. znh' \in NhTables
    BY <1>3 DEF NhTables, TypeOK
  <2> QED BY <1>2, <1>3, <2>1, MessageFacts DEF TypeOK
<1>4. ASSUME NEW r \in Routes, NEW object \in Objects \union {None},
             Sends([op |-> "route", route |-> r, object |-> object]),
             pushed' = [pushed EXCEPT ![r] = ShowOf(znh, object)],
             UNCHANGED <<znh, session, vrfs, nh, nameVars, job, leafVars, histVars>>
      PROVE  TypeOK'
  <2>1. znh \in NhTables
    BY DEF NhTables, TypeOK
  <2>2. ShowOf(znh, object) \in Shows \union {None}
    BY <2>1, ShownType DEF ShowOf
  <2>3. pushed' \in [Routes -> Shows \union {None}]
    BY <1>4, <2>2 DEF TypeOK
  <2> QED BY <1>2, <1>4, <2>1, <2>3, MessageFacts
<1>5. ASSUME NEW table \in VrfTables, VrfAppears(table) PROVE TypeOK'
  BY <1>5 DEF VrfAppears, zebraVars, nameVars, leafVars, TypeOK
<1>6. ASSUME NEW s \in Sessions, Serves(s)
      PROVE  newest' \in 0 .. MaxSessions /\ overtaken' \in BOOLEAN
  BY <1>6, ObjectFacts DEF Serves, Sessions, TypeOK
<1>7. ASSUME NEW s \in Sessions, TakeNexthop(s) PROVE TypeOK'
  <2>1. stream[s] # <<>> /\ stream' = [stream EXCEPT ![s] = Tail(@)] /\ Serves(s)
        /\ nh' = [nh EXCEPT ![Head(stream[s]).id] = Head(stream[s]).object] /\ Head(stream[s]).op = "nexthop"
    BY <1>7 DEF TakeNexthop
  <2>2. stream' \in [Sessions -> Seq(Message)] /\ Head(stream[s]) \in Message
    BY <2>1, TailTyped
  <2>3. nh' \in [Ids -> Objects \union {None}]
    BY <2>1, <2>2, MessageFacts DEF TypeOK
  <2> QED BY <1>6, <1>7, <1>a, <2>1, <2>2, <2>3 DEF TakeNexthop, zebraVars, nameVars, leafVars, TypeOK
<1>8. ASSUME NEW s \in Sessions, TakeRoute(s) PROVE TypeOK'
  <2>1. stream[s] # <<>> /\ stream' = [stream EXCEPT ![s] = Tail(@)] /\ Serves(s)
        /\ Head(stream[s]).op = "route" /\ Resolve(Head(stream[s]).route[1])
    BY <1>8 DEF TakeRoute
  <2>2. stream' \in [Sessions -> Seq(Message)] /\ job' \in [Sessions -> Job \union {None}]
    BY <1>8, <2>1, TailTyped, TakeRouteJob
  <2>3. known' \in SUBSET VrfTables /\ late' \in SUBSET VrfTables /\ faults' \in 0 .. MaxFaults
    BY <2>1, ResolveTypes
  <2> QED BY <1>6, <1>8, <1>a, <2>1, <2>2, <2>3 DEF TakeRoute, zebraVars, leafVars, TypeOK
<1>9. ASSUME NEW s \in Sessions, Write(s) PROVE TypeOK'
  <2>1. job[s] \in Job /\ Serves(s)
    BY <1>9 DEF Write, TypeOK
  <2>2. job[s].show \in Shows \union {None}
    BY <2>1, InstanceFacts
  <2>3. hop' \in [Instances \X Prefixes -> Shows \union {None}]
        /\ label' \in [Instances \X Prefixes -> Labelled \union {None}]
        /\ job' \in [Sessions -> Job \union {None}]
    BY <1>9, <2>2 DEF Write, LabelAfter, TypeOK
  <2> QED BY <1>6, <1>9, <2>1, <2>3 DEF Write, zebraVars, nameVars, TypeOK
<1>10. CASE UNCHANGED vars
  BY <1>10 DEF vars, zebraVars, nameVars, leafVars, histVars, TypeOK
<1>11. ASSUME NEW id \in Ids, NEW object \in Objects, InstallNexthop(id, object) PROVE TypeOK'
  BY <1>3, <1>11 DEF InstallNexthop
<1>12. ASSUME NEW id \in Ids, DeleteNexthop(id) PROVE TypeOK'
  BY <1>3, <1>12 DEF DeleteNexthop
<1>13. ASSUME NEW r \in Routes, NEW object \in Objects, PushRoute(r, object) PROVE TypeOK'
  <2>1. ShowOf(znh, object) = Shown(znh, object)
    BY ObjectFacts DEF ShowOf
  <2> QED BY <1>4, <1>13, <2>1 DEF PushRoute
<1>14. ASSUME NEW r \in Routes, DeleteRoute(r) PROVE TypeOK'
  <2>1. ShowOf(znh, None) = None
    BY DEF ShowOf
  <2> QED BY <1>4, <1>14, <2>1 DEF DeleteRoute
<1> QED BY <1>1, <1>5, <1>7, <1>8, <1>9, <1>10, <1>11, <1>12, <1>13, <1>14 DEF Next, Zebra, Handlers

----------------------------------------------------------------------------
(* Connections that were not made hold nothing, and a leaf is filed under  *)
(* the name its table has now.                                             *)
Unmade ==
    /\ \A s \in Sessions : s > session => stream[s] = <<>> /\ job[s] = None
    /\ \A s \in Sessions : job[s] # None => newest >= s
    /\ newest <= session
    /\ session = 0 => /\ \A l \in Instances \X Prefixes : hop[l] = None
                      /\ \A r \in Routes : pushed[r] = None
    /\ session <= 1 => ~overtaken

Filed ==
    /\ known \subseteq vrfs
    /\ \A s \in Sessions : job[s] # None /\ job[s].instance[2] \notin late =>
           job[s].instance = Instance(job[s].instance[2], vrfs)
    /\ \A i \in Instances, p \in Prefixes :
           hop[<<i, p>>] # None /\ i[2] \notin late => i = Instance(i[2], vrfs)
    /\ \A l \in Instances \X Prefixes : label[l] = LabelOf(hop[l])

LEMMA UnmadeNext == ASSUME TypeOK, Unmade, [Next]_vars PROVE Unmade'
<1>0. /\ session \in Nat /\ newest \in Nat /\ overtaken \in BOOLEAN
      /\ \A s \in Sessions : s \in Nat /\ s >= 1
  BY DEF TypeOK, Sessions
<1>1. ASSUME NEW kept \in 0 .. IF session = 0 THEN 0 ELSE Len(stream[session]), Connect(kept)
      PROVE  Unmade'
  <2>1. session' = session + 1 /\ UNCHANGED <<job, newest, overtaken>>
    BY <1>1 DEF Connect, histVars
  <2>2. \A s \in Sessions : s > session => stream'[s] = stream[s]
    BY <1>0, <1>1 DEF Connect, TypeOK
  <2>3. session' <= 1 => ~overtaken
    BY <1>0, <2>1 DEF Unmade
  <2>4. /\ \A s \in Sessions : s > session' => stream'[s] = <<>> /\ job'[s] = None
        /\ session' # 0
    BY <1>0, <2>1, <2>2 DEF Unmade
  <2> QED BY <1>0, <2>1, <2>3, <2>4 DEF Unmade
<1>2. ASSUME NEW msg \in Message, Sends(msg), UNCHANGED <<session, job, newest, overtaken, hop>>
      PROVE  Unmade'
  BY <1>0, <1>2, SendsEffect DEF Unmade
<1>3. ASSUME NEW s \in Sessions, stream[s] # <<>> \/ job[s] # None, Serves(s),
             \A q \in Sessions : q # s => stream'[q] = stream[q] /\ job'[q] = job[q],
             UNCHANGED session
      PROVE  Unmade'
  <2>1. s <= session
    BY <1>0, <1>3 DEF Unmade
  <2>2. newest' >= s /\ newest' >= newest /\ newest' <= session /\ newest' \in Nat
    BY <1>0, <1>3, <2>1 DEF Serves, Unmade
  <2>3. session <= 1 => ~overtaken'
    <3>1. session <= 1 => ~(s < newest)
      BY <1>0, <2>1 DEF Unmade
    <3> QED BY <1>3, <3>1 DEF Serves, Unmade
  <2>4. session # 0
    BY <1>0, <2>1
  <2>5. \A q \in Sessions : q > session => stream'[q] = <<>> /\ job'[q] = None
    BY <1>0, <1>3, <2>1 DEF Unmade
  <2>6. \A q \in Sessions : job'[q] # None => newest' >= q
    BY <1>0, <1>3, <2>2 DEF Unmade
  <2> QED BY <1>3, <2>2, <2>3, <2>4, <2>5, <2>6 DEF Unmade
<1>4. ASSUME NEW s \in Sessions, TakeNexthop(s) PROVE Unmade'
  <2>1. stream[s] # <<>> /\ stream' = [stream EXCEPT ![s] = Tail(@)] /\ Serves(s) /\ UNCHANGED <<session, job>>
    BY <1>4 DEF TakeNexthop, zebraVars
  <2> QED BY <1>3, <2>1, TailTyped
<1>5. ASSUME NEW s \in Sessions, TakeRoute(s) PROVE Unmade'
  <2>1. stream[s] # <<>> /\ stream' = [stream EXCEPT ![s] = Tail(@)] /\ Serves(s) /\ UNCHANGED session
    BY <1>5 DEF TakeRoute, zebraVars
  <2> QED BY <1>3, <1>5, <2>1, TailTyped, TakeRouteJob
<1>6. ASSUME NEW s \in Sessions, Write(s) PROVE Unmade'
  BY <1>3, <1>6 DEF Write, zebraVars, TypeOK
<1>7. ASSUME UNCHANGED <<session, stream, job, newest, overtaken, hop, pushed>> PROVE Unmade'
  BY <1>7 DEF Unmade
<1>8. ASSUME NEW id \in Ids, NEW object \in Objects, InstallNexthop(id, object) PROVE Unmade'
  BY <1>2, <1>8, MessageFacts DEF InstallNexthop, leafVars, histVars
<1>9. ASSUME NEW id \in Ids, DeleteNexthop(id) PROVE Unmade'
  BY <1>2, <1>9, MessageFacts DEF DeleteNexthop, leafVars, histVars
<1>10. ASSUME NEW r \in Routes, NEW object \in Objects, PushRoute(r, object) PROVE Unmade'
  BY <1>2, <1>10, MessageFacts DEF PushRoute, leafVars, histVars
<1>11. ASSUME NEW r \in Routes, DeleteRoute(r) PROVE Unmade'
  BY <1>2, <1>11, MessageFacts DEF DeleteRoute, leafVars, histVars
<1>12. ASSUME NEW table \in VrfTables, VrfAppears(table) PROVE Unmade'
  BY <1>7, <1>12 DEF VrfAppears, zebraVars, leafVars
<1>13. CASE UNCHANGED vars
  BY <1>7, <1>13 DEF vars, zebraVars, leafVars, histVars
<1> QED BY <1>1, <1>4, <1>5, <1>6, <1>8, <1>9, <1>10, <1>11, <1>12, <1>13 DEF Next, Zebra, Handlers

\* The name that is found for a table is the one it has, or the table is late.
LEMMA NameFound ==
    ASSUME TypeOK, Filed, NEW t \in Tables, Resolve(t)
    PROVE  /\ known' \subseteq vrfs /\ late \subseteq late'
           /\ t \notin late' => Instance(t, known') = Instance(t, vrfs)
<1>1. CASE known' = Refreshed(t) /\ UNCHANGED <<faults, late>>
  BY <1>1 DEF Refreshed, Instance, Filed, TypeOK
<1>2. CASE /\ known' \in Stale(t)
           /\ late' = late \union ({t} \intersect (vrfs \ known'))
  <2>1. known' \subseteq vrfs
    BY <1>2 DEF Stale, Filed
  <2>2. t \notin late' => (t \in known' <=> t \in vrfs)
    BY <1>2, <2>1
  <2> QED BY <1>2, <2>1, <2>2 DEF Instance
<1> QED BY <1>1, <1>2 DEF Resolve

LEMMA FiledNext == ASSUME TypeOK, Filed, [Next]_vars PROVE Filed'
<1>1. ASSUME UNCHANGED <<vrfs, known, job, late, hop, label>> PROVE Filed'
  BY <1>1 DEF Filed
<1>2. ASSUME NEW table \in VrfTables, VrfAppears(table) PROVE Filed'
  <2>1. /\ vrfs' = vrfs \union {table} /\ table \notin vrfs /\ late \subseteq late'
        /\ UNCHANGED <<known, job, hop, label>>
        /\ table \notin late' =>
              /\ \A p \in Prefixes : hop[<<<<"table", table>>, p>>] = None
              /\ \A s \in Sessions : job[s] = None \/ job[s].instance # <<"table", table>>
    BY <1>2 DEF VrfAppears, nameVars, leafVars
  <2>2. table \in Tables
    BY FpmAssumption
  <2>3. Instance(table, vrfs) = <<"table", table>>
    BY <2>1, <2>2, InstanceFacts
  <2>4. \A t : t # table => Instance(t, vrfs') = Instance(t, vrfs)
    BY <2>1 DEF Instance
  <2>5. ASSUME NEW s \in Sessions, job[s] # None, job[s].instance[2] \notin late'
        PROVE  job[s].instance = Instance(job[s].instance[2], vrfs')
    <3>1. job[s].instance = Instance(job[s].instance[2], vrfs)
      BY <2>1, <2>5 DEF Filed
    <3>2. job[s].instance[2] # table
      BY <2>1, <2>3, <2>5, <3>1
    <3> QED BY <2>4, <3>1, <3>2
  <2>6. ASSUME NEW i \in Instances, NEW p \in Prefixes, hop[<<i, p>>] # None, i[2] \notin late'
        PROVE  i = Instance(i[2], vrfs')
    <3>1. i = Instance(i[2], vrfs)
      BY <2>1, <2>6 DEF Filed
    <3>2. i[2] # table
      BY <2>1, <2>3, <2>6, <3>1
    <3> QED BY <2>4, <3>1, <3>2
  <2> QED BY <2>1, <2>5, <2>6 DEF Filed
<1>3. ASSUME NEW s \in Sessions, TakeRoute(s) PROVE Filed'
  <2> DEFINE t == Head(stream[s]).route[1]
  <2>1. /\ Head(stream[s]) \in Message /\ Head(stream[s]).op = "route"
        /\ job'[s] \in Job /\ job'[s].instance = Instance(t, known')
        /\ \A q \in Sessions : q # s => job'[q] = job[q]
    BY <1>3, TakeRouteJob
  <2>2. t \in Tables
    BY <2>1, MessageFacts, InstanceFacts
  <2>3. Resolve(t) /\ UNCHANGED <<vrfs, hop, label>>
    BY <1>3 DEF TakeRoute, leafVars
  <2> HIDE DEF t
  <2>4. /\ known' \subseteq vrfs /\ late \subseteq late' /\ Instance(t, known')[2] = t
        /\ t \notin late' => Instance(t, known') = Instance(t, vrfs)
    BY <2>2, <2>3, NameFound, InstanceFacts
  <2> QED BY <2>1, <2>3, <2>4 DEF Filed
<1>4. ASSUME NEW s \in Sessions, Write(s) PROVE Filed'
  <2> DEFINE leaf == <<job[s].instance, job[s].prefix>>
  <2>1. /\ job[s] # None /\ hop' = [hop EXCEPT ![leaf] = job[s].show]
        /\ label' = [label EXCEPT ![leaf] = LabelAfter(@, job[s].show)]
        /\ job' = [job EXCEPT ![s] = None] /\ UNCHANGED <<vrfs, known, late>>
    BY <1>4 DEF Write, nameVars
  <2>2. job[s] \in Job
    BY <2>1 DEF TypeOK
  <2>3. job[s].instance \in Instances /\ job[s].prefix \in Prefixes
    BY <2>2, InstanceFacts
  <2>4. \A i \in Instances, p \in Prefixes : hop'[<<i, p>>] # hop[<<i, p>>] => i = job[s].instance
    BY <2>1, <2>3 DEF TypeOK
  <2>5. \A i \in Instances, p \in Prefixes :
           hop'[<<i, p>>] # None /\ i[2] \notin late => i = Instance(i[2], vrfs)
    BY <2>1, <2>4 DEF Filed
  <2>6. \A l \in Instances \X Prefixes : label'[l] = LabelOf(hop'[l])
    BY <2>1, <2>3 DEF Filed, LabelAfter, LabelOf, TypeOK
  <2>7. \A q \in Sessions : job'[q] # None => job'[q] = job[q]
    BY <2>1 DEF TypeOK
  <2> QED BY <2>1, <2>5, <2>6, <2>7 DEF Filed
<1>5. (Zebra \/ (\E s \in Sessions : TakeNexthop(s)) \/ UNCHANGED vars)
         => UNCHANGED <<vrfs, known, job, late, hop, label>>
  BY DEF Zebra, Connect, InstallNexthop, DeleteNexthop, PushRoute, DeleteRoute, TakeNexthop,
     nameVars, leafVars, histVars, vars
<1> QED BY <1>1, <1>2, <1>3, <1>4, <1>5 DEF Next, Handlers

----------------------------------------------------------------------------
(* What a connection still holds, read from nexthop table to nexthop       *)
(* table: the last table is the one zebra has.                             *)
Fill(z, m) == IF m.op = "nexthop" THEN [z EXCEPT ![m.id] = m.object] ELSE z

Founded(z, m) == m.op = "route" /\ m.object \in Refs => z[m.object.to] # None

Run(Z, w, last) ==
    /\ Z \in Seq(NhTables) /\ Len(Z) = Len(w) + 1 /\ Z[Len(w) + 1] = last
    /\ \A k \in 1 .. Len(w) : Z[k + 1] = Fill(Z[k], w[k]) /\ Founded(Z[k], w[k])
    /\ \A k \in 1 .. Len(w) + 1 : Closed(Z[k])

\* The last message about the route shows v; there is none.
EndsRight(w, Z, r, v) ==
    \E k \in 1 .. Len(w) : /\ w[k] \in Naming(r) /\ ShowOf(Z[k], w[k].object) = v
                           /\ \A j \in k + 1 .. Len(w) : w[j] \notin Naming(r)

Silent(w, r) == \A k \in 1 .. Len(w) : w[k] \notin Naming(r)

LEMMA RunStart ==
    ASSUME NEW z \in NhTables, Closed(z) PROVE Run(<<z>>, <<>>, z) /\ <<z>>[1] = z
BY DEF Run

LEMMA RunAppend ==
    ASSUME NEW w \in Seq(Message), NEW m \in Message, NEW last, NEW Z, Run(Z, w, last),
           Founded(last, m), NEW next \in NhTables, next = Fill(last, m), Closed(next)
    PROVE  /\ Run(Append(Z, next), Append(w, m), next)
           /\ Append(Z, next)[1] = Z[1]
           /\ \A r, v : EndsRight(w, Z, r, v) /\ m \notin Naming(r)
                           => EndsRight(Append(w, m), Append(Z, next), r, v)
           /\ \A r : m \in Naming(r)
                           => EndsRight(Append(w, m), Append(Z, next), r, ShowOf(last, m.object))
           /\ \A r : Silent(w, r) /\ m \notin Naming(r) => Silent(Append(w, m), r)
<1> DEFINE n == Len(w)
           W == Append(w, m)
           Y == Append(Z, next)
<1>1. /\ n \in Nat /\ Len(W) = n + 1 /\ W[n + 1] = m /\ \A k \in 1 .. n : W[k] = w[k]
  OBVIOUS
<1>2. /\ Z \in Seq(NhTables) /\ Len(Z) = n + 1 /\ Z[n + 1] = last
      /\ \A k \in 1 .. n : Z[k + 1] = Fill(Z[k], w[k]) /\ Founded(Z[k], w[k])
      /\ \A k \in 1 .. n + 1 : Closed(Z[k])
  BY DEF Run
<1>3. /\ Y \in Seq(NhTables) /\ Len(Y) = n + 2 /\ Y[n + 2] = next /\ \A k \in 1 .. n + 1 : Y[k] = Z[k]
  BY <1>1, <1>2
<1> HIDE DEF n, W, Y
<1>4. \A k \in 1 .. n + 1 : Y[k + 1] = Fill(Y[k], W[k]) /\ Founded(Y[k], W[k])
  <2>1. ASSUME NEW k \in 1 .. n PROVE Y[k + 1] = Fill(Y[k], W[k]) /\ Founded(Y[k], W[k])
    <3>1. k + 1 \in 1 .. n + 1 /\ k \in 1 .. n + 1
      BY <1>1
    <3> QED BY <1>1, <1>2, <1>3, <3>1
  <2>2. Y[n + 1] = last /\ W[n + 1] = m /\ Y[n + 2] = next
    BY <1>1, <1>2, <1>3
  <2>3. (n + 1) + 1 = n + 2 /\ \A k \in 1 .. n + 1 : k = n + 1 \/ k \in 1 .. n
    BY <1>1
  <2> QED BY <2>1, <2>2, <2>3
<1>5. \A k \in 1 .. n + 2 : Closed(Y[k])
  <2>1. \A k \in 1 .. n + 2 : k = n + 2 \/ k \in 1 .. n + 1
    BY <1>1
  <2> QED BY <1>2, <1>3, <2>1
<1>6. Len(W) + 1 = n + 2 /\ 1 .. Len(W) = 1 .. n + 1 /\ 1 .. Len(W) + 1 = 1 .. n + 2
  BY <1>1
<1>7. Run(Y, W, next)
  BY <1>3, <1>4, <1>5, <1>6 DEF Run
<1>8. ASSUME NEW r, NEW v, EndsRight(w, Z, r, v), m \notin Naming(r) PROVE EndsRight(W, Y, r, v)
  <2>1. PICK k \in 1 .. n : /\ w[k] \in Naming(r) /\ ShowOf(Z[k], w[k].object) = v
                            /\ \A j \in k + 1 .. n : w[j] \notin Naming(r)
    BY <1>8 DEF EndsRight, n
  <2>2. k \in 1 .. n + 1 /\ W[k] = w[k] /\ Y[k] = Z[k]
    BY <1>1, <1>3
  <2>3. \A j \in k + 1 .. n + 1 : j = n + 1 \/ (j \in k + 1 .. n /\ j \in 1 .. n)
    BY <1>1
  <2>4. \A j \in k + 1 .. n + 1 : W[j] \notin Naming(r)
    BY <1>1, <1>8, <2>1, <2>3
  <2> QED BY <1>1, <2>1, <2>2, <2>4 DEF EndsRight
<1>9. ASSUME NEW r, m \in Naming(r) PROVE EndsRight(W, Y, r, ShowOf(last, m.object))
  <2>1. n + 1 \in 1 .. n + 1 /\ W[n + 1] = m /\ Y[n + 1] = last /\ (n + 1) + 1 .. n + 1 = {}
    BY <1>1, <1>2, <1>3
  <2> QED BY <1>1, <1>9, <2>1 DEF EndsRight
<1>10. ASSUME NEW r, Silent(w, r), m \notin Naming(r) PROVE Silent(W, r)
  <2>1. \A k \in 1 .. n + 1 : k = n + 1 \/ k \in 1 .. n
    BY <1>1
  <2> QED BY <1>1, <1>10, <2>1 DEF Silent, n
<1>11. Y[1] = Z[1]
  BY <1>1, <1>3
<1> QED BY <1>7, <1>8, <1>9, <1>10, <1>11 DEF W, Y

LEMMA RunTail ==
    ASSUME NEW w \in Seq(Message), w # <<>>, NEW last, NEW Z, Run(Z, w, last)
    PROVE  /\ Run(Tail(Z), Tail(w), last)
           /\ Z[1] \in NhTables /\ Closed(Z[1]) /\ Founded(Z[1], Head(w))
           /\ Tail(Z)[1] = Fill(Z[1], Head(w))
           /\ \A r, v : EndsRight(w, Z, r, v) =>
                 \/ EndsRight(Tail(w), Tail(Z), r, v)
                 \/ Head(w) \in Naming(r) /\ ShowOf(Z[1], Head(w).object) = v /\ Silent(Tail(w), r)
           /\ \A r : Silent(w, r) => Silent(Tail(w), r) /\ Head(w) \notin Naming(r)
<1> DEFINE n == Len(w)
           W == Tail(w)
           Y == Tail(Z)
<1>1. /\ n \in Nat /\ n >= 1 /\ Len(W) = n - 1 /\ Head(w) = w[1] /\ \A k \in 1 .. n - 1 : W[k] = w[k + 1]
  OBVIOUS
<1>2. /\ Z \in Seq(NhTables) /\ Len(Z) = n + 1 /\ Z[n + 1] = last
      /\ \A k \in 1 .. n : Z[k + 1] = Fill(Z[k], w[k]) /\ Founded(Z[k], w[k])
      /\ \A k \in 1 .. n + 1 : Closed(Z[k])
  BY DEF Run
<1>3. /\ Z # <<>> /\ Y \in Seq(NhTables) /\ Len(Y) = n /\ \A k \in 1 .. n : Y[k] = Z[k + 1]
  BY <1>1, <1>2
<1> HIDE DEF n, W, Y
<1>4. ASSUME NEW k \in 1 .. n - 1 PROVE Y[k + 1] = Fill(Y[k], W[k]) /\ Founded(Y[k], W[k])
  <2>1. k + 1 \in 1 .. n /\ k \in 1 .. n
    BY <1>1
  <2> QED BY <1>1, <1>2, <1>3, <2>1
<1>5. ASSUME NEW k \in 1 .. n PROVE Closed(Y[k])
  <2>1. k + 1 \in 1 .. n + 1
    BY <1>1
  <2> QED BY <1>2, <1>3, <2>1
<1>6. Len(W) + 1 = n /\ Y[n] = last
  BY <1>1, <1>2, <1>3
<1>7. Run(Y, W, last)
  BY <1>1, <1>3, <1>4, <1>5, <1>6 DEF Run
<1>8. Z[1] \in NhTables /\ Closed(Z[1]) /\ Founded(Z[1], Head(w)) /\ Y[1] = Fill(Z[1], Head(w))
  <2>1. 1 \in 1 .. n /\ 1 \in 1 .. n + 1 /\ 1 + 1 = 2 /\ Z[1] \in NhTables
    BY <1>1, <1>2
  <2> QED BY <1>1, <1>2, <1>3, <2>1
<1>9. ASSUME NEW r, NEW v, EndsRight(w, Z, r, v)
      PROVE  \/ EndsRight(W, Y, r, v)
             \/ Head(w) \in Naming(r) /\ ShowOf(Z[1], Head(w).object) = v /\ Silent(W, r)
  <2>1. PICK k \in 1 .. n : /\ w[k] \in Naming(r) /\ ShowOf(Z[k], w[k].object) = v
                            /\ \A j \in k + 1 .. n : w[j] \notin Naming(r)
    BY <1>9 DEF EndsRight, n
  <2>2. CASE k = 1
    <3>1. \A j \in 1 .. n - 1 : j + 1 \in k + 1 .. n
      BY <1>1, <2>2
    <3>2. Silent(W, r)
      BY <1>1, <2>1, <3>1 DEF Silent
    <3> QED BY <1>1, <2>1, <2>2, <3>2
  <2>3. CASE k # 1
    <3>1. k - 1 \in 1 .. n - 1 /\ k - 1 \in 1 .. n /\ (k - 1) + 1 = k
      BY <1>1, <2>3
    <3>2. W[k - 1] = w[k] /\ Y[k - 1] = Z[k]
      BY <1>1, <1>3, <3>1
    <3>3. \A j \in (k - 1) + 1 .. n - 1 : j \in 1 .. n - 1 /\ j + 1 \in k + 1 .. n
      BY <1>1, <2>3
    <3>4. \A j \in (k - 1) + 1 .. n - 1 : W[j] \notin Naming(r)
      BY <1>1, <2>1, <3>3
    <3> QED BY <1>1, <2>1, <3>1, <3>2, <3>4 DEF EndsRight
  <2> QED BY <2>2, <2>3
<1>10. ASSUME NEW r, Silent(w, r) PROVE Silent(W, r) /\ Head(w) \notin Naming(r)
  <2>1. \A j \in 1 .. n - 1 : j + 1 \in 1 .. n
    BY <1>1
  <2>2. 1 \in 1 .. n
    BY <1>1
  <2> QED BY <1>1, <1>10, <2>1, <2>2 DEF Silent, n
<1> QED BY <1>7, <1>8, <1>9, <1>10 DEF W, Y

----------------------------------------------------------------------------
(* What is shown once the current connection has been read.                *)
Agree(z) == \A id \in Ids : z[id] # None => newest = session /\ nh[id] = z[id]

OfRoute(j, r) == j # None /\ j.instance[2] = r[1] /\ j.prefix = r[2]

\* What was pushed last stands: under the name the table has, or, when the VRF
\* device came late, under one of its names.
Standing(r) ==
    \E i \in Instances : /\ i[2] = r[1] /\ (r[1] \notin late => i = Instance(r[1], vrfs))
                         /\ hop[<<i, r[2]>>] = pushed[r]

Settled(r) ==
    /\ newest = session \/ session = 1
    /\ IF OfRoute(job[session], r) THEN job[session].show = pushed[r] ELSE Standing(r)

Word(r, Z) ==
    \/ EndsRight(stream[session], Z, r, pushed[r])
    \/ Silent(stream[session], r) /\ Settled(r)

Counts(r) == pushed[r] # None \/ session = 1

ForeseenBy(Z) ==
    /\ Run(Z, stream[session], znh)
    /\ Agree(Z[1])
    /\ \A r \in Routes : Counts(r) => Word(r, Z)

Foreseen == session > 0 /\ ~overtaken => \E Z : ForeseenBy(Z)

LEMMA ConnectForeseen ==
    ASSUME TypeOK, Unmade, NEW kept, Connect(kept)
    PROVE  \E Z : ForeseenBy(Z)'
<1>1. /\ session' = session + 1 /\ session \in Nat /\ session' \in Sessions
      /\ znh' = [i \in Ids |-> None] /\ pushed' = [r \in Routes |-> None]
      /\ UNCHANGED <<vrfs, job, hop, late>>
  BY ObjectFacts DEF Connect, Sessions, TypeOK, leafVars, histVars
<1>2. stream'[session'] = <<>> /\ job'[session'] = None
  BY <1>1 DEF Connect, Unmade, TypeOK
<1>3. znh' \in NhTables /\ \A id \in Ids : znh'[id] = None
  BY <1>1 DEF NhTables
<1>4. Closed(znh')
  BY <1>3, ObjectFacts DEF Closed
<1>5. PICK Z : Z = <<znh'>>
  OBVIOUS
<1>6. Run(Z, <<>>, znh') /\ Z[1] = znh'
  BY <1>3, <1>4, <1>5, RunStart
<1>7. ASSUME NEW r \in Routes, Counts(r)' PROVE Word(r, Z)'
  <2>1. pushed'[r] = None
    BY <1>1
  <2>2. session' = 1 /\ session = 0
    BY <1>1, <1>7, <2>1 DEF Counts
  <2>3. /\ Instance(r[1], vrfs') \in Instances /\ Instance(r[1], vrfs')[2] = r[1]
        /\ r[2] \in Prefixes
    BY InstanceFacts
  <2>6. hop'[<<Instance(r[1], vrfs'), r[2]>>] = None
    BY <1>1, <2>2, <2>3 DEF Unmade
  <2>4. Standing(r)'
    BY <2>1, <2>3, <2>6 DEF Standing
  <2>5. Silent(<<>>, r)
    BY DEF Silent
  <2> QED BY <1>2, <2>1, <2>2, <2>4, <2>5 DEF Word, Settled, OfRoute
<1> QED BY <1>2, <1>3, <1>6, <1>7 DEF ForeseenBy, Agree

LEMMA SendsForeseen ==
    ASSUME TypeOK, NEW Z, ForeseenBy(Z), NEW m \in Message, Sends(m), Founded(znh, m),
           znh' \in NhTables, znh' = Fill(znh, m), Closed(znh'),
           UNCHANGED <<session, vrfs, nh, job, hop, newest, late>>,
           \A r \in Routes : pushed'[r] = IF m \in Naming(r) THEN ShowOf(znh, m.object) ELSE pushed[r]
    PROVE  \E Y : ForeseenBy(Y)'
<1>1. /\ session \in Sessions /\ stream \in [Sessions -> Seq(Message)]
      /\ stream'[session'] = Append(stream[session], m)
  BY SendsEffect, StreamType
<1> DEFINE w == stream[session]
<1>2. w \in Seq(Message)
  BY <1>1
<1>3. Run(Z, w, znh) /\ Agree(Z[1]) /\ \A r \in Routes : Counts(r) => Word(r, Z)
  BY DEF ForeseenBy
<1>4. PICK Y : Y = Append(Z, znh')
  OBVIOUS
<1>5. /\ Run(Y, Append(w, m), znh') /\ Y[1] = Z[1]
      /\ \A r, v : EndsRight(w, Z, r, v) /\ m \notin Naming(r) => EndsRight(Append(w, m), Y, r, v)
      /\ \A r : m \in Naming(r) => EndsRight(Append(w, m), Y, r, ShowOf(znh, m.object))
      /\ \A r : Silent(w, r) /\ m \notin Naming(r) => Silent(Append(w, m), r)
  <2> HIDE DEF w
  <2> QED BY <1>2, <1>3, <1>4, RunAppend
<1>6. ASSUME NEW r \in Routes, Counts(r)' PROVE Word(r, Y)'
  <2>1. CASE m \in Naming(r)
    BY <1>1, <1>5, <2>1 DEF Word
  <2>2. CASE m \notin Naming(r)
    <3>1. pushed'[r] = pushed[r]
      BY <2>2
    <3>2. Word(r, Z)
      BY <1>3, <1>6, <3>1 DEF Counts
    <3>3. Settled(r) => Settled(r)'
      BY <3>1 DEF Settled, Standing
    <3> QED BY <1>1, <1>5, <2>2, <3>1, <3>2, <3>3 DEF Word
  <2> QED BY <2>1, <2>2
<1>7. Agree(Y[1])'
  BY <1>3, <1>5 DEF Agree
<1> QED BY <1>1, <1>5, <1>6, <1>7 DEF ForeseenBy

LEMMA ZebraForeseen ==
    ASSUME TypeOK, Unmade, Foreseen, Zebra
    PROVE  Foreseen'
<1> SUFFICES ASSUME session' > 0, ~overtaken' PROVE \E Z : ForeseenBy(Z)'
  BY DEF Foreseen
<1>1. CASE \E kept \in 0 .. IF session = 0 THEN 0 ELSE Len(stream[session]) : Connect(kept)
  BY <1>1, ConnectForeseen
<1>2. ASSUME NEW m \in Message, Sends(m), Founded(znh, m),
             znh' \in NhTables, znh' = Fill(znh, m), Closed(znh) => Closed(znh'),
             UNCHANGED <<session, vrfs, nh, nameVars, job, leafVars, histVars>>,
             \A r \in Routes : pushed'[r] = IF m \in Naming(r) THEN ShowOf(znh, m.object) ELSE pushed[r]
      PROVE  \E Z : ForeseenBy(Z)'
  <2>1. session > 0 /\ ~overtaken /\ UNCHANGED <<session, vrfs, nh, job, hop, newest, late>>
    BY <1>2 DEF leafVars, histVars
  <2>2. PICK Z : ForeseenBy(Z)
    BY <2>1 DEF Foreseen
  <2>3. Closed(znh)
    <3>1. Len(stream[session]) + 1 \in 1 .. Len(stream[session]) + 1
      BY SendsEffect, StreamType, <1>2
    <3> QED BY <2>2, <3>1 DEF ForeseenBy, Run
  <2> QED BY <1>2, <2>1, <2>2, <2>3, SendsForeseen
<1>3. znh \in NhTables
  BY DEF TypeOK, NhTables
<1>4. ASSUME NEW id \in Ids, NEW object \in Objects, InstallNexthop(id, object)
      PROVE  \E Z : ForeseenBy(Z)'
  <2> DEFINE m == [op |-> "nexthop", id |-> id, object |-> object]
  <2>1. m \in Message /\ m.op = "nexthop" /\ m.id = id /\ m.object = object /\ \A r : m \notin Naming(r)
    BY MessageFacts
  <2>2. /\ Sends(m) /\ znh' = [znh EXCEPT ![id] = object]
        /\ UNCHANGED <<pushed, session, vrfs, nh, nameVars, job, leafVars, histVars>>
        /\ object \in Refs => znh[object.to] \in Hops /\ object.to # id
    BY <1>4 DEF InstallNexthop
  <2> HIDE DEF m
  <2>3. Founded(znh, m) /\ znh' = Fill(znh, m) /\ znh' \in NhTables
    BY <1>3, <2>1, <2>2 DEF Founded, Fill, NhTables
  <2>4. ASSUME Closed(znh), NEW j \in Ids, znh'[j] \in Refs PROVE znh'[znh'[j].to] # None
    <3>1. znh'[j].to \in Ids
      BY <2>4, ObjectFacts
    <3>2. CASE j = id
      <4>1. znh'[j] = object /\ object.to # id /\ znh[object.to] # None
        BY <1>3, <2>2, <2>4, <3>2, ObjectFacts DEF NhTables, Objects
      <4> QED BY <1>3, <2>2, <3>1, <4>1 DEF NhTables
    <3>3. CASE j # id
      <4>1. znh'[j] = znh[j] /\ znh[znh[j].to] # None
        BY <1>3, <2>2, <2>4, <3>3 DEF NhTables, Closed
      <4> QED BY <1>3, <2>2, <3>1, <4>1, ObjectFacts DEF NhTables
    <3> QED BY <3>2, <3>3
  <2>5. Closed(znh) => Closed(znh')
    BY <2>4 DEF Closed
  <2> QED BY <1>2, <2>1, <2>2, <2>3, <2>5
<1>5. ASSUME NEW id \in Ids, DeleteNexthop(id)
      PROVE  \E Z : ForeseenBy(Z)'
  <2> DEFINE m == [op |-> "nexthop", id |-> id, object |-> None]
  <2>1. m \in Message /\ m.op = "nexthop" /\ m.id = id /\ m.object = None /\ \A r : m \notin Naming(r)
    BY MessageFacts
  <2>2. /\ Sends(m) /\ znh' = [znh EXCEPT ![id] = None] /\ ~Referenced(id)
        /\ UNCHANGED <<pushed, session, vrfs, nh, nameVars, job, leafVars, histVars>>
    BY <1>5 DEF DeleteNexthop
  <2> HIDE DEF m
  <2>3. Founded(znh, m) /\ znh' = Fill(znh, m) /\ znh' \in NhTables
    BY <1>3, <2>1, <2>2 DEF Founded, Fill, NhTables
  <2>4. Closed(znh) => Closed(znh')
    BY <1>3, <2>2, ObjectFacts DEF Closed, NhTables, Referenced
  <2> QED BY <1>2, <2>1, <2>2, <2>3, <2>4
<1>6. ASSUME NEW r \in Routes, NEW object \in Objects \union {None},
             Sends([op |-> "route", route |-> r, object |-> object]),
             object \in Refs => znh[object.to] # None,
             pushed' = [pushed EXCEPT ![r] = ShowOf(znh, object)],
             UNCHANGED <<znh, session, vrfs, nh, nameVars, job, leafVars, histVars>>
      PROVE  \E Z : ForeseenBy(Z)'
  <2> DEFINE m == [op |-> "route", route |-> r, object |-> object]
  <2>1. /\ m \in Message /\ m.op = "route" /\ m.route = r /\ m.object = object
        /\ \A q : m \in Naming(q) <=> q = r
    <3>1. m \in Message /\ m.op = "route" /\ m.route = r /\ m.object = object
      BY MessageFacts
    <3> HIDE DEF m
    <3> QED BY <3>1, MessageFacts
  <2>2. Sends(m)
    BY <1>6
  <2> HIDE DEF m
  <2>3. Founded(znh, m) /\ znh' = Fill(znh, m) /\ znh' \in NhTables
    BY <1>3, <1>6, <2>1 DEF Founded, Fill
  <2>4. \A q \in Routes : pushed'[q] = IF m \in Naming(q) THEN ShowOf(znh, m.object) ELSE pushed[q]
    BY <1>6, <2>1 DEF TypeOK
  <2> QED BY <1>2, <1>6, <2>1, <2>2, <2>3, <2>4
<1>7. ASSUME NEW r \in Routes, NEW object \in Objects, PushRoute(r, object)
      PROVE  \E Z : ForeseenBy(Z)'
  <2>1. ShowOf(znh, object) = Shown(znh, object)
    BY ObjectFacts DEF ShowOf
  <2> QED BY <1>6, <1>7, <2>1 DEF PushRoute
<1>8. ASSUME NEW r \in Routes, DeleteRoute(r)
      PROVE  \E Z : ForeseenBy(Z)'
  <2>1. ShowOf(znh, None) = None /\ None \notin Refs
    BY ObjectFacts DEF ShowOf
  <2> QED BY <1>6, <1>8, <2>1 DEF DeleteRoute
<1> QED BY <1>1, <1>4, <1>5, <1>7, <1>8 DEF Zebra

LEMMA VrfForeseen ==
    ASSUME TypeOK, Filed, NEW table \in VrfTables, VrfAppears(table), NEW Z, session > 0, ForeseenBy(Z)
    PROVE  ForeseenBy(Z)'
<1>1. /\ vrfs' = vrfs \union {table} /\ table \notin vrfs /\ late \subseteq late'
      /\ UNCHANGED <<znh, pushed, session, stream, nh, job, hop, newest>>
      /\ table \notin late' =>
            /\ \A p \in Prefixes : hop[<<<<"table", table>>, p>>] = None
            /\ \A s \in Sessions : job[s] = None \/ job[s].instance # <<"table", table>>
  BY DEF VrfAppears, nameVars, leafVars, zebraVars
<1>2. table \in Tables
  BY FpmAssumption
<1>3. \A t : t # table => Instance(t, vrfs') = Instance(t, vrfs)
  BY <1>1 DEF Instance
<1>4. ASSUME NEW r \in Routes, Standing(r) PROVE Standing(r)'
  <2>1. PICK i \in Instances : /\ i[2] = r[1] /\ (r[1] \notin late => i = Instance(r[1], vrfs))
                               /\ hop[<<i, r[2]>>] = pushed[r]
    BY <1>4 DEF Standing
  <2>2. CASE r[1] \in late'
    BY <1>1, <2>1, <2>2 DEF Standing
  <2>3. CASE r[1] \notin late' /\ r[1] # table
    BY <1>1, <1>3, <2>1, <2>3 DEF Standing
  <2>4. CASE r[1] \notin late' /\ r[1] = table
    <3>1. i = <<"table", table>> /\ Instance(table, vrfs') = <<"vrf", table>>
      BY <1>1, <1>2, <2>1, <2>4, InstanceFacts
    <3>2. r[2] \in Prefixes /\ <<"vrf", table>> \in Instances /\ <<"vrf", table>>[2] = table
      BY <1>2, InstanceFacts
    <3>3. pushed[r] = None
      BY <1>1, <2>1, <2>4, <3>1, <3>2
    <3>4. <<"vrf", table>> # Instance(table, vrfs)
      BY <1>1, <1>2, InstanceFacts
    <3>5. hop[<<<<"vrf", table>>, r[2]>>] = None
      BY <1>1, <2>4, <3>2, <3>4 DEF Filed
    <3> QED BY <1>1, <2>4, <3>1, <3>2, <3>3, <3>5 DEF Standing
  <2> QED BY <2>2, <2>3, <2>4
<1>5. ASSUME NEW r \in Routes, Counts(r)' PROVE Word(r, Z)'
  <2>1. Word(r, Z) /\ (Settled(r) => Settled(r)')
    BY <1>1, <1>4, <1>5 DEF Counts, ForeseenBy, Settled
  <2> QED BY <1>1, <2>1 DEF Word
<1> QED BY <1>1, <1>5 DEF ForeseenBy, Agree

\* An old connection that may still be served is served before the new one.
LEMMA OldForeseen ==
    ASSUME TypeOK, Unmade, NEW s \in Sessions, s # session, Serves(s), ~overtaken',
           stream[s] # <<>> \/ job[s] # None, NEW Z, ForeseenBy(Z),
           UNCHANGED <<znh, pushed, session>>, stream'[session] = stream[session]
    PROVE  ForeseenBy(Z)'
<1>1. session \in Nat /\ newest \in Nat /\ s \in Nat /\ s >= 1 /\ s <= session /\ newest <= session
  BY DEF Unmade, TypeOK, Sessions
<1>2. s >= newest /\ newest # session /\ session # 1
  <2>1. ~(s < newest)
    BY DEF Serves
  <2> QED BY <1>1, <2>1
<1>3. Agree(Z[1])'
  BY <1>2 DEF ForeseenBy, Agree
<1>4. ASSUME NEW r \in Routes, Counts(r)' PROVE Word(r, Z)'
  <2>1. Word(r, Z)
    BY <1>4 DEF Counts, ForeseenBy
  <2>2. EndsRight(stream[session], Z, r, pushed[r])
    BY <1>2, <2>1 DEF Word, Settled
  <2> QED BY <2>2 DEF Word
<1> QED BY <1>3, <1>4 DEF ForeseenBy

LEMMA TakeNexthopForeseen ==
    ASSUME TypeOK, Unmade, NEW Z, ForeseenBy(Z), session > 0, TakeNexthop(session)
    PROVE  \E Y : ForeseenBy(Y)'
<1> DEFINE w == stream[session]
<1>0. session \in Sessions
  BY DEF Sessions, TypeOK
<1>1. /\ w # <<>> /\ Head(w).op = "nexthop" /\ stream' = [stream EXCEPT ![session] = Tail(@)]
      /\ nh' = [nh EXCEPT ![Head(w).id] = Head(w).object] /\ Serves(session)
      /\ UNCHANGED <<znh, pushed, session, vrfs, job, hop, late>>
  BY DEF TakeNexthop, zebraVars, leafVars
<1>2. w \in Seq(Message) /\ Head(w) \in Message /\ stream'[session'] = Tail(w)
  BY <1>0, <1>1, TailTyped
<1>3. newest' = session
  BY <1>1 DEF Serves, Unmade, TypeOK
<1>4. Run(Z, w, znh) /\ Agree(Z[1]) /\ \A r \in Routes : Counts(r) => Word(r, Z)
  BY DEF ForeseenBy
<1>5. PICK Y : Y = Tail(Z)
  OBVIOUS
<1>6. /\ Run(Y, Tail(w), znh) /\ Y[1] = Fill(Z[1], Head(w)) /\ Z[1] \in NhTables
      /\ \A r, v : EndsRight(w, Z, r, v) => EndsRight(Tail(w), Y, r, v) \/ Head(w) \in Naming(r)
      /\ \A r : Silent(w, r) => Silent(Tail(w), r)
  <2> HIDE DEF w
  <2> QED BY <1>1, <1>2, <1>4, <1>5, RunTail
<1>7. Head(w).id \in Ids /\ \A r : Head(w) \notin Naming(r)
  BY <1>1, <1>2, MessageFacts
<1>8. Agree(Y[1])'
  BY <1>1, <1>3, <1>4, <1>6, <1>7 DEF Agree, Fill, NhTables, TypeOK
<1>9. ASSUME NEW r \in Routes, Counts(r)' PROVE Word(r, Y)'
  <2>1. Word(r, Z) /\ (Settled(r) => Settled(r)')
    BY <1>1, <1>3, <1>4, <1>9 DEF Counts, Settled, Standing
  <2> QED BY <1>1, <1>2, <1>6, <1>7, <2>1 DEF Word
<1> QED BY <1>1, <1>2, <1>6, <1>8, <1>9 DEF ForeseenBy

LEMMA TakeRouteForeseen ==
    ASSUME TypeOK, Unmade, Filed, NEW Z, ForeseenBy(Z), session > 0, TakeRoute(session)
    PROVE  \E Y : ForeseenBy(Y)'
<1> DEFINE w == stream[session]
           m == Head(w)
<1>0. session \in Sessions
  BY DEF Sessions, TypeOK
<1>1. /\ w # <<>> /\ m.op = "route" /\ stream' = [stream EXCEPT ![session] = Tail(@)]
      /\ Serves(session) /\ job[session] = None
      /\ Resolve(m.route[1]) /\ UNCHANGED <<znh, nh, pushed, session, vrfs, hop>>
  BY DEF TakeRoute, zebraVars, leafVars
<1>2. w \in Seq(Message) /\ m \in Message /\ stream'[session'] = Tail(w)
  BY <1>0, <1>1, TailTyped
<1>3. newest' = session
  BY <1>1 DEF Serves, Unmade, TypeOK
<1>4. Run(Z, w, znh) /\ Agree(Z[1]) /\ \A r \in Routes : Counts(r) => Word(r, Z)
  BY DEF ForeseenBy
<1>5. PICK Y : Y = Tail(Z)
  OBVIOUS
<1>6. /\ Run(Y, Tail(w), znh) /\ Y[1] = Fill(Z[1], m) /\ Z[1] \in NhTables
      /\ Closed(Z[1]) /\ Founded(Z[1], m)
      /\ \A r, v : EndsRight(w, Z, r, v) =>
            EndsRight(Tail(w), Y, r, v)
            \/ (m \in Naming(r) /\ ShowOf(Z[1], m.object) = v /\ Silent(Tail(w), r))
      /\ \A r : Silent(w, r) => Silent(Tail(w), r) /\ m \notin Naming(r)
  <2> HIDE DEF w
  <2> QED BY <1>1, <1>2, <1>4, <1>5, RunTail
<1>7. /\ m.route \in Routes /\ m.object \in Objects \union {None} /\ m \in Naming(m.route)
      /\ \A r : m \in Naming(r) => r = m.route
  BY <1>1, <1>2, MessageFacts
<1>8. /\ job'[session'] \in Job /\ job'[session'].show = ShowOf(nh, m.object)
      /\ job'[session'].instance[2] = m.route[1] /\ job'[session'].prefix = m.route[2]
  BY <1>0, <1>1, <1>7, TakeRouteJob, InstanceFacts
<1>9. job'[session'] # None /\ \A r \in Routes : OfRoute(job'[session'], r) <=> r = m.route
  <2>1. job'[session'] # None
    BY <1>8, ObjectFacts
  <2>2. ASSUME NEW r \in Routes PROVE (r[1] = m.route[1] /\ r[2] = m.route[2]) <=> r = m.route
    <3>1. r = <<r[1], r[2]>> /\ m.route = <<m.route[1], m.route[2]>>
      BY <1>7, InstanceFacts
    <3> QED BY <3>1
  <2> QED BY <1>8, <2>1, <2>2 DEF OfRoute
<1>10. ShowOf(nh, m.object) = ShowOf(Z[1], m.object)
  <2>1. ASSUME m.object # None PROVE Shown(nh, m.object) = Shown(Z[1], m.object)
    <3>1. m.object \in Refs => Z[1][m.object.to] # None
      BY <1>1, <1>6 DEF Founded
    <3>2. nh \in NhTables
      BY DEF NhTables, TypeOK
    <3>3. \A id \in Ids : Z[1][id] # None => nh[id] = Z[1][id]
      BY <1>4 DEF Agree
    <3>4. m.object \in Objects
      BY <1>7, <2>1
    <3> HIDE DEF m
    <3> QED BY <1>6, <3>1, <3>2, <3>3, <3>4, ShownSame
  <2> QED BY <2>1 DEF ShowOf
<1>11. Agree(Y[1])'
  BY <1>1, <1>3, <1>4, <1>6 DEF Agree, Fill
<1> HIDE DEF m
<1>13. ASSUME NEW r \in Routes, Standing(r) PROVE Standing(r)'
  <2>1. late \subseteq late'
    BY <1>1, <1>7, NameFound, InstanceFacts
  <2> QED BY <1>1, <1>13, <2>1 DEF Standing
<1>12. ASSUME NEW r \in Routes, Counts(r)' PROVE Word(r, Y)'
  <2>1. Word(r, Z)
    BY <1>1, <1>4, <1>12 DEF Counts
  <2>2. CASE EndsRight(Tail(w), Y, r, pushed[r])
    BY <1>1, <1>2, <2>2 DEF Word
  <2>3. CASE m \in Naming(r) /\ ShowOf(Z[1], m.object) = pushed[r] /\ Silent(Tail(w), r)
    <3>1. Settled(r)'
      BY <1>1, <1>3, <1>7, <1>8, <1>9, <1>10, <2>3 DEF Settled
    <3> QED BY <1>2, <2>3, <3>1 DEF Word
  <2>4. CASE Silent(w, r) /\ Settled(r)
    <3>1. r # m.route
      BY <1>6, <1>7, <2>4
    <3>2. Settled(r)'
      BY <1>1, <1>3, <1>9, <1>13, <2>4, <3>1 DEF Settled, OfRoute
    <3> QED BY <1>2, <1>6, <2>4, <3>2 DEF Word
  <2> QED BY <1>6, <2>1, <2>2, <2>3, <2>4 DEF Word
<1> QED BY <1>1, <1>2, <1>6, <1>11, <1>12 DEF ForeseenBy

LEMMA WriteForeseen ==
    ASSUME TypeOK, Unmade, Filed, NEW Z, ForeseenBy(Z), session > 0, Write(session)
    PROVE  ForeseenBy(Z)'
<1> DEFINE j == job[session]
           leaf == <<j.instance, j.prefix>>
<1>0. session \in Sessions
  BY DEF Sessions, TypeOK
<1>1. /\ j # None /\ hop' = [hop EXCEPT ![leaf] = j.show] /\ job' = [job EXCEPT ![session] = None]
      /\ Serves(session) /\ UNCHANGED <<znh, nh, pushed, session, stream, vrfs, late>>
  BY DEF Write, zebraVars
<1>2. newest' = session
  BY <1>1 DEF Serves, Unmade, TypeOK
<1>3. j \in Job /\ j.instance \in Instances /\ j.prefix \in Prefixes /\ job'[session'] = None
  BY <1>0, <1>1, InstanceFacts DEF TypeOK
<1>4. ASSUME NEW r \in Routes, Counts(r)' PROVE Settled(r) => Settled(r)'
  <2>1. ~OfRoute(job'[session'], r)
    BY <1>3 DEF OfRoute
  <2>2. CASE OfRoute(j, r) /\ j.show = pushed[r]
    <3>1. leaf = <<j.instance, r[2]>> /\ j.instance[2] = r[1] /\ hop'[leaf] = j.show
      BY <1>1, <1>3, <2>2 DEF OfRoute, TypeOK
    <3>2. r[1] \notin late => j.instance = Instance(r[1], vrfs)
      BY <1>0, <1>1, <3>1 DEF Filed
    <3>3. Standing(r)'
      BY <1>1, <1>3, <2>2, <3>1, <3>2 DEF Standing
    <3> QED BY <1>1, <1>2, <2>1, <3>3 DEF Settled
  <2>3. CASE ~OfRoute(j, r) /\ Standing(r)
    <3>1. PICK i \in Instances : /\ i[2] = r[1] /\ (r[1] \notin late => i = Instance(r[1], vrfs))
                                 /\ hop[<<i, r[2]>>] = pushed[r]
      BY <2>3 DEF Standing
    <3>2. r[2] \in Prefixes /\ leaf # <<i, r[2]>>
      BY <1>1, <2>3, <3>1, InstanceFacts DEF OfRoute
    <3>3. hop'[<<i, r[2]>>] = hop[<<i, r[2]>>]
      BY <1>1, <1>3, <3>2 DEF TypeOK
    <3>4. Standing(r)'
      BY <1>1, <3>1, <3>3 DEF Standing
    <3> QED BY <1>1, <1>2, <2>1, <3>4 DEF Settled
  <2> QED BY <2>2, <2>3 DEF Settled
<1>5. \A r \in Routes : Counts(r)' => Counts(r)
  BY <1>1 DEF Counts
<1>6. Agree(Z[1])'
  BY <1>1, <1>2 DEF ForeseenBy, Agree
<1> QED BY <1>1, <1>4, <1>5, <1>6 DEF ForeseenBy, Word

LEMMA ForeseenNext == ASSUME TypeOK, Unmade, Filed, Foreseen, [Next]_vars PROVE Foreseen'
<1>1. CASE Zebra
  BY <1>1, ZebraForeseen
<1> SUFFICES ASSUME ~Zebra, session' > 0, ~overtaken' PROVE \E Z : ForeseenBy(Z)'
  BY <1>1 DEF Foreseen
<1>2. session > 0 /\ ~overtaken
  <2>1. session' = session /\ (overtaken => overtaken')
    <3>1. CASE Handlers
      BY <3>1 DEF Handlers, TakeNexthop, TakeRoute, Write, Serves, zebraVars
    <3>2. CASE \E table \in VrfTables : VrfAppears(table)
      BY <3>2 DEF VrfAppears, zebraVars
    <3>3. CASE UNCHANGED vars
      BY <3>3 DEF vars, zebraVars, histVars
    <3> QED BY <3>1, <3>2, <3>3 DEF Next
  <2> QED BY <2>1
<1>3. PICK Z : ForeseenBy(Z)
  BY <1>2 DEF Foreseen
<1>4. ASSUME NEW table \in VrfTables, VrfAppears(table) PROVE \E Y : ForeseenBy(Y)'
  BY <1>2, <1>3, <1>4, VrfForeseen
<1>5. session \in Sessions
  BY <1>2 DEF TypeOK, Sessions
<1>6. ASSUME NEW s \in Sessions, TakeNexthop(s) PROVE \E Y : ForeseenBy(Y)'
  <2>1. CASE s = session
    BY <1>2, <1>3, <1>6, <2>1, TakeNexthopForeseen
  <2>2. CASE s # session
    <3>1. stream[s] # <<>> /\ Serves(s) /\ stream' = [stream EXCEPT ![s] = Tail(@)]
          /\ UNCHANGED <<znh, pushed, session>>
      BY <1>6 DEF TakeNexthop, zebraVars, Serves
    <3>2. stream'[session] = stream[session]
      BY <1>5, <2>2, <3>1, TailTyped
    <3> QED BY <1>3, <2>2, <3>1, <3>2, OldForeseen
  <2> QED BY <2>1, <2>2
<1>7. ASSUME NEW s \in Sessions, TakeRoute(s) PROVE \E Y : ForeseenBy(Y)'
  <2>1. CASE s = session
    BY <1>2, <1>3, <1>7, <2>1, TakeRouteForeseen
  <2>2. CASE s # session
    <3>1. stream[s] # <<>> /\ Serves(s) /\ stream' = [stream EXCEPT ![s] = Tail(@)]
          /\ UNCHANGED <<znh, pushed, session>>
      BY <1>7 DEF TakeRoute, zebraVars, Serves
    <3>2. stream'[session] = stream[session]
      BY <1>5, <2>2, <3>1, TailTyped
    <3> QED BY <1>3, <2>2, <3>1, <3>2, OldForeseen
  <2> QED BY <2>1, <2>2
<1>8. ASSUME NEW s \in Sessions, Write(s) PROVE \E Y : ForeseenBy(Y)'
  <2>1. CASE s = session
    BY <1>2, <1>3, <1>8, <2>1, WriteForeseen
  <2>2. CASE s # session
    <3>1. job[s] # None /\ Serves(s) /\ UNCHANGED <<stream, znh, pushed, session>>
      BY <1>8 DEF Write, zebraVars, Serves
    <3> QED BY <1>3, <2>2, <3>1, OldForeseen
  <2> QED BY <2>1, <2>2
<1>9. CASE UNCHANGED vars
  BY <1>3, <1>9 DEF vars, zebraVars, leafVars, histVars, ForeseenBy, Agree, Word, Settled, Standing, Counts
<1> QED BY <1>4, <1>6, <1>7, <1>8, <1>9 DEF Next, Handlers

----------------------------------------------------------------------------
(* Theorems                                                                *)
FpmInv == TypeOK /\ Unmade /\ Filed /\ Foreseen

\* What the FPM ingester keeps: the types, the names leaves are filed under,
\* and what every route that is pushed will show.
THEOREM FpmInvariant == Spec => []FpmInv
<1>1. Init => FpmInv
  <2> SUFFICES ASSUME Init PROVE FpmInv
    OBVIOUS
  <2>1. TypeOK
    <3>1. <<>> \in Seq(NexthopMsg \union RouteMsg)
      OBVIOUS
    <3>2. stream \in [Sessions -> Seq(NexthopMsg \union RouteMsg)]
      BY <3>1 DEF Init
    <3>3. 0 \in 0 .. MaxSessions /\ 0 \in 0 .. MaxSends
      BY ObjectFacts
    <3>4. faults \in 0 .. MaxFaults
      BY ObjectFacts DEF Init
    <3>5. known \in SUBSET VrfTables /\ vrfs \in SUBSET VrfTables
      BY DEF Init
    <3> QED BY <3>2, <3>3, <3>4, <3>5 DEF Init, TypeOK
  <2>2. Unmade
    BY DEF Init, Unmade
  <2>3. Filed
    BY ObjectFacts DEF Init, Filed, LabelOf
  <2>4. Foreseen
    BY DEF Init, Foreseen
  <2> QED BY <2>1, <2>2, <2>3, <2>4 DEF FpmInv
<1>2. FpmInv /\ [Next]_vars => FpmInv'
  BY Types, UnmadeNext, FiledNext, ForeseenNext DEF FpmInv
<1> QED BY <1>1, <1>2, PTL DEF Spec

\* fpm.go: the tables and leaves stay of the kind their readers expect, and a
\* route is resolved to a gateway, "blackhole" or "-" whatever zebra sends.
THEOREM FpmTypeCorrect == Spec => []TypeOK
<1>1. FpmInv => TypeOK
  BY DEF FpmInv
<1> QED BY <1>1, FpmInvariant, PTL

\* A drained connection: what its routes were pushed as is what they show.
LEMMA DrainedShows ==
    ASSUME FpmInv, ~overtaken, session \in Sessions, stream[session] = <<>>, job[session] = None,
           NEW r \in Routes, pushed[r] # None \/ session = 1
    PROVE  Standing(r)
<1>1. session > 0
  BY DEF Sessions
<1>2. PICK Z : ForeseenBy(Z)
  BY <1>1 DEF FpmInv, Foreseen
<1>3. Word(r, Z)
  BY <1>2 DEF ForeseenBy, Counts
<1>4. ~EndsRight(<<>>, Z, r, pushed[r])
  BY DEF EndsRight
<1> QED BY <1>3, <1>4 DEF Word, Settled, OfRoute

\* fpm.go, handleRoute and resolveNH: with nothing left to read, both leaves of
\* a route that is pushed show what zebra resolved it to when it pushed it, under
\* the name of its VRF, or of its table if the device was seen too late.
THEOREM ShowsCorrect == Spec => []ShowsLastPush
<1>1. FpmInv => ShowsLastPush
  <2> SUFFICES ASSUME FpmInv, Drained, ~overtaken, NEW t \in Tables, NEW p \in Prefixes,
                      pushed[<<t, p>>] # None
               PROVE  \E i \in Instances :
                          /\ i[2] = t
                          /\ t \notin late => i = Instance(t, vrfs)
                          /\ hop[<<i, p>>] = pushed[<<t, p>>]
                          /\ label[<<i, p>>] = LabelOf(pushed[<<t, p>>])
    BY DEF ShowsLastPush
  <2>1. PICK r \in Routes : r = <<t, p>>
    BY DEF Routes
  <2>2. r[1] = t /\ r[2] = p /\ pushed[r] # None
    BY <2>1
  <2>3. session \in Sessions /\ stream[session] = <<>> /\ job[session] = None
    <3>1. session # 0 /\ session \in Sessions
      BY <2>1, <2>2 DEF FpmInv, Unmade, TypeOK, Sessions
    <3> QED BY <3>1 DEF Drained
  <2>4. Standing(r)
    BY <2>2, <2>3, DrainedShows
  <2>5. PICK i \in Instances : /\ i[2] = t /\ (t \notin late => i = Instance(t, vrfs))
                               /\ hop[<<i, p>>] = pushed[<<t, p>>]
    BY <2>1, <2>2, <2>4 DEF Standing
  <2>6. label[<<i, p>>] = LabelOf(hop[<<i, p>>])
    BY DEF FpmInv, Filed
  <2> QED BY <2>5, <2>6
<1> QED BY <1>1, FpmInvariant, PTL

\* fpm.go, handleRoute and vrf.go, Name: before zebra's first restart no leaf is
\* left of a route that was withdrawn, or under a name its table has lost.
THEOREM NothingLeftCorrect == Spec => []NothingLeftOver
<1>1. FpmInv => NothingLeftOver
  <2> SUFFICES ASSUME FpmInv, Drained, session <= 1, NEW i \in Instances, NEW p \in Prefixes,
                      i[2] \notin late
               PROVE  /\ hop[<<i, p>>] # None => i = Instance(i[2], vrfs) /\ pushed[<<i[2], p>>] # None
                      /\ label[<<i, p>>] # None => hop[<<i, p>>] = label[<<i, p>>]
    BY DEF NothingLeftOver
  <2>1. PICK r \in Routes : r = <<i[2], p>>
    BY InstanceFacts DEF Routes
  <2>2. r[1] = i[2] /\ r[2] = p
    BY <2>1
  <2>3. ASSUME hop[<<i, p>>] # None
        PROVE  i = Instance(i[2], vrfs) /\ pushed[r] # None
    <3>1. i = Instance(i[2], vrfs)
      BY <2>3 DEF FpmInv, Filed
    <3>2. session = 1 /\ ~overtaken
      BY <2>3 DEF FpmInv, Unmade, TypeOK
    <3>3. session \in Sessions
      BY <3>2 DEF FpmInv, TypeOK, Sessions
    <3>4. stream[session] = <<>> /\ job[session] = None
      BY <3>3 DEF Drained
    <3>5. Standing(r)
      BY <2>2, <3>2, <3>3, <3>4, DrainedShows
    <3>6. pushed[r] = hop[<<i, p>>]
      BY <2>2, <3>1, <3>5 DEF Standing
    <3> QED BY <2>3, <3>1, <3>6
  <2>4. label[<<i, p>>] = LabelOf(hop[<<i, p>>])
    BY DEF FpmInv, Filed
  <2> QED BY <2>1, <2>3, <2>4 DEF LabelOf
<1> QED BY <1>1, FpmInvariant, PTL

===============================================================================
