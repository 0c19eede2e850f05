---------------------------- MODULE NetlinkProofs ----------------------------
(***************************************************************************)
(* NetlinkPlane: nothing the kernel says is missed, and what is shown is   *)
(* what it says.  Proved for any objects, values and bounds.               *)
(***************************************************************************)
EXTENDS NetlinkPlane, FiniteSetTheorems, TLAPS

----------------------------------------------------------------------------
(* The tables                                                              *)
LEMMA Six ==
    /\ Tables = {"link", "mac", "route", "counters", "label", "addr"}
    /\ Writers = {"link", "mac", "route", "dump"}
    /\ Notified \subseteq Tables /\ Sampled \subseteq Tables /\ Notified \intersect Sampled = {}
    /\ "dump" \notin Notified /\ "dump" \in Writers /\ Notified \subseteq Writers
    /\ \A w \in Writers : w = "dump" \/ w \in Notified
    /\ "link" \in Notified /\ "mac" \in Notified /\ "route" \in Notified
    /\ Table("link") = Links /\ Table("addr") = Addrs /\ Table("counters") = Counters
BY DEF Tables, Writers, Notified, Sampled, Table

LEMMA TableFacts ==
    /\ \A t \in Tables : Table(t) \subseteq Objects
    /\ \A o \in Objects : TableOf(o) \in Tables /\ o \in Table(TableOf(o))
    /\ \A s, t \in Tables : \A o \in Table(t) : o \in Table(s) => s = t
    /\ \A t \in Tables : \A o \in Table(t) : TableOf(o) = t
<1>1. \A t \in Tables : Table(t) \subseteq Objects
  BY DEF Objects
<1>2. \A s, t \in Tables : \A o \in Table(t) : o \in Table(s) => s = t
  BY NetlinkAssumption
<1>3. \A o \in Objects : TableOf(o) \in Tables /\ o \in Table(TableOf(o))
  BY DEF Objects, TableOf
<1>4. \A t \in Tables : \A o \in Table(t) : TableOf(o) = t
  BY <1>1, <1>2, <1>3
<1> QED BY <1>1, <1>2, <1>3, <1>4

\* Under a link are its counters and addresses, and under the others nothing.
LEMMA UnderFacts ==
    /\ \A o \in Objects : o \in Under(o) /\ Under(o) \subseteq Objects
    /\ \A o \in Objects \ Links : Under(o) = {o}
    /\ \A o \in Objects : \A x \in Under(o) :
          x # o => o \in Links /\ \E s \in Sampled : x \in Table(s)
    /\ \A o \in Objects, t \in Notified : \A x \in Table(t) : x \in Under(o) => x = o
    /\ \A l \in Links : <<"counters", l>> \in Under(l) /\ <<"counters", l>> \in Counters
    /\ \A a \in Addrs : a \in Under(LinkOf[a]) /\ LinkOf[a] \in Links
<1>1. \A o \in Objects \ Links : Under(o) = {o}
  BY DEF Under
<1>2. \A l \in Links : <<"counters", l>> \in Under(l) /\ <<"counters", l>> \in Counters
  BY DEF Under, Counters
<1>3. \A a \in Addrs : a \in Under(LinkOf[a]) /\ LinkOf[a] \in Links
  BY NetlinkAssumption DEF Under
<1>4. ASSUME NEW o \in Objects, NEW x \in Under(o), x # o
      PROVE  o \in Links /\ \E s \in Sampled : x \in Table(s)
  <2>1. o \in Links /\ (x = <<"counters", o>> \/ x \in Addrs)
    BY <1>4 DEF Under
  <2>2. x \in Table("counters") \/ x \in Table("addr")
    BY <2>1, <1>2, Six
  <2> QED BY <2>1, <2>2 DEF Sampled
<1>5. \A o \in Objects : o \in Under(o) /\ Under(o) \subseteq Objects
  BY <1>4, TableFacts, Six DEF Under
<1>6. ASSUME NEW o \in Objects, NEW t \in Notified, NEW x \in Table(t), x \in Under(o) PROVE x = o
  <2>1. SUFFICES ASSUME x # o PROVE FALSE
    OBVIOUS
  <2>2. PICK s \in Sampled : x \in Table(s)
    BY <1>4, <1>6, <2>1
  <2> QED BY <2>2, TableFacts, Six
<1> QED BY <1>1, <1>2, <1>3, <1>4, <1>5, <1>6

----------------------------------------------------------------------------
(* Types                                                                   *)
Step == [does : {"subscribe", "dump", "return"}, table : Tables]

ChanOK(c) == \A t \in Notified : c[t] \in Seq(Table(t) \X Said)

UpdateOK(u) ==
    /\ \A t \in Notified : u[t] # None => u[t].obj \in Table(t)
    /\ u["dump"] # None => u["dump"].val \in Values

TypeOK ==
    /\ kern \in [Objects -> Said]
    /\ todo \in Seq(Step)
    /\ subscribed \in SUBSET Notified
    /\ chan \in [Notified -> Seq(Objects \X Said)] /\ ChanOK(chan)
    /\ list \in SUBSET (Objects \X Values)
    /\ update \in [Writers -> Update \union {None}] /\ UpdateOK(update)
    /\ leaf \in [Objects -> Shown \union {None}]
    /\ clock \in Nat
    /\ \A w \in Writers : update[w] # None => update[w].at <= clock
    /\ \A o \in Objects : leaf[o] # None => leaf[o].at <= clock

\* The kernel: counters and addresses go with their link.
Kept ==
    /\ \A l \in Links : kern[l] = None <=> kern[<<"counters", l>>] = None
    /\ \A a \in Addrs : kern[a] # None => kern[LinkOf[a]] # None

LEMMA NoneFacts ==
    /\ None \notin Values /\ None \notin Shown /\ None \notin Update
    /\ \A v \in Said : v # None => v \in Values
    /\ \A u \in Update : u.obj \in Objects /\ u.val \in Said /\ u.at \in Nat
    /\ \A s \in Shown : s.val \in Values /\ s.at \in Nat
BY NoneAssumption DEF Said, Update, Shown

\* The objects that a change touches, and those a dump has not shown yet.
Touched(o, v) ==
    (IF v = None THEN Under(o) ELSE {o})
      \union (IF o \in Links /\ kern[o] = None THEN {o, <<"counters", o>>} ELSE {o})

Held(w, o) == update[w] # None /\ update[w].obj = o

Entry(o) == (\E e \in list : e[1] = o) \/ Held("dump", o)

LEMMA ChangeEffect ==
    ASSUME TypeOK, NEW o \in Objects, NEW v \in Said, Change(o, v)
    PROVE  /\ Touched(o, v) \subseteq Under(o) /\ o \in Touched(o, v)
           /\ v = None => Touched(o, v) = Under(o)
           /\ o \in Links /\ kern[o] = None => <<"counters", o>> \in Touched(o, v)
           /\ v # None /\ (o \notin Links \/ kern[o] # None) => Touched(o, v) = {o}
           /\ \A x \in Objects : kern'[x] = IF x \in Touched(o, v) THEN v ELSE kern[x]
           /\ kern' \in [Objects -> Said]
           /\ raced \subseteq raced' /\ \A x \in Touched(o, v) : Entry(x) => x \in raced'
           /\ unseen' = unseen \union Touched(o, v)
           /\ o \notin Counters /\ kern[o] # v /\ (o \in Addrs => kern[LinkOf[o]] # None)
           /\ \A t \in Notified : o \notin Table(t) \/ t \notin subscribed => chan'[t] = chan[t]
           /\ \A t \in Notified : o \in Table(t) /\ t \in subscribed
                => chan'[t] = Append(chan[t], <<o, v>>)
           /\ chan' \in [Notified -> Seq(Objects \X Said)] /\ ChanOK(chan')
           /\ UNCHANGED <<todo, subscribed, list, update, leaf, clock, failed>>
<1> DEFINE t0 == TableOf(o)
<1>1. /\ kern' = [x \in Objects |-> IF x \in Touched(o, v) THEN v ELSE kern[x]]
      /\ raced' = raced \union {x \in Touched(o, v) : Entry(x)}
      /\ unseen' = unseen \union Touched(o, v)
      /\ chan' = IF t0 \in subscribed THEN [chan EXCEPT ![t0] = Append(@, <<o, v>>)] ELSE chan
      /\ o \notin Counters /\ kern[o] # v /\ (o \in Addrs => kern[LinkOf[o]] # None)
      /\ UNCHANGED <<todo, subscribed, list, update, leaf, clock, failed>>
  BY DEF Change, Touched, Entry, Held, taskVars
<1>2. Touched(o, v) \subseteq Under(o) /\ o \in Touched(o, v)
  BY UnderFacts DEF Touched, Under
<1>3. v = None => Touched(o, v) = Under(o)
  BY <1>2 DEF Touched
<1>4. /\ o \in Links /\ kern[o] = None => <<"counters", o>> \in Touched(o, v)
      /\ v # None /\ (o \notin Links \/ kern[o] # None) => Touched(o, v) = {o}
  BY DEF Touched
<1>7. kern' \in [Objects -> Said]
  BY <1>1 DEF TypeOK
<1>8. t0 \in Tables /\ o \in Table(t0) /\ \A t \in Tables : o \in Table(t) => t = t0
  BY TableFacts
<1> HIDE DEF t0
<1>9. t0 \in subscribed => t0 \in Notified /\ Append(chan[t0], <<o, v>>) \in Seq(Objects \X Said)
                           /\ Append(chan[t0], <<o, v>>) \in Seq(Table(t0) \X Said)
  BY <1>8 DEF TypeOK, ChanOK
<1>10. chan' \in [Notified -> Seq(Objects \X Said)] /\ ChanOK(chan')
  BY <1>1, <1>9 DEF TypeOK, ChanOK
<1>11. /\ \A t \in Notified : o \notin Table(t) \/ t \notin subscribed => chan'[t] = chan[t]
       /\ \A t \in Notified : o \in Table(t) /\ t \in subscribed => chan'[t] = Append(chan[t], <<o, v>>)
  BY <1>1, <1>8, Six DEF TypeOK
<1>12. raced \subseteq raced' /\ \A x \in Touched(o, v) : Entry(x) => x \in raced'
  BY <1>1
<1>13. \A x \in Objects : kern'[x] = IF x \in Touched(o, v) THEN v ELSE kern[x]
  BY <1>1
<1> QED BY <1>1, <1>2, <1>3, <1>4, <1>7, <1>10, <1>11, <1>12, <1>13

\* An update is stamped later than everything before.
LEMMA StampEffect ==
    ASSUME TypeOK, NEW w \in Writers, NEW o \in Objects, NEW v \in Said, Stamp(w, o, v), leaf' = leaf
    PROVE  /\ update[w] = None /\ update'[w] # None
           /\ update'[w].obj = o /\ update'[w].val = v /\ update'[w].at = clock + 1
           /\ clock' = clock + 1
           /\ \A q \in Writers : q # w => update'[q] = update[q]
           /\ update' \in [Writers -> Update \union {None}]
           /\ \A q \in Writers : update'[q] # None => update'[q].at <= clock'
           /\ \A x \in Objects : leaf[x] # None => leaf[x].at <= clock'
           /\ \A x \in Objects : Older(x, clock + 1)
<1>1. /\ update[w] = None /\ clock' = clock + 1 /\ clock \in Nat
      /\ update' = [update EXCEPT ![w] = [obj |-> o, val |-> v, at |-> clock + 1]]
  BY DEF Stamp, TypeOK
<1> DEFINE u == [obj |-> o, val |-> v, at |-> clock + 1]
<1>2. u \in Update /\ u # None /\ u.obj = o /\ u.val = v /\ u.at = clock + 1
  BY <1>1, NoneFacts DEF Update
<1> HIDE DEF u
<1>3. update'[w] = u /\ update' \in [Writers -> Update \union {None}]
      /\ \A q \in Writers : q # w => update'[q] = update[q]
  BY <1>1, <1>2 DEF u, TypeOK
<1>4. \A q \in Writers : update[q] # None => update[q].at <= clock /\ update[q].at \in Nat
  BY NoneFacts DEF TypeOK
<1>5. \A q \in Writers : update'[q] # None => update'[q].at <= clock'
  BY <1>1, <1>2, <1>3, <1>4
<1>6. \A x \in Objects : leaf[x] # None => leaf[x].at <= clock /\ leaf[x].at \in Nat
  BY NoneFacts DEF TypeOK
<1>7. \A x \in Objects : Older(x, clock + 1)
  BY <1>1, <1>6 DEF Older
<1> QED BY <1>1, <1>2, <1>3, <1>5, <1>6, <1>7

\* A notification is stamped by the goroutine of its table.
LEMMA NotifyEffect ==
    ASSUME TypeOK, NEW t \in Notified, Notify(t)
    PROVE  /\ chan[t] # <<>> /\ chan[t] \in Seq(Table(t) \X Said)
           /\ Head(chan[t]) \in Table(t) \X Said /\ Head(chan[t])[1] \in Objects
           /\ chan'[t] = Tail(chan[t]) /\ \A s \in Notified : s # t => chan'[s] = chan[s]
           /\ chan' \in [Notified -> Seq(Objects \X Said)] /\ ChanOK(chan')
           /\ Stamp(t, Head(chan[t])[1], Head(chan[t])[2])
           /\ UNCHANGED <<kern, todo, subscribed, list, leaf, raced, unseen, failed>>
<1>1. /\ chan[t] # <<>> /\ chan' = [chan EXCEPT ![t] = Tail(@)]
      /\ Stamp(t, Head(chan[t])[1], Head(chan[t])[2])
      /\ UNCHANGED <<kern, todo, subscribed, list, leaf, raced, unseen, failed>>
  BY DEF Notify, kernVars, taskVars
<1>2. chan[t] \in Seq(Table(t) \X Said) /\ chan[t] \in Seq(Objects \X Said)
  BY DEF TypeOK, ChanOK
<1>3. /\ Head(chan[t]) \in Table(t) \X Said /\ Tail(chan[t]) \in Seq(Table(t) \X Said)
      /\ Tail(chan[t]) \in Seq(Objects \X Said)
  BY <1>1, <1>2
<1>4. Head(chan[t])[1] \in Objects
  BY <1>3, TableFacts, Six
<1> QED BY <1>1, <1>2, <1>3, <1>4 DEF TypeOK, ChanOK

\* What an update does to each leaf.
LEMMA EnterEffect ==
    ASSUME TypeOK, NEW w \in Writers, Enter(w)
    PROVE  /\ update[w] # None /\ update[w] \in Update /\ update[w].obj \in Objects
           /\ \A x \in Objects :
                 IF update[w].val = None /\ x \in Under(update[w].obj) /\ Older(x, update[w].at)
                 THEN leaf'[x] = None
                 ELSE IF update[w].val # None /\ x = update[w].obj /\ Older(x, update[w].at)
                      THEN leaf'[x] # None /\ leaf'[x].val = update[w].val
                           /\ leaf'[x].at = update[w].at
                 ELSE leaf'[x] = leaf[x]
           /\ leaf' \in [Objects -> Shown \union {None}]
           /\ update'[w] = None /\ \A q \in Writers : q # w => update'[q] = update[q]
           /\ update' \in [Writers -> Update \union {None}]
           /\ UNCHANGED <<kern, todo, subscribed, chan, list, clock, raced, unseen, failed>>
<1> DEFINE u == update[w]
           new == [val |-> u.val, at |-> u.at]
<1>1. /\ u # None /\ update' = [update EXCEPT ![w] = None]
      /\ UNCHANGED <<kern, todo, subscribed, chan, list, clock, raced, unseen, failed>>
      /\ leaf' = [o \in Objects |->
              IF u.val = None /\ o \in Under(u.obj) /\ Older(o, u.at) THEN None
              ELSE IF u.val # None /\ o = u.obj /\ Older(o, u.at) THEN new ELSE leaf[o]]
  BY DEF Enter, Deleted, kernVars, taskVars
<1>2. u \in Update /\ u.obj \in Objects
  BY <1>1, NoneFacts DEF TypeOK
<1>3. u.val # None => new \in Shown /\ new # None
  BY <1>2, NoneFacts DEF Shown
<1>4. new.val = u.val /\ new.at = u.at
  OBVIOUS
<1> HIDE DEF new, u
<1>5. leaf' \in [Objects -> Shown \union {None}]
  BY <1>1, <1>3 DEF TypeOK
<1>6. update'[w] = None /\ (\A q \in Writers : q # w => update'[q] = update[q])
      /\ update' \in [Writers -> Update \union {None}]
  BY <1>1 DEF TypeOK
<1>7. \A x \in Objects :
         IF u.val = None /\ x \in Under(u.obj) /\ Older(x, u.at) THEN leaf'[x] = None
         ELSE IF u.val # None /\ x = u.obj /\ Older(x, u.at)
              THEN leaf'[x] # None /\ leaf'[x].val = u.val /\ leaf'[x].at = u.at
         ELSE leaf'[x] = leaf[x]
  BY <1>1, <1>3, <1>4
<1> QED BY <1>1, <1>2, <1>5, <1>6, <1>7 DEF u

----------------------------------------------------------------------------
(* What the dumping goroutine has left to do: what it subscribes to comes  *)
(* first, and until then nothing is shown that the subscription is about.  *)
In(q, s) == \E i \in 1 .. Len(q) : q[i] = s

Ordered(q) ==
    /\ \A i, j \in 1 .. Len(q) : i # j => q[i] # q[j]
    /\ \A i, j \in 1 .. Len(q) : i < j /\ q[j].does = "subscribe" => q[i].does = "subscribe"
    /\ \A i \in 1 .. Len(q) : q[i].does = "subscribe" => q[i].table \in Notified

LEMMA DoesFacts ==
    /\ \A what, t : Does(what, t).does = what /\ Does(what, t).table = t
    /\ \A s \in Step : s = Does(s.does, s.table) /\ s.table \in Tables
    /\ \A what, t, u : t # u => Does(what, t) # Does(what, u)
    /\ \A t, u : Does("subscribe", t) # Does("dump", u)
BY DEF Does, Step

LEMMA TailSteps ==
    ASSUME NEW q \in Seq(Step), q # <<>>, Ordered(q)
    PROVE  /\ Tail(q) \in Seq(Step) /\ Ordered(Tail(q)) /\ Head(q) \in Step /\ In(q, Head(q))
           /\ \A s : In(Tail(q), s) <=> In(q, s) /\ s # Head(q)
           /\ Head(q).does = "subscribe" => Head(q).table \in Notified
           /\ Head(q).does # "subscribe" => \A s : In(q, s) => s.does # "subscribe"
<1> DEFINE n == Len(q)
           r == Tail(q)
<1>1. /\ n \in Nat /\ n >= 1 /\ Head(q) = q[1] /\ r \in Seq(Step) /\ Len(r) = n - 1
      /\ \A i \in 1 .. n - 1 : r[i] = q[i + 1] /\ i + 1 \in 1 .. n
      /\ Head(q) \in Step /\ 1 \in 1 .. n
  OBVIOUS
<1> HIDE DEF n, r
<1>2. /\ \A i, j \in 1 .. n : i # j => q[i] # q[j]
      /\ \A i, j \in 1 .. n : i < j /\ q[j].does = "subscribe" => q[i].does = "subscribe"
      /\ \A i \in 1 .. n : q[i].does = "subscribe" => q[i].table \in Notified
  BY DEF Ordered, n
<1>3. In(q, Head(q))
  BY <1>1 DEF In, n
<1>4. ASSUME NEW s PROVE In(r, s) <=> In(q, s) /\ s # Head(q)
  <2>1. ASSUME In(r, s) PROVE In(q, s) /\ s # Head(q)
    <3>1. PICK i \in 1 .. n - 1 : r[i] = s
      BY <1>1, <2>1 DEF In
    <3>2. q[i + 1] = s /\ i + 1 \in 1 .. n /\ i + 1 # 1
      BY <1>1, <3>1
    <3>3. s # q[1]
      BY <1>1, <1>2, <3>2
    <3> QED BY <1>1, <3>2, <3>3 DEF In, n
  <2>2. ASSUME In(q, s), s # Head(q) PROVE In(r, s)
    <3>1. PICK i \in 1 .. n : q[i] = s
      BY <2>2 DEF In, n
    <3>2. i # 1
      BY <1>1, <2>2, <3>1
    <3>3. i - 1 \in 1 .. n - 1 /\ (i - 1) + 1 = i
      BY <1>1, <3>2
    <3>4. r[i - 1] = s
      BY <1>1, <3>1, <3>3
    <3> QED BY <1>1, <3>3, <3>4 DEF In
  <2> QED BY <2>1, <2>2
<1>5. Ordered(r)
  <2>1. \A i, j \in 1 .. n - 1 : i # j => r[i] # r[j]
    <3>1. ASSUME NEW i \in 1 .. n - 1, NEW j \in 1 .. n - 1, i # j PROVE r[i] # r[j]
      <4>1. i + 1 \in 1 .. n /\ j + 1 \in 1 .. n /\ i + 1 # j + 1
        BY <1>1, <3>1
      <4> QED BY <1>1, <1>2, <4>1
    <3> QED BY <3>1
  <2>2. ASSUME NEW i \in 1 .. n - 1, NEW j \in 1 .. n - 1, i < j, r[j].does = "subscribe"
        PROVE  r[i].does = "subscribe"
    <3>1. i + 1 \in 1 .. n /\ j + 1 \in 1 .. n /\ i + 1 < j + 1
      BY <1>1, <2>2
    <3> QED BY <1>1, <1>2, <2>2, <3>1
  <2>3. \A i \in 1 .. n - 1 : r[i].does = "subscribe" => r[i].table \in Notified
    BY <1>1, <1>2
  <2> QED BY <1>1, <2>1, <2>2, <2>3 DEF Ordered
<1>6. Head(q).does = "subscribe" => Head(q).table \in Notified
  BY <1>1, <1>2
<1>7. ASSUME Head(q).does # "subscribe", NEW s, In(q, s) PROVE s.does # "subscribe"
  <2>1. PICK i \in 1 .. n : q[i] = s
    BY <1>7 DEF In, n
  <2>2. i = 1 \/ 1 < i
    BY <1>1
  <2> QED BY <1>1, <1>2, <1>7, <2>1, <2>2
<1> QED BY <1>1, <1>3, <1>4, <1>5, <1>6, <1>7 DEF r

LEMMA PlannedSteps ==
    /\ RunSteps \in Seq(Step) /\ Ordered(RunSteps)
    /\ \A t \in Notified : In(RunSteps, Does("subscribe", t))
    /\ In(RunSteps, Does("dump", "link")) /\ In(RunSteps, Does("dump", "mac"))
    /\ PollSteps \in Seq(Step) /\ Ordered(PollSteps)
    /\ \A t \in Notified : ~In(PollSteps, Does("subscribe", t))
<1> DEFINE R == RunSteps
           P == PollSteps
<1>1. /\ \A t \in Tables : Does("subscribe", t) \in Step /\ Does("dump", t) \in Step
      /\ {"link", "mac", "route", "counters", "label", "addr"} = Tables
  BY Six DEF Does, Step
<1>2. R \in Seq(Step) /\ P \in Seq(Step)
  BY <1>1 DEF RunSteps, PollSteps
<1>3. /\ Len(R) = 8 /\ R[1] = Does("subscribe", "link") /\ R[2] = Does("subscribe", "mac")
      /\ R[3] = Does("subscribe", "route") /\ R[4] = Does("dump", "link")
      /\ R[5] = Does("dump", "counters") /\ R[6] = Does("dump", "mac")
      /\ R[7] = Does("dump", "label") /\ R[8] = Does("dump", "addr")
      /\ Len(P) = 3 /\ P[1] = Does("dump", "counters") /\ P[2] = Does("dump", "label")
      /\ P[3] = Does("dump", "addr")
  BY DEF RunSteps, PollSteps
<1> HIDE DEF R, P
<1>4. /\ \A i \in 1 .. 8 : i \in {1, 2, 3, 4, 5, 6, 7, 8}
      /\ \A i \in 1 .. 3 : i \in {1, 2, 3}
  OBVIOUS
<1>5. \A i, j \in 1 .. 8 : i # j => R[i] # R[j]
  BY <1>3, <1>4 DEF Does
<1>6. \A i \in 1 .. 8 : R[i].does = "subscribe" <=> i <= 3
  BY <1>3, <1>4 DEF Does
<1>7. \A i \in 1 .. 8 : i <= 3 => R[i].table \in Notified
  BY <1>3, <1>4, DoesFacts DEF Notified
<1>8. Ordered(R)
  BY <1>3, <1>5, <1>6, <1>7 DEF Ordered
<1>9. \A i \in 1 .. 3 : P[i].does = "dump"
  BY <1>3, <1>4, DoesFacts
<1>10. \A i, j \in 1 .. 3 : i # j => P[i] # P[j]
  BY <1>3, <1>4 DEF Does
<1>11. Ordered(P)
  BY <1>3, <1>9, <1>10 DEF Ordered
<1>12. \A t \in Notified : ~In(P, Does("subscribe", t))
  BY <1>3, <1>9, DoesFacts DEF In
<1>13. \A t \in Notified : In(R, Does("subscribe", t))
  BY <1>3 DEF In, Notified
<1>14. In(R, Does("dump", "link")) /\ In(R, Does("dump", "mac"))
  BY <1>3 DEF In
<1> QED BY <1>2, <1>8, <1>11, <1>12, <1>13, <1>14 DEF R, P

Unshown(o) == leaf[o] = None

Planned ==
    /\ Ordered(todo)
    /\ \A t \in Notified : In(todo, Does("subscribe", t)) =>
          /\ t \notin subscribed /\ list = {} /\ update["dump"] = None
          /\ t # "route" => In(todo, Does("dump", t))
          /\ \A s \in Sampled \union {t} : \A o \in Table(s) : Unshown(o)
    /\ \A t \in Notified : t \notin subscribed => chan[t] = <<>> /\ update[t] = None
    /\ \A t \in Notified : t \notin subscribed /\ t \notin failed => In(todo, Does("subscribe", t))

Names(w, o) == \E i \in 1 .. Len(w) : w[i][1] = o

\* A subscription: what of it is delivered at once is what there is.
LEMMA SubscribeEffect ==
    ASSUME TypeOK, Planned, Subscribe
    PROVE  /\ todo # <<>> /\ todo' = Tail(todo) /\ list = {} /\ update["dump"] = None
           /\ chan' \in [Notified -> Seq(Objects \X Said)] /\ ChanOK(chan')
           /\ \E t \in Notified :
                 /\ Head(todo) = Does("subscribe", t) /\ t \notin subscribed
                 /\ subscribed' = subscribed \union {t}
                 /\ \A s \in Notified : s # t => chan'[s] = chan[s]
                 /\ \A i \in 1 .. Len(chan'[t]) :
                       chan'[t][i] = <<chan'[t][i][1], kern[chan'[t][i][1]]>>
                 /\ \A o \in Table(t) : kern[o] # None => t # "route" \/ Names(chan'[t], o)
                 /\ t # "route" => chan'[t] = <<>>
           /\ UNCHANGED <<kern, list, update, leaf, clock, raced, unseen, failed>>
<1> DEFINE t == Head(todo).table
           first == IF t = "route" THEN Existing(t) ELSE {}
<1>1. /\ todo # <<>> /\ Head(todo).does = "subscribe" /\ list = {} /\ update["dump"] = None
      /\ todo' = Tail(todo) /\ subscribed' = subscribed \union {t}
      /\ UNCHANGED <<kern, list, update, leaf, clock, raced, unseen, failed>>
  BY DEF Subscribe, Begins, kernVars
<1>2. PICK order \in [1 .. Cardinality(first) -> first] :
         /\ {order[i] : i \in DOMAIN order} = first
         /\ chan' = [chan EXCEPT ![t] = [i \in DOMAIN order |-> <<order[i], kern[order[i]]>>]]
  BY DEF Subscribe
<1>3. Head(todo) \in Step /\ Head(todo) = Does("subscribe", t) /\ In(todo, Head(todo)) /\ t \in Notified
  BY <1>1, TailSteps, DoesFacts DEF TypeOK, Planned
<1>4. t \notin subscribed
  BY <1>3 DEF Planned
<1>5. first \subseteq Table(t) /\ Cardinality(first) \in Nat
  <2>1. CASE t = "route"
    <3>1. Existing(t) \subseteq Table(t)
      BY DEF Existing
    <3>2. Table(t) = Routes
      BY <2>1 DEF Table
    <3>3. IsFiniteSet(Existing(t)) /\ Cardinality(Existing(t)) \in Nat
      BY <3>1, <3>2, NetlinkAssumption, FS_Subset, FS_CardinalityType
    <3> QED BY <2>1, <3>1, <3>3
  <2>2. CASE t # "route"
    BY <2>2, FS_EmptySet
  <2> QED BY <2>1, <2>2
<1> DEFINE n == Cardinality(first)
           w == [i \in 1 .. n |-> <<order[i], kern[order[i]]>>]
<1>6. \A i \in 1 .. n : order[i] \in Table(t) /\ kern[order[i]] \in Said
  BY <1>3, <1>5, TableFacts, Six DEF TypeOK
<1>7. /\ w \in Seq(Table(t) \X Said) /\ Len(w) = n
      /\ \A i \in 1 .. n : w[i] = <<order[i], kern[order[i]]>>
  BY <1>5, <1>6
<1>8. w \in Seq(Objects \X Said)
  BY <1>3, <1>5, <1>6, TableFacts, Six
<1>9. chan' = [chan EXCEPT ![t] = w]
  BY <1>2
<1>10. ASSUME NEW o \in Table(t), kern[o] # None, t = "route" PROVE \E i \in 1 .. n : order[i] = o
  <2>1. o \in first
    BY <1>10 DEF Existing
  <2>2. PICK i \in DOMAIN order : order[i] = o
    <3> HIDE DEF first, t
    <3> QED BY <1>2, <2>1
  <2> QED BY <2>2
<1> HIDE DEF t, first, n, w
<1>11. /\ chan'[t] = w /\ \A s \in Notified : s # t => chan'[s] = chan[s]
       /\ chan' \in [Notified -> Seq(Objects \X Said)] /\ ChanOK(chan')
  BY <1>3, <1>7, <1>8, <1>9 DEF TypeOK, ChanOK
<1>12. ASSUME NEW o \in Table(t), kern[o] # None, t = "route" PROVE Names(w, o)
  <2>1. PICK i \in 1 .. n : order[i] = o
    BY <1>10, <1>12
  <2>2. w[i][1] = o /\ i \in 1 .. Len(w)
    BY <1>7, <2>1
  <2> QED BY <2>2 DEF Names
<1>13. \A i \in 1 .. Len(w) : w[i] = <<w[i][1], kern[w[i][1]]>>
  BY <1>7
<1>14. t # "route" => w = <<>>
  <2>1. t # "route" => n = 0
    BY FS_EmptySet DEF n, first
  <2> QED BY <1>7, <2>1
<1> QED BY <1>1, <1>3, <1>4, <1>11, <1>12, <1>13, <1>14

\* A dump is what there is.
LEMMA DumpEffect ==
    ASSUME TypeOK, Planned, Dump
    PROVE  /\ todo # <<>> /\ todo' = Tail(todo) /\ list = {} /\ update["dump"] = None
           /\ \E t \in Tables :
                 /\ Head(todo) = Does("dump", t)
                 /\ list' = {<<o, kern[o]>> : o \in Existing(t)}
                 /\ \A o \in Table(t) : kern[o] # None => <<o, kern[o]>> \in list'
                 /\ unseen' = IF chan["link"] = <<>> /\ update["link"] = None
                              THEN unseen \ Table(t) ELSE unseen
           /\ list' \in SUBSET (Objects \X Values)
           /\ \A e \in list' : e[1] \in Objects /\ e[2] = kern[e[1]] /\ e[2] \in Values
           /\ UNCHANGED <<kern, subscribed, chan, update, leaf, clock, raced, failed>>
<1> DEFINE t == Head(todo).table
<1>1. /\ todo # <<>> /\ Head(todo).does = "dump" /\ list = {} /\ update["dump"] = None
      /\ todo' = Tail(todo) /\ list' = {<<o, kern[o]>> : o \in Existing(t)}
      /\ unseen' = IF chan["link"] = <<>> /\ update["link"] = None
                   THEN unseen \ Table(t) ELSE unseen
      /\ UNCHANGED <<kern, subscribed, chan, update, leaf, clock, raced, failed>>
  BY DEF Dump, Begins, kernVars
<1>2. Head(todo) \in Step /\ Head(todo) = Does("dump", t) /\ t \in Tables
  BY <1>1, TailSteps, DoesFacts DEF TypeOK, Planned
<1> HIDE DEF t
<1>3. \A o \in Existing(t) : o \in Objects /\ kern[o] \in Values
  BY <1>2, TableFacts, NoneFacts DEF Existing, TypeOK
<1>4. \A e \in list' : e \in Objects \X Values /\ e[2] = kern[e[1]]
  BY <1>1, <1>3
<1>5. \A o \in Table(t) : kern[o] # None => <<o, kern[o]>> \in list'
  BY <1>1 DEF Existing
<1> QED BY <1>1, <1>2, <1>4, <1>5

LEMMA WriteDumpEffect ==
    ASSUME TypeOK, WriteDump
    PROVE  \E entry \in list :
              /\ entry[1] \in Objects /\ entry[2] \in Values /\ entry[2] \in Said
              /\ Stamp("dump", entry[1], entry[2])
              /\ list' = list \ {entry}
              /\ UNCHANGED <<kern, todo, subscribed, chan, leaf, raced, unseen, failed>>
BY DEF WriteDump, TypeOK, Said, kernVars, taskVars

LEMMA FailEffects ==
    ASSUME TypeOK, Planned
    PROVE  /\ SubscribeFails =>
                 /\ todo # <<>> /\ list = {} /\ update["dump"] = None
                 /\ \E t \in Notified :
                       /\ Head(todo) = Does("subscribe", t)
                       /\ \/ todo' = <<Does("return", t)>> /\ failed' = failed \union Notified
                          \/ todo' = Tail(todo) /\ failed' = failed \union {t}
                 /\ UNCHANGED <<kern, subscribed, chan, list, update, leaf, clock, raced, unseen>>
           /\ DumpFails =>
                 /\ todo # <<>> /\ list = {} /\ update["dump"] = None
                 /\ \E t \in Tables :
                       /\ Head(todo) = Does("dump", t)
                       /\ \/ todo' = <<>> /\ failed' = failed \union {"link", "mac"}
                          \/ todo' = Tail(todo) /\ failed' = failed \union ({t} \ Sampled)
                 /\ UNCHANGED <<kern, subscribed, chan, list, update, leaf, clock, raced, unseen>>
<1>1. ASSUME SubscribeFails
      PROVE  /\ todo # <<>> /\ list = {} /\ update["dump"] = None
             /\ \E t \in Notified :
                   /\ Head(todo) = Does("subscribe", t)
                   /\ \/ todo' = <<Does("return", t)>> /\ failed' = failed \union Notified
                      \/ todo' = Tail(todo) /\ failed' = failed \union {t}
             /\ UNCHANGED <<kern, subscribed, chan, list, update, leaf, clock, raced, unseen>>
  <2> DEFINE t == Head(todo).table
  <2>1. /\ todo # <<>> /\ Head(todo).does = "subscribe" /\ list = {} /\ update["dump"] = None
        /\ todo' = IF t = "link" THEN <<Does("return", t)>> ELSE Tail(todo)
        /\ failed' = failed \union IF t = "link" THEN Notified ELSE {t}
        /\ UNCHANGED <<kern, subscribed, chan, list, update, leaf, clock, raced, unseen>>
    BY <1>1 DEF SubscribeFails, Begins, kernVars
  <2>2. Head(todo) = Does("subscribe", t) /\ t \in Notified
    BY <2>1, TailSteps, DoesFacts DEF TypeOK, Planned
  <2> HIDE DEF t
  <2> QED BY <2>1, <2>2
<1>2. ASSUME DumpFails
      PROVE  /\ todo # <<>> /\ list = {} /\ update["dump"] = None
             /\ \E t \in Tables :
                   /\ Head(todo) = Does("dump", t)
                   /\ \/ todo' = <<>> /\ failed' = failed \union {"link", "mac"}
                      \/ todo' = Tail(todo) /\ failed' = failed \union ({t} \ Sampled)
             /\ UNCHANGED <<kern, subscribed, chan, list, update, leaf, clock, raced, unseen>>
  <2> DEFINE t == Head(todo).table
  <2>1. /\ todo # <<>> /\ Head(todo).does = "dump" /\ list = {} /\ update["dump"] = None
        /\ todo' = IF t = "link" THEN <<>> ELSE Tail(todo)
        /\ failed' = failed \union IF t = "link" THEN {"link", "mac"} ELSE {t} \ Sampled
        /\ UNCHANGED <<kern, subscribed, chan, list, update, leaf, clock, raced, unseen>>
    BY <1>2 DEF DumpFails, Begins, kernVars
  <2>2. Head(todo) = Does("dump", t) /\ t \in Tables
    BY <2>1, TailSteps, DoesFacts DEF TypeOK, Planned
  <2> HIDE DEF t
  <2> QED BY <2>1, <2>2
<1> QED BY <1>1, <1>2

LEMMA PollEffect ==
    Poll => /\ todo = <<>> /\ list = {} /\ update["dump"] = None /\ todo' = PollSteps
            /\ UNCHANGED <<kern, subscribed, chan, list, update, leaf, clock, raced, unseen, failed>>
BY DEF Poll, kernVars

\* One case per action.
LEMMA Cases ==
    ASSUME [Next]_vars
    PROVE  \/ \E o \in Objects, v \in Said : Change(o, v)
           \/ \E t \in Notified : Notify(t)
           \/ \E w \in Writers : Enter(w)
           \/ Subscribe \/ SubscribeFails \/ Dump \/ DumpFails \/ WriteDump \/ Poll
           \/ UNCHANGED <<kern, todo, subscribed, chan, list, update, leaf, clock, raced, unseen, failed>>
<1>1. CASE \E o \in Objects : \E v \in Says[TableOf(o)] \union {None} : Change(o, v)
  <2>0. PICK o \in Objects : \E v \in Says[TableOf(o)] \union {None} : Change(o, v)
    BY <1>1
  <2>1. PICK v \in Says[TableOf(o)] \union {None} : Change(o, v)
    BY <2>0
  <2>2. v \in Said
    BY TableFacts DEF Said, Values
  <2> QED BY <2>1, <2>2
<1>2. CASE LinkLoop \/ NeighLoop \/ RouteLoop
  BY <1>2, Six DEF LinkLoop, NeighLoop, RouteLoop
<1>3. CASE UNCHANGED vars
  BY <1>3 DEF vars, kernVars, taskVars
<1> QED BY <1>1, <1>2, <1>3 DEF Next

LEMMA Types == ASSUME TypeOK, Planned, [Next]_vars PROVE TypeOK'
<1>0. todo # <<>> => Tail(todo) \in Seq(Step)
  BY DEF TypeOK
<1>1. ASSUME NEW o \in Objects, NEW v \in Said, Change(o, v) PROVE TypeOK'
  <2>1. /\ kern' \in [Objects -> Said] /\ chan' \in [Notified -> Seq(Objects \X Said)] /\ ChanOK(chan')
        /\ UNCHANGED <<todo, subscribed, list, update, leaf, clock, failed>>
    BY <1>1, ChangeEffect
  <2> QED BY <2>1 DEF TypeOK
<1>2. ASSUME NEW t \in Notified, Notify(t) PROVE TypeOK'
  <2>1. /\ Head(chan[t]) \in Table(t) \X Said /\ Head(chan[t])[1] \in Objects
        /\ chan' \in [Notified -> Seq(Objects \X Said)] /\ ChanOK(chan')
        /\ Stamp(t, Head(chan[t])[1], Head(chan[t])[2])
        /\ UNCHANGED <<kern, todo, subscribed, list, leaf, raced, unseen, failed>>
    BY <1>2, NotifyEffect
  <2>2. t \in Writers /\ t # "dump" /\ Head(chan[t])[2] \in Said /\ Head(chan[t])[1] \in Table(t)
    BY <2>1, Six
  <2>3. /\ clock' = clock + 1 /\ update'[t].obj = Head(chan[t])[1]
        /\ \A q \in Writers : q # t => update'[q] = update[q]
        /\ update' \in [Writers -> Update \union {None}]
        /\ \A q \in Writers : update'[q] # None => update'[q].at <= clock'
        /\ \A x \in Objects : leaf[x] # None => leaf[x].at <= clock'
    BY <2>1, <2>2, StampEffect
  <2>4. UpdateOK(update')
    BY <2>2, <2>3, Six DEF UpdateOK, TypeOK
  <2> QED BY <2>1, <2>3, <2>4 DEF TypeOK
<1>3. ASSUME NEW w \in Writers, Enter(w) PROVE TypeOK'
  <2>1. UpdateOK(update')
    BY <1>3, EnterEffect, Six DEF UpdateOK, TypeOK
  <2>2. \A q \in Writers : update'[q] # None => update'[q].at <= clock
    BY <1>3, EnterEffect DEF TypeOK
  <2>3. \A x \in Objects : leaf'[x] # None => leaf'[x].at <= clock
    <3>1. update[w].at <= clock /\ \A x \in Objects : leaf[x] # None => leaf[x].at <= clock
      BY <1>3, EnterEffect DEF TypeOK
    <3>2. \A x \in Objects : leaf'[x] = None \/ leaf'[x] = leaf[x] \/ leaf'[x].at = update[w].at
      BY <1>3, EnterEffect
    <3> QED BY <3>1, <3>2
  <2> QED BY <1>3, <2>1, <2>2, <2>3, EnterEffect DEF TypeOK
<1>4. CASE Subscribe
  <2>1. subscribed' \in SUBSET Notified
    BY <1>4, SubscribeEffect DEF TypeOK
  <2>2. /\ todo' = Tail(todo) /\ todo # <<>> /\ chan' \in [Notified -> Seq(Objects \X Said)] /\ ChanOK(chan')
        /\ UNCHANGED <<kern, list, update, leaf, clock>>
    BY <1>4, SubscribeEffect
  <2> QED BY <1>0, <2>1, <2>2 DEF TypeOK
<1>5. CASE SubscribeFails
  <2>1. PICK t \in Notified : todo' = <<Does("return", t)>> \/ todo' = Tail(todo)
    BY <1>5, FailEffects
  <2>2. Does("return", t) \in Step
    BY Six DEF Does, Step
  <2>3. todo # <<>> /\ <<Does("return", t)>> \in Seq(Step)
    BY <1>5, <2>2, FailEffects
  <2>4. todo' \in Seq(Step)
    BY <1>0, <2>1, <2>3
  <2> QED BY <1>5, <2>4, FailEffects DEF TypeOK
<1>6. CASE Dump
  BY <1>0, <1>6, DumpEffect DEF TypeOK
<1>7. CASE DumpFails
  <2>1. todo' \in Seq(Step)
    <3>1. todo # <<>> /\ (todo' = <<>> \/ todo' = Tail(todo)) /\ <<>> \in Seq(Step)
      BY <1>7, FailEffects
    <3> QED BY <1>0, <3>1
  <2> QED BY <1>7, <2>1, FailEffects DEF TypeOK
<1>8. CASE WriteDump
  <2>1. PICK e \in list : /\ e[1] \in Objects /\ e[2] \in Values /\ e[2] \in Said
                          /\ Stamp("dump", e[1], e[2]) /\ list' = list \ {e}
                          /\ UNCHANGED <<kern, todo, subscribed, chan, leaf, raced, unseen, failed>>
    BY <1>8, WriteDumpEffect
  <2>2. /\ clock' = clock + 1 /\ update'["dump"].val = e[2]
        /\ \A q \in Writers : q # "dump" => update'[q] = update[q]
        /\ update' \in [Writers -> Update \union {None}]
        /\ \A q \in Writers : update'[q] # None => update'[q].at <= clock'
        /\ \A x \in Objects : leaf[x] # None => leaf[x].at <= clock'
    BY <2>1, StampEffect, Six
  <2>3. UpdateOK(update')
    BY <2>1, <2>2, Six DEF UpdateOK, TypeOK
  <2> QED BY <2>1, <2>2, <2>3 DEF TypeOK
<1>9. CASE Poll
  BY <1>9, PollEffect, PlannedSteps DEF TypeOK
<1>10. CASE UNCHANGED <<kern, todo, subscribed, chan, list, update, leaf, clock, raced, unseen, failed>>
  BY <1>10 DEF TypeOK
<1> QED BY <1>1, <1>2, <1>3, <1>4, <1>5, <1>6, <1>7, <1>8, <1>9, <1>10, Cases

LEMMA PlannedNext == ASSUME TypeOK, Planned, [Next]_vars PROVE Planned'
<1>0. /\ todo # <<>> => /\ Ordered(Tail(todo))
                        /\ \A s : In(Tail(todo), s) <=> In(todo, s) /\ s # Head(todo)
                        /\ Head(todo).does # "subscribe" => \A s : In(todo, s) => s.does # "subscribe"
      /\ ~ \E s : In(<<>>, s)
      /\ Ordered(<<>>)
  <2>1. ~(\E s : In(<<>>, s)) /\ Ordered(<<>>)
    BY DEF In, Ordered
  <2> QED BY <2>1, TailSteps DEF TypeOK, Planned
<1>1. ASSUME NEW o \in Objects, NEW v \in Said, Change(o, v) PROVE Planned'
  <2>1. /\ UNCHANGED <<todo, subscribed, list, update, leaf, failed>>
        /\ \A t \in Notified : t \notin subscribed => chan'[t] = chan[t]
    BY <1>1, ChangeEffect
  <2> QED BY <2>1 DEF Planned, Unshown
<1>2. ASSUME NEW t \in Notified, Notify(t) PROVE Planned'
  <2>1. /\ chan[t] # <<>> /\ \A s \in Notified : s # t => chan'[s] = chan[s]
        /\ Head(chan[t])[1] \in Objects /\ Head(chan[t])[2] \in Said
        /\ Stamp(t, Head(chan[t])[1], Head(chan[t])[2])
        /\ UNCHANGED <<todo, subscribed, list, leaf, failed>>
    BY <1>2, NotifyEffect
  <2>2. \A q \in Writers : q # t => update'[q] = update[q]
    BY <2>1, StampEffect, Six
  <2>3. t \in subscribed
    BY <2>1 DEF Planned
  <2> QED BY <2>1, <2>2, <2>3, Six DEF Planned, Unshown
<1>3. ASSUME NEW w \in Writers, Enter(w) PROVE Planned'
  <2>1. /\ update[w] # None /\ update'[w] = None /\ \A q \in Writers : q # w => update'[q] = update[q]
        /\ UNCHANGED <<todo, subscribed, chan, list, failed>>
    BY <1>3, EnterEffect
  <2>2. CASE w = "dump"
    <3>1. \A t \in Notified : ~In(todo, Does("subscribe", t))
      BY <2>1, <2>2 DEF Planned
    <3> QED BY <2>1, <2>2, <3>1, Six DEF Planned
  <2>3. CASE w # "dump"
    <3>1. w \in Notified /\ w \in subscribed /\ update[w].obj \in Table(w)
      BY <2>1, <2>3, Six DEF Planned, TypeOK, UpdateOK
    <3>2. ASSUME NEW t \in Notified, In(todo, Does("subscribe", t)),
                 NEW s \in Sampled \union {t}, NEW o \in Table(s)
          PROVE  leaf'[o] = None
      <4>1. leaf[o] = None /\ t # w
        BY <3>1, <3>2 DEF Planned, Unshown
      <4>2. s # w /\ s \in Tables
        BY <3>1, <4>1, Six
      <4>3. o \in Objects /\ o # update[w].obj
        BY <3>1, <4>2, TableFacts, Six
      <4> QED BY <1>3, <4>1, <4>3, EnterEffect
    <3> QED BY <2>1, <2>3, <3>1, <3>2, Six DEF Planned, Unshown
  <2> QED BY <2>2, <2>3
<1>4. CASE Subscribe
  <2>1. PICK t \in Notified : /\ Head(todo) = Does("subscribe", t)
                              /\ subscribed' = subscribed \union {t}
                              /\ \A s \in Notified : s # t => chan'[s] = chan[s]
    BY <1>4, SubscribeEffect
  <2>2. todo # <<>> /\ todo' = Tail(todo) /\ UNCHANGED <<list, update, leaf, failed>>
    BY <1>4, SubscribeEffect
  <2>3. \A s : In(todo', s) <=> In(todo, s) /\ s # Does("subscribe", t)
    BY <1>0, <2>1, <2>2
  <2> QED BY <1>0, <2>1, <2>2, <2>3, DoesFacts DEF Planned, Unshown
<1>5. CASE SubscribeFails
  <2>1. PICK t \in Notified : /\ Head(todo) = Does("subscribe", t)
                              /\ \/ todo' = <<Does("return", t)>> /\ failed' = failed \union Notified
                                 \/ todo' = Tail(todo) /\ failed' = failed \union {t}
    BY <1>5, FailEffects
  <2>2. todo # <<>> /\ UNCHANGED <<subscribed, chan, list, update, leaf>>
    BY <1>5, FailEffects
  <2>3. CASE todo' = <<Does("return", t)>> /\ failed' = failed \union Notified
    <3>1. Ordered(todo') /\ \A u \in Notified : ~In(todo', Does("subscribe", u))
      BY <2>3, DoesFacts DEF Ordered, In, Does
    <3> QED BY <2>2, <2>3, <3>1 DEF Planned
  <2>4. CASE todo' = Tail(todo) /\ failed' = failed \union {t}
    <3>1. \A s : In(todo', s) <=> In(todo, s) /\ s # Does("subscribe", t)
      BY <1>0, <2>1, <2>2, <2>4
    <3> QED BY <1>0, <2>1, <2>2, <2>4, <3>1, DoesFacts DEF Planned, Unshown
  <2> QED BY <2>1, <2>3, <2>4
<1>6. ASSUME todo # <<>>, Head(todo).does = "dump", todo' = Tail(todo) \/ todo' = <<>>,
             failed \subseteq failed', UNCHANGED <<subscribed, chan, update>>
      PROVE  Planned'
  <2>1. \A t \in Notified : ~In(todo, Does("subscribe", t))
    BY <1>0, <1>6, DoesFacts
  <2>2. \A t \in Notified : ~In(todo', Does("subscribe", t))
    BY <1>0, <1>6, <2>1
  <2> QED BY <1>0, <1>6, <2>1, <2>2 DEF Planned
<1>7. CASE Dump
  BY <1>6, <1>7, DumpEffect, DoesFacts
<1>8. CASE DumpFails
  BY <1>6, <1>8, FailEffects, DoesFacts
<1>9. CASE WriteDump
  <2>1. PICK e \in list : /\ e[1] \in Objects /\ e[2] \in Values /\ e[2] \in Said
                          /\ Stamp("dump", e[1], e[2])
                          /\ UNCHANGED <<todo, subscribed, chan, leaf, failed>>
    BY <1>9, WriteDumpEffect
  <2>2. \A q \in Writers : q # "dump" => update'[q] = update[q]
    BY <2>1, StampEffect, Six
  <2>3. \A t \in Notified : ~In(todo, Does("subscribe", t))
    BY <2>1 DEF Planned
  <2> QED BY <2>1, <2>2, <2>3, Six DEF Planned
<1>10. CASE Poll
  <2>1. \A t \in Notified : ~In(todo, Does("subscribe", t))
    BY <1>0, <1>10, PollEffect
  <2> QED BY <1>10, <2>1, PollEffect, PlannedSteps DEF Planned
<1>11. CASE UNCHANGED <<kern, todo, subscribed, chan, list, update, leaf, clock, raced, unseen, failed>>
  BY <1>11 DEF Planned, Unshown
<1> QED BY <1>1, <1>2, <1>3, <1>4, <1>5, <1>7, <1>8, <1>9, <1>10, <1>11, Cases

LEMMA KeptNext == ASSUME TypeOK, Planned, Kept, [Next]_vars PROVE Kept'
<1>1. ASSUME NEW o \in Objects, NEW v \in Said, Change(o, v) PROVE Kept'
  <2> DEFINE touched == Touched(o, v)
  <2> HIDE DEF touched
  <2>1. /\ touched \subseteq Under(o) /\ o \in touched /\ (v = None => touched = Under(o))
        /\ o \in Links /\ kern[o] = None => <<"counters", o>> \in touched
        /\ v # None /\ (o \notin Links \/ kern[o] # None) => touched = {o}
        /\ \A x \in Objects : kern'[x] = IF x \in touched THEN v ELSE kern[x]
    BY <1>1, ChangeEffect DEF touched
  <2>2. o \notin Counters /\ (o \in Addrs => kern[LinkOf[o]] # None)
    BY <1>1, ChangeEffect
  <2>3. \A l \in Links : l \in Objects /\ (l \in touched => l = o)
    BY <2>1, UnderFacts, TableFacts, Six
  <2>4. ASSUME NEW l \in Links PROVE kern'[l] = None <=> kern'[<<"counters", l>>] = None
    <3> DEFINE c == <<"counters", l>>
    <3>1. c \in Objects /\ c \in Counters /\ c \in Under(l) /\ c \notin Addrs /\ c # l
      BY UnderFacts, TableFacts, Six
    <3>2. CASE o = l
      <4>1. kern'[l] = v
        BY <2>1, <2>3, <3>2
      <4>2. CASE v = None
        BY <2>1, <3>1, <3>2, <4>1, <4>2
      <4>3. CASE v # None /\ kern[l] = None
        BY <2>1, <3>1, <3>2, <4>1, <4>3
      <4>4. CASE v # None /\ kern[l] # None
        <5>1. kern'[c] = kern[c]
          BY <2>1, <3>1, <3>2, <4>4
        <5> QED BY <4>1, <4>4, <5>1 DEF Kept
      <4> QED BY <4>2, <4>3, <4>4
    <3>3. CASE o # l
      <4>1. c \notin touched
        BY <2>1, <2>2, <3>1, <3>3 DEF Under
      <4> QED BY <2>1, <2>3, <3>1, <3>3, <4>1 DEF Kept
    <3> QED BY <3>2, <3>3
  <2>5. ASSUME NEW a \in Addrs, kern'[a] # None PROVE kern'[LinkOf[a]] # None
    <3>1. LinkOf[a] \in Links /\ a \in Objects /\ a \in Under(LinkOf[a])
      BY UnderFacts, TableFacts, Six
    <3>2. CASE LinkOf[a] = o
      BY <2>1, <2>3, <2>5, <3>1, <3>2
    <3>3. CASE LinkOf[a] # o
      <4>1. kern'[LinkOf[a]] = kern[LinkOf[a]]
        BY <2>1, <2>3, <3>1, <3>3
      <4>2. a \in touched => a = o
        <5>1. a \notin Counters
          BY TableFacts, Six
        <5> QED BY <2>1, <3>3, <5>1, UnderFacts DEF Under
      <4> QED BY <2>1, <2>2, <2>5, <3>1, <4>1, <4>2 DEF Kept
    <3> QED BY <3>2, <3>3
  <2> QED BY <2>4, <2>5 DEF Kept
<1>2. ASSUME UNCHANGED kern PROVE Kept'
  BY <1>2 DEF Kept
<1>3. \/ \E o \in Objects, v \in Said : Change(o, v)
      \/ UNCHANGED kern
  BY Cases, NotifyEffect, EnterEffect, SubscribeEffect, FailEffects, DumpEffect, WriteDumpEffect, PollEffect
<1> QED BY <1>1, <1>2, <1>3

----------------------------------------------------------------------------
(* Notifications.  The last one about an object is what the kernel says.   *)
Ends(w, o, v) ==
    \A i \in 1 .. Len(w) :
        w[i][1] = o /\ (\A j \in i + 1 .. Len(w) : w[j][1] # o) => w[i] = <<o, v>>

LEMMA WordAppend ==
    ASSUME NEW S, NEW w \in Seq(S), NEW last \in S, NEW o, NEW v, last = <<o, v>>
    PROVE  /\ \A x : Names(Append(w, last), x) <=> Names(w, x) \/ x = o
           /\ Ends(Append(w, last), o, v)
           /\ \A x, u : x # o /\ Ends(w, x, u) => Ends(Append(w, last), x, u)
           /\ \A m : In(Append(w, last), m) <=> In(w, m) \/ m = last
<1> DEFINE n == Len(w)
           r == Append(w, last)
<1>1. /\ n \in Nat /\ Len(r) = n + 1 /\ r[n + 1] = <<o, v>> /\ \A i \in 1 .. n : r[i] = w[i]
      /\ \A i \in 1 .. n + 1 : i = n + 1 \/ i \in 1 .. n
      /\ \A i \in 1 .. n : i \in 1 .. n + 1
      /\ n + 1 \in 1 .. n + 1
  OBVIOUS
<1> HIDE DEF n, r
<1>2. \A x : Names(r, x) <=> Names(w, x) \/ x = o
  BY <1>1 DEF Names, n
<1>3. Ends(r, o, v)
  <2>1. ASSUME NEW i \in 1 .. n + 1, \A j \in i + 1 .. n + 1 : r[j][1] # o PROVE i = n + 1
    <3>1. i # n + 1 => n + 1 \in i + 1 .. n + 1
      BY <1>1
    <3> QED BY <1>1, <2>1, <3>1
  <2> QED BY <1>1, <2>1 DEF Ends
<1>4. ASSUME NEW x, NEW u, x # o, Ends(w, x, u) PROVE Ends(r, x, u)
  <2>1. SUFFICES ASSUME NEW i \in 1 .. n + 1, r[i][1] = x, \A j \in i + 1 .. n + 1 : r[j][1] # x
                 PROVE  r[i] = <<x, u>>
    BY <1>1 DEF Ends
  <2>2. i \in 1 .. n /\ r[i] = w[i]
    BY <1>1, <1>4, <2>1
  <2>3. \A j \in i + 1 .. n : j \in i + 1 .. n + 1 /\ j \in 1 .. n
    BY <1>1, <2>2
  <2> QED BY <1>1, <1>4, <2>1, <2>2, <2>3 DEF Ends, n
<1>5. \A m : In(r, m) <=> In(w, m) \/ m = last
  BY <1>1 DEF In, n
<1> QED BY <1>2, <1>3, <1>4, <1>5 DEF r

LEMMA WordTail ==
    ASSUME NEW S, NEW w \in Seq(S), w # <<>>
    PROVE  /\ \A x : Names(w, x) <=> Head(w)[1] = x \/ Names(Tail(w), x)
           /\ \A x, u : Ends(w, x, u) => Ends(Tail(w), x, u)
           /\ \A x, u : Ends(w, x, u) /\ Head(w)[1] = x /\ ~Names(Tail(w), x) => Head(w) = <<x, u>>
           /\ In(w, Head(w)) /\ \A m : In(Tail(w), m) => In(w, m)
<1> DEFINE n == Len(w)
           r == Tail(w)
<1>1. /\ n \in Nat /\ n >= 1 /\ Head(w) = w[1] /\ Len(r) = n - 1
      /\ \A i \in 1 .. n - 1 : r[i] = w[i + 1] /\ i + 1 \in 1 .. n
      /\ 1 \in 1 .. n /\ \A i \in 1 .. n : i = 1 \/ (i - 1 \in 1 .. n - 1 /\ (i - 1) + 1 = i)
  OBVIOUS
<1> HIDE DEF n, r
<1>2. ASSUME NEW x PROVE Names(w, x) <=> Head(w)[1] = x \/ Names(r, x)
  <2>1. ASSUME Names(w, x), w[1][1] # x PROVE Names(r, x)
    <3>1. PICK i \in 1 .. n : w[i][1] = x
      BY <2>1 DEF Names, n
    <3>2. i - 1 \in 1 .. n - 1 /\ r[i - 1] = w[i]
      BY <1>1, <2>1, <3>1
    <3> QED BY <1>1, <3>1, <3>2 DEF Names
  <2>2. ASSUME Names(r, x) PROVE Names(w, x)
    BY <1>1, <2>2 DEF Names, n
  <2> QED BY <1>1, <2>1, <2>2 DEF Names, n
<1>3. ASSUME NEW x, NEW u, Ends(w, x, u) PROVE Ends(r, x, u)
  <2>1. SUFFICES ASSUME NEW i \in 1 .. n - 1, r[i][1] = x, \A j \in i + 1 .. n - 1 : r[j][1] # x
                 PROVE  r[i] = <<x, u>>
    BY <1>1 DEF Ends
  <2>2. i + 1 \in 1 .. n /\ w[i + 1] = r[i]
    BY <1>1
  <2>3. ASSUME NEW j \in (i + 1) + 1 .. n PROVE w[j][1] # x
    <3>1. j \in 1 .. n /\ j # 1 /\ j - 1 \in i + 1 .. n - 1
      BY <1>1
    <3>2. r[j - 1] = w[j]
      BY <1>1, <3>1
    <3> QED BY <2>1, <3>1, <3>2
  <2> QED BY <1>3, <2>1, <2>2, <2>3 DEF Ends, n
<1>4. ASSUME NEW x, NEW u, Ends(w, x, u), Head(w)[1] = x, ~Names(r, x) PROVE Head(w) = <<x, u>>
  <2>1. ASSUME NEW j \in 1 + 1 .. n PROVE w[j][1] # x
    <3>1. j \in 1 .. n /\ j # 1
      BY <1>1
    <3>2. j - 1 \in 1 .. n - 1 /\ r[j - 1] = w[j]
      BY <1>1, <3>1
    <3> QED BY <1>1, <1>4, <3>2 DEF Names
  <2> QED BY <1>1, <1>4, <2>1 DEF Ends, n
<1>5. In(w, Head(w)) /\ \A m : In(r, m) => In(w, m)
  BY <1>1 DEF In, n
<1> QED BY <1>2, <1>3, <1>4, <1>5 DEF r

LastWord(t, o) == Held(t, o) /\ ~Names(chan[t], o)

Quiet(t, o) == ~Held(t, o) /\ ~Names(chan[t], o)

Words ==
    \A t \in Notified : \A o \in Table(t) :
        /\ Ends(chan[t], o, kern[o])
        /\ LastWord(t, o) => update[t].val = kern[o]

\* A change and the notifications about an object of a notified table.
LEMMA ChangeWords ==
    ASSUME TypeOK, Planned, NEW p \in Objects, NEW v \in Said, Change(p, v),
           NEW t \in Notified, NEW o \in Table(t)
    PROVE  /\ o \in Objects /\ update' = update /\ leaf' = leaf
           /\ IF o = p /\ t \in subscribed THEN Names(chan'[t], o) /\ Ends(chan'[t], o, kern'[o])
              ELSE /\ Names(chan'[t], o) <=> Names(chan[t], o)
                   /\ \A u : Ends(chan[t], o, u) => Ends(chan'[t], o, u)
           /\ o # p => kern'[o] = kern[o]
           /\ o = p => kern'[o] = v
           /\ t \notin subscribed => ~Names(chan[t], o) /\ ~Held(t, o) /\ Ends(chan[t], o, kern'[o])
           /\ t \notin subscribed /\ t \notin failed => leaf[o] = None /\ In(todo, Does("subscribe", t))
<1>1. o \in Objects /\ \A s \in Notified : o \in Table(s) => s = t
  BY TableFacts, Six
<1>2. UNCHANGED <<update, leaf>> /\ (o # p => kern'[o] = kern[o]) /\ (o = p => kern'[o] = v)
  <2>1. o \in Touched(p, v) => o = p
    BY ChangeEffect, UnderFacts
  <2>2. p \in Touched(p, v) /\ \A x \in Objects : kern'[x] = IF x \in Touched(p, v) THEN v ELSE kern[x]
    BY ChangeEffect
  <2>3. UNCHANGED <<update, leaf>>
    BY ChangeEffect
  <2>4. kern'[o] = IF o \in Touched(p, v) THEN v ELSE kern[o]
    BY <1>1, <2>2
  <2> QED BY <2>1, <2>2, <2>3, <2>4
<1>3. chan[t] \in Seq(Table(t) \X Said)
  BY DEF TypeOK, ChanOK
<1>4. CASE p \in Table(t) /\ t \in subscribed
  <2>1. chan'[t] = Append(chan[t], <<p, v>>)
    BY <1>4, ChangeEffect
  <2>2. /\ \A x : Names(chan'[t], x) <=> Names(chan[t], x) \/ x = p
        /\ Ends(chan'[t], p, v)
        /\ \A x, u : x # p /\ Ends(chan[t], x, u) => Ends(chan'[t], x, u)
    <3>1. PICK w, S, m : w = chan[t] /\ S = Table(t) \X Said /\ m = <<p, v>>
      OBVIOUS
    <3>2. w \in Seq(S) /\ m \in S /\ m = <<p, v>>
      BY <1>3, <1>4, <3>1
    <3>3. /\ \A x : Names(Append(w, m), x) <=> Names(w, x) \/ x = p
          /\ Ends(Append(w, m), p, v)
          /\ \A x, u : x # p /\ Ends(w, x, u) => Ends(Append(w, m), x, u)
      BY <3>2, WordAppend
    <3> QED BY <2>1, <3>1, <3>3
  <2> QED BY <1>1, <1>2, <1>4, <2>2
<1>5. CASE p \notin Table(t) \/ t \notin subscribed
  <2>1. chan'[t] = chan[t]
    BY <1>5, ChangeEffect
  <2>2. t \notin subscribed => chan[t] = <<>> /\ update[t] = None
    BY DEF Planned
  <2>3. ~Names(<<>>, o) /\ \A u : Ends(<<>>, o, u)
    BY DEF Names, Ends
  <2>4. t \notin subscribed /\ t \notin failed => leaf[o] = None /\ In(todo, Does("subscribe", t))
    BY DEF Planned, Unshown
  <2> QED BY <1>1, <1>2, <1>5, <2>1, <2>2, <2>3, <2>4 DEF Held
<1> QED BY <1>4, <1>5

\* A notification becomes an update.
LEMMA NotifyWords ==
    ASSUME TypeOK, NEW t \in Notified, Notify(t), NEW o \in Table(t)
    PROVE  /\ o \in Objects /\ ~Held(t, o)
           /\ Names(chan[t], o) <=> Held(t, o)' \/ Names(chan'[t], o)
           /\ \A u : Ends(chan[t], o, u) => Ends(chan'[t], o, u)
           /\ Held(t, o)' => /\ update'[t].at = clock + 1
                             /\ \A u : Ends(chan[t], o, u) /\ ~Names(chan'[t], o) => update'[t].val = u
           /\ \A x \in Objects : Older(x, clock + 1)
           /\ \A q \in Writers : q # t => update'[q] = update[q]
<1>1. /\ chan[t] # <<>> /\ chan[t] \in Seq(Table(t) \X Said) /\ chan'[t] = Tail(chan[t])
      /\ Head(chan[t]) \in Table(t) \X Said /\ Head(chan[t])[1] \in Objects
      /\ Stamp(t, Head(chan[t])[1], Head(chan[t])[2]) /\ leaf' = leaf
  BY NotifyEffect
<1>2. /\ update[t] = None /\ update'[t] # None /\ update'[t].obj = Head(chan[t])[1]
      /\ update'[t].val = Head(chan[t])[2] /\ update'[t].at = clock + 1
      /\ \A x \in Objects : Older(x, clock + 1)
      /\ \A q \in Writers : q # t => update'[q] = update[q]
  BY <1>1, StampEffect, Six
<1>3. /\ Names(chan[t], o) <=> Head(chan[t])[1] = o \/ Names(chan'[t], o)
      /\ \A u : Ends(chan[t], o, u) => Ends(chan'[t], o, u)
      /\ \A u : Ends(chan[t], o, u) /\ Head(chan[t])[1] = o /\ ~Names(chan'[t], o)
                   => Head(chan[t]) = <<o, u>>
  <2>1. PICK w, S : w = chan[t] /\ S = Table(t) \X Said
    OBVIOUS
  <2>2. w \in Seq(S) /\ w # <<>>
    BY <1>1, <2>1
  <2>3. /\ \A x : Names(w, x) <=> Head(w)[1] = x \/ Names(Tail(w), x)
        /\ \A x, u : Ends(w, x, u) => Ends(Tail(w), x, u)
        /\ \A x, u : Ends(w, x, u) /\ Head(w)[1] = x /\ ~Names(Tail(w), x) => Head(w) = <<x, u>>
    BY <2>2, WordTail
  <2> QED BY <1>1, <2>1, <2>3
<1>4. o \in Objects
  BY TableFacts, Six
<1>5. ~Held(t, o) /\ (Held(t, o)' <=> Head(chan[t])[1] = o)
  BY <1>2 DEF Held
<1>6. ASSUME Held(t, o)', NEW u, Ends(chan[t], o, u), ~Names(chan'[t], o) PROVE update'[t].val = u
  <2>1. Head(chan[t]) = <<o, u>>
    BY <1>3, <1>5, <1>6
  <2> QED BY <1>2, <2>1
<1> QED BY <1>2, <1>3, <1>4, <1>5, <1>6

\* An update of one table leaves the other notified tables alone.
LEMMA EnterOther ==
    ASSUME TypeOK, NEW w \in Writers, Enter(w), NEW t \in Notified, NEW o \in Table(t),
           o # update[w].obj
    PROVE  leaf'[o] = leaf[o]
<1>1. o \in Objects /\ update[w].obj \in Objects
  BY TableFacts, Six, EnterEffect
<1>2. o \notin Under(update[w].obj)
  BY <1>1, UnderFacts
<1> QED BY <1>1, <1>2, EnterEffect

\* The other actions send no notification.
LEMMA OtherWords ==
    ASSUME TypeOK, Planned, NEW t \in Notified
    PROVE  /\ SubscribeFails \/ DumpFails => UNCHANGED <<kern, chan, update, leaf, list, raced, unseen>>
           /\ Dump => UNCHANGED <<kern, chan, update, leaf, raced, failed>>
           /\ WriteDump => /\ UNCHANGED <<kern, chan, leaf, raced, unseen, failed, todo>>
                           /\ update'[t] = update[t]
           /\ Poll => UNCHANGED <<kern, chan, list, update, leaf, raced, unseen, failed>>
<1>1. ASSUME WriteDump
      PROVE  UNCHANGED <<kern, chan, leaf, raced, unseen, failed, todo>> /\ update'[t] = update[t]
  <2>1. PICK e \in list : /\ e[1] \in Objects /\ e[2] \in Said /\ Stamp("dump", e[1], e[2])
                          /\ UNCHANGED <<kern, chan, leaf, raced, unseen, failed, todo>>
    BY <1>1, WriteDumpEffect
  <2> QED BY <2>1, StampEffect, Six
<1> QED BY <1>1, FailEffects, DumpEffect, PollEffect

\* A dumped entry becomes an update.
LEMMA WriteEntry ==
    ASSUME TypeOK, WriteDump
    PROVE  /\ \A x \in Objects : Entry(x) <=> Entry(x)'
           /\ list' \subseteq list /\ ~ \E x : Held("dump", x)
           /\ \A x \in Objects : Held("dump", x)' =>
                 /\ <<x, update'["dump"].val>> \in list
                 /\ update'["dump"].at = clock + 1 /\ Older(x, clock + 1)
<1>1. PICK e \in list : /\ e[1] \in Objects /\ e[2] \in Values /\ e[2] \in Said
                        /\ Stamp("dump", e[1], e[2]) /\ list' = list \ {e} /\ leaf' = leaf
  BY WriteDumpEffect
<1>2. /\ update["dump"] = None /\ update'["dump"] # None
      /\ update'["dump"].obj = e[1] /\ update'["dump"].val = e[2] /\ update'["dump"].at = clock + 1
      /\ \A x \in Objects : Older(x, clock + 1)
  BY <1>1, StampEffect, Six
<1>3. \A x : Held("dump", x)' <=> x = e[1]
  BY <1>2 DEF Held
<1>4. ~ \E x : Held("dump", x)
  BY <1>2 DEF Held
<1>5. e = <<e[1], e[2]>>
  BY DEF TypeOK
<1>6. \A x \in Objects : Entry(x) <=> Entry(x)'
  BY <1>1, <1>3, <1>4 DEF Entry
<1> QED BY <1>1, <1>2, <1>3, <1>4, <1>5, <1>6

LEMMA WordsNext == ASSUME TypeOK, Planned, Words, [Next]_vars PROVE Words'
<1> SUFFICES ASSUME NEW t \in Notified, NEW o \in Table(t)
             PROVE  Ends(chan[t], o, kern[o])' /\ (LastWord(t, o)' => update'[t].val = kern'[o])
  BY DEF Words
<1>0. Ends(chan[t], o, kern[o]) /\ (LastWord(t, o) => update[t].val = kern[o])
  BY DEF Words
<1>1. ASSUME NEW p \in Objects, NEW v \in Said, Change(p, v)
      PROVE  Ends(chan[t], o, kern[o])' /\ (LastWord(t, o)' => update'[t].val = kern'[o])
  BY <1>0, <1>1, ChangeWords DEF LastWord, Held
<1>2. ASSUME NEW s \in Notified, Notify(s)
      PROVE  Ends(chan[t], o, kern[o])' /\ (LastWord(t, o)' => update'[t].val = kern'[o])
  <2>1. kern' = kern
    BY <1>2, NotifyEffect
  <2>2. CASE s = t
    BY <1>0, <1>2, <2>1, <2>2, NotifyWords DEF LastWord
  <2>3. CASE s # t
    <3>1. chan'[t] = chan[t]
      BY <1>2, <2>3, NotifyEffect
    <3>2. update'[t] = update[t]
      <4>1. PICK x \in Table(s) : TRUE
        BY <1>2, NotifyEffect
      <4> QED BY <1>2, <2>3, <4>1, NotifyWords, Six
    <3> QED BY <1>0, <2>1, <3>1, <3>2 DEF LastWord, Held
  <2> QED BY <2>2, <2>3
<1>3. ASSUME NEW w \in Writers, Enter(w)
      PROVE  Ends(chan[t], o, kern[o])' /\ (LastWord(t, o)' => update'[t].val = kern'[o])
  <2>1. UNCHANGED <<kern, chan>> /\ (update'[t] = None \/ update'[t] = update[t])
    BY <1>3, EnterEffect, Six
  <2> QED BY <1>0, <2>1 DEF LastWord, Held
<1>4. CASE Subscribe
  <2>1. PICK s \in Notified : /\ s \notin subscribed
                              /\ \A q \in Notified : q # s => chan'[q] = chan[q]
                              /\ \A i \in 1 .. Len(chan'[s]) :
                                    chan'[s][i] = <<chan'[s][i][1], kern[chan'[s][i][1]]>>
    BY <1>4, SubscribeEffect
  <2>2. UNCHANGED <<kern, update>>
    BY <1>4, SubscribeEffect
  <2>3. update[s] = None
    BY <2>1 DEF Planned
  <2>4. CASE s = t
    BY <2>1, <2>2, <2>3, <2>4 DEF Ends, LastWord, Held
  <2>5. CASE s # t
    BY <1>0, <2>1, <2>2, <2>5 DEF LastWord, Held
  <2> QED BY <2>4, <2>5
<1>5. ASSUME UNCHANGED <<kern, chan>>, update'[t] = update[t]
      PROVE  Ends(chan[t], o, kern[o])' /\ (LastWord(t, o)' => update'[t].val = kern'[o])
  BY <1>0, <1>5 DEF LastWord, Held
<1>6. CASE SubscribeFails \/ DumpFails \/ Dump \/ WriteDump \/ Poll
  BY <1>5, <1>6, OtherWords
<1>7. CASE UNCHANGED <<kern, todo, subscribed, chan, list, update, leaf, clock, raced, unseen, failed>>
  BY <1>5, <1>7
<1> QED BY <1>1, <1>2, <1>3, <1>4, <1>6, <1>7, Cases

----------------------------------------------------------------------------
(* Nothing is missed: what is there is shown, or there is still somebody   *)
(* to show it.                                                             *)
Coming(t, o) ==
    \/ leaf[o] # None
    \/ In(todo, Does("subscribe", t))
    \/ t # "route" /\ In(todo, Does("dump", t))
    \/ Entry(o)
    \/ ~Quiet(t, o)

NotLost == \A t \in Notified \ failed : \A o \in Table(t) : kern[o] # None => Coming(t, o)

LEMMA EntryAlone ==
    ASSUME TypeOK, NEW t \in Notified
    PROVE  /\ update'["dump"] = update["dump"] /\ list' = list => \A x : Entry(x) <=> Entry(x)'
           /\ update'[t] = update[t] => \A x : Held(t, x) <=> Held(t, x)'
           /\ update'[t] = update[t] /\ chan'[t] = chan[t] =>
                 \A x : (Quiet(t, x) <=> Quiet(t, x)') /\ (LastWord(t, x) <=> LastWord(t, x)')
BY DEF Entry, Held, Quiet, LastWord

LEMMA NotLostNext == ASSUME TypeOK, Planned, Words, NotLost, [Next]_vars PROVE NotLost'
<1>0. /\ ~ \E s : In(<<>>, s)
      /\ todo # <<>> => \A s : In(Tail(todo), s) <=> In(todo, s) /\ s # Head(todo)
      /\ failed \subseteq failed'
  <2>1. ~ \E s : In(<<>>, s)
    BY DEF In
  <2>2. todo # <<>> => \A s : In(Tail(todo), s) <=> In(todo, s) /\ s # Head(todo)
    BY TailSteps DEF TypeOK, Planned
  <2>3. failed \subseteq failed'
    <3>1. SubscribeFails \/ DumpFails => failed \subseteq failed'
      BY FailEffects
    <3> QED BY <3>1, Cases, ChangeEffect, NotifyEffect, EnterEffect, SubscribeEffect, DumpEffect,
               WriteDumpEffect, PollEffect
  <2> QED BY <2>1, <2>2, <2>3
<1> SUFFICES ASSUME NEW t \in Notified, t \notin failed', NEW o \in Table(t), kern'[o] # None
             PROVE  Coming(t, o)'
  BY DEF NotLost
<1>a. t \notin failed /\ o \in Objects /\ t \in Tables /\ t # "dump"
  BY <1>0, TableFacts, Six
<1>b. kern[o] # None => Coming(t, o)
  BY <1>a DEF NotLost
<1>1. ASSUME NEW p \in Objects, NEW v \in Said, Change(p, v) PROVE Coming(t, o)'
  <2>1. UNCHANGED <<todo, list, update, leaf>>
    BY <1>1, ChangeEffect
  <2>2. Names(chan[t], o) => Names(chan'[t], o)
    BY <1>1, ChangeWords
  <2>3. Coming(t, o) => Coming(t, o)'
    BY <2>1, <2>2 DEF Coming, Entry, Held, Quiet
  <2>4. CASE o = p /\ t \in subscribed
    <3>1. Names(chan'[t], o)
      BY <1>1, <2>4, ChangeWords
    <3> QED BY <3>1 DEF Coming, Quiet
  <2>5. CASE t \notin subscribed
    <3>1. In(todo, Does("subscribe", t))
      BY <1>a, <2>5 DEF Planned
    <3> QED BY <2>1, <3>1 DEF Coming
  <2>6. CASE o # p
    BY <1>1, <1>b, <2>3, <2>6, ChangeWords
  <2> QED BY <2>4, <2>5, <2>6
<1>2. ASSUME NEW s \in Notified, Notify(s) PROVE Coming(t, o)'
  <2>1. UNCHANGED <<kern, todo, list, leaf>> /\ \A q \in Notified : q # s => chan'[q] = chan[q]
    BY <1>2, NotifyEffect
  <2>2. \A q \in Writers : q # s => update'[q] = update[q]
    <3>1. PICK x \in Table(s) : TRUE
      BY <1>2, NotifyEffect
    <3> QED BY <1>2, <3>1, NotifyWords
  <2>3. Quiet(t, o)' => Quiet(t, o)
    <3>1. CASE s = t
      BY <1>2, <3>1, NotifyWords DEF Quiet
    <3>2. CASE s # t
      BY <2>1, <2>2, <3>2, Six DEF Quiet, Held
    <3> QED BY <3>1, <3>2
  <2>4. Entry(o) <=> Entry(o)'
    BY <2>1, <2>2, Six DEF Entry, Held
  <2> QED BY <1>b, <2>1, <2>3, <2>4 DEF Coming
<1>3. ASSUME NEW w \in Writers, Enter(w) PROVE Coming(t, o)'
  <2>1. /\ update[w] # None /\ update'[w] = None /\ \A q \in Writers : q # w => update'[q] = update[q]
        /\ UNCHANGED <<kern, todo, chan, list>>
    BY <1>3, EnterEffect
  <2>2. CASE o # update[w].obj
    <3>1. leaf'[o] = leaf[o]
      BY <1>3, <2>2, EnterOther
    <3>2. \A q \in Writers : Held(q, o)' <=> Held(q, o)
      BY <2>1, <2>2 DEF Held
    <3> QED BY <1>b, <2>1, <3>1, <3>2, Six DEF Coming, Entry, Quiet
  <2>3. CASE o = update[w].obj /\ update[w].val # None
    <3>1. leaf'[o] # None
      BY <1>3, <1>a, <2>3, EnterEffect DEF Older
    <3> QED BY <3>1 DEF Coming
  <2>4. CASE o = update[w].obj /\ update[w].val = None
    <3>1. w # "dump"
      BY <2>1, <2>4, NoneFacts DEF TypeOK, UpdateOK
    <3>2. w = t
      BY <1>a, <2>1, <2>4, <3>1, TableFacts, Six DEF TypeOK, UpdateOK
    <3>3. Held(t, o) /\ update[t].val # kern[o]
      BY <2>1, <2>4, <3>2 DEF Held
    <3>4. Names(chan[t], o)
      BY <3>3 DEF Words, LastWord
    <3> QED BY <2>1, <3>4 DEF Coming, Quiet
  <2> QED BY <2>2, <2>3, <2>4
<1>4. CASE Subscribe
  <2>1. PICK s \in Notified : /\ Head(todo) = Does("subscribe", s) /\ s \notin subscribed
                              /\ \A q \in Notified : q # s => chan'[q] = chan[q]
                              /\ \A x \in Table(s) : kern[x] # None => s # "route" \/ Names(chan'[s], x)
    BY <1>4, SubscribeEffect
  <2>2. todo # <<>> /\ todo' = Tail(todo) /\ UNCHANGED <<kern, list, update, leaf>>
    BY <1>4, SubscribeEffect
  <2>3. \A q : In(todo', q) <=> In(todo, q) /\ q # Does("subscribe", s)
    BY <1>0, <2>1, <2>2
  <2>4. CASE s = t
    <3>1. In(todo, Does("subscribe", t))
      BY <2>1, <2>2, <2>4, TailSteps DEF TypeOK, Planned
    <3>2. t # "route" => In(todo', Does("dump", t))
      BY <2>3, <3>1, DoesFacts DEF Planned
    <3>3. t = "route" => Names(chan'[t], o)
      BY <2>1, <2>2, <2>4
    <3> QED BY <3>2, <3>3 DEF Coming, Quiet
  <2>5. CASE s # t
    <3>1. In(todo, Does("subscribe", t)) <=> In(todo', Does("subscribe", t))
      BY <2>3, <2>5, DoesFacts
    <3>2. In(todo, Does("dump", t)) <=> In(todo', Does("dump", t))
      BY <2>3, DoesFacts
    <3>3. chan'[t] = chan[t]
      BY <2>1, <2>5
    <3> QED BY <1>b, <2>2, <3>1, <3>2, <3>3 DEF Coming, Entry, Quiet, Held
  <2> QED BY <2>4, <2>5
<1>5. CASE SubscribeFails
  <2>1. PICK s \in Notified : /\ Head(todo) = Does("subscribe", s)
                              /\ \/ failed' = failed \union Notified
                                 \/ todo' = Tail(todo) /\ failed' = failed \union {s}
    BY <1>5, FailEffects
  <2>2. todo # <<>> /\ UNCHANGED <<kern, chan, list, update, leaf>>
    BY <1>5, FailEffects
  <2>3. s # t /\ todo' = Tail(todo)
    BY <2>1
  <2>4. \A q : In(todo', q) <=> In(todo, q) /\ q # Does("subscribe", s)
    BY <1>0, <2>1, <2>2, <2>3
  <2>5. /\ In(todo, Does("subscribe", t)) <=> In(todo', Does("subscribe", t))
        /\ In(todo, Does("dump", t)) <=> In(todo', Does("dump", t))
    BY <2>3, <2>4, DoesFacts
  <2> QED BY <1>b, <2>2, <2>5 DEF Coming, Entry, Quiet, Held
<1>6. CASE Dump
  <2>1. PICK s \in Tables : /\ Head(todo) = Does("dump", s)
                            /\ \A x \in Table(s) : kern[x] # None => <<x, kern[x]>> \in list'
    BY <1>6, DumpEffect
  <2>2. /\ todo # <<>> /\ todo' = Tail(todo) /\ list = {} /\ update["dump"] = None
        /\ UNCHANGED <<kern, chan, update, leaf>>
    BY <1>6, DumpEffect
  <2>3. \A q : In(todo', q) <=> In(todo, q) /\ q # Does("dump", s)
    BY <1>0, <2>1, <2>2
  <2>4. CASE s = t
    <3>1. <<o, kern[o]>> \in list' /\ <<o, kern[o]>>[1] = o
      BY <2>1, <2>2, <2>4
    <3> QED BY <3>1 DEF Coming, Entry
  <2>5. CASE s # t
    <3>1. /\ In(todo, Does("subscribe", t)) <=> In(todo', Does("subscribe", t))
          /\ In(todo, Does("dump", t)) <=> In(todo', Does("dump", t))
      BY <2>3, <2>5, DoesFacts
    <3>2. ~Entry(o)
      BY <2>2 DEF Entry, Held
    <3> QED BY <1>b, <2>2, <3>1, <3>2 DEF Coming, Quiet, Held
  <2> QED BY <2>4, <2>5
<1>7. CASE DumpFails
  <2>1. PICK s \in Tables : /\ Head(todo) = Does("dump", s)
                            /\ \/ todo' = <<>> /\ failed' = failed \union {"link", "mac"}
                               \/ todo' = Tail(todo) /\ failed' = failed \union ({s} \ Sampled)
    BY <1>7, FailEffects
  <2>2. todo # <<>> /\ UNCHANGED <<kern, chan, list, update, leaf>>
    BY <1>7, FailEffects
  <2>3. ~In(todo, Does("subscribe", t))
    BY <2>1, <2>2, TailSteps, DoesFacts DEF TypeOK, Planned
  <2>4. CASE todo' = <<>> /\ failed' = failed \union {"link", "mac"}
    <3>1. t = "route"
      BY <2>4 DEF Notified
    <3> QED BY <1>b, <2>2, <2>3, <3>1 DEF Coming, Entry, Quiet, Held
  <2>5. CASE todo' = Tail(todo) /\ failed' = failed \union ({s} \ Sampled)
    <3>1. s # t
      BY <2>5, Six
    <3>2. In(todo, Does("dump", t)) <=> In(todo', Does("dump", t))
      BY <1>0, <2>1, <2>2, <2>5, <3>1, DoesFacts
    <3> QED BY <1>b, <2>2, <2>3, <3>2 DEF Coming, Entry, Quiet, Held
  <2> QED BY <2>1, <2>4, <2>5
<1>8. CASE WriteDump
  <2>1. UNCHANGED <<kern, chan, leaf, todo>> /\ update'[t] = update[t]
    BY <1>8, OtherWords
  <2>2. Entry(o) <=> Entry(o)'
    BY <1>8, <1>a, WriteEntry
  <2> QED BY <1>b, <2>1, <2>2 DEF Coming, Quiet, Held
<1>9. CASE Poll
  BY <1>0, <1>9, <1>b, PollEffect DEF Coming, Entry, Quiet, Held
<1>10. CASE UNCHANGED <<kern, todo, subscribed, chan, list, update, leaf, clock, raced, unseen, failed>>
  BY <1>10, <1>b DEF Coming, Entry, Quiet, Held
<1> QED BY <1>1, <1>2, <1>3, <1>4, <1>5, <1>6, <1>7, <1>8, <1>9, <1>10, Cases

----------------------------------------------------------------------------
(* What is shown is what the kernel says.  First what is being dumped.     *)
Fresh ==
    \A o \in Objects \ raced :
        /\ \A e \in list : e[1] = o => e[2] = kern[o]
        /\ Held("dump", o) => update["dump"].val = kern[o]

LEMMA FreshNext == ASSUME TypeOK, Planned, Fresh, [Next]_vars PROVE Fresh'
<1> SUFFICES ASSUME NEW o \in Objects, o \notin raced'
             PROVE  /\ \A e \in list' : e[1] = o => e[2] = kern'[o]
                    /\ Held("dump", o)' => update'["dump"].val = kern'[o]
  BY DEF Fresh
<1>0. raced \subseteq raced'
  BY Cases, ChangeEffect, NotifyEffect, EnterEffect, SubscribeEffect, DumpEffect, WriteDumpEffect,
     FailEffects, PollEffect
<1>a. /\ \A e \in list : e[1] = o => e[2] = kern[o]
      /\ Held("dump", o) => update["dump"].val = kern[o]
  BY <1>0 DEF Fresh
<1>1. ASSUME NEW p \in Objects, NEW v \in Said, Change(p, v)
      PROVE  /\ \A e \in list' : e[1] = o => e[2] = kern'[o]
             /\ Held("dump", o)' => update'["dump"].val = kern'[o]
  <2>1. UNCHANGED <<list, update>> /\ (o \in Touched(p, v) => ~Entry(o))
        /\ kern'[o] = IF o \in Touched(p, v) THEN v ELSE kern[o]
    BY <1>1, ChangeEffect
  <2> QED BY <1>a, <2>1 DEF Entry, Held
<1>2. ASSUME UNCHANGED <<kern, list>>, update'["dump"] = update["dump"] \/ update'["dump"] = None
      PROVE  /\ \A e \in list' : e[1] = o => e[2] = kern'[o]
             /\ Held("dump", o)' => update'["dump"].val = kern'[o]
  BY <1>a, <1>2 DEF Held
<1>3. ASSUME NEW s \in Notified, Notify(s)
      PROVE  UNCHANGED <<kern, list>> /\ update'["dump"] = update["dump"]
  <2>1. PICK x \in Table(s) : TRUE
    BY <1>3, NotifyEffect
  <2> QED BY <1>3, <2>1, NotifyWords, NotifyEffect, Six
<1>4. ASSUME NEW w \in Writers, Enter(w)
      PROVE  UNCHANGED <<kern, list>> /\ (update'["dump"] = update["dump"] \/ update'["dump"] = None)
  BY <1>4, EnterEffect, Six
<1>5. CASE Dump
  BY <1>5, DumpEffect DEF Held
<1>6. CASE WriteDump
  <2>1. UNCHANGED kern
    BY <1>6, WriteDumpEffect
  <2>2. list' \subseteq list /\ (Held("dump", o)' => <<o, update'["dump"].val>> \in list)
    BY <1>6, WriteEntry
  <2> QED BY <1>a, <2>1, <2>2
<1>7. CASE Subscribe \/ SubscribeFails \/ DumpFails \/ Poll
  BY <1>2, <1>7, SubscribeEffect, FailEffects, PollEffect
<1>8. CASE UNCHANGED <<kern, todo, subscribed, chan, list, update, leaf, clock, raced, unseen, failed>>
  BY <1>2, <1>8
<1> QED BY <1>1, <1>2, <1>3, <1>4, <1>5, <1>6, <1>7, <1>8, Cases

\* Notifications and the dump race to a leaf, and it ends up current.
CurrentAt(t, o) ==
    /\ Quiet(t, o) /\ leaf[o] # None => leaf[o].val = kern[o]
    /\ LastWord(t, o) /\ ~Older(o, update[t].at) => leaf[o].val = kern[o]

Current == \A t \in Notified \ failed : \A o \in Table(t) \ raced : CurrentAt(t, o)

LEMMA Growing == ASSUME TypeOK, Planned, [Next]_vars PROVE raced \subseteq raced' /\ failed \subseteq failed'
<1>1. SubscribeFails \/ DumpFails => failed \subseteq failed'
  BY FailEffects
<1>2. raced \subseteq raced'
  BY Cases, ChangeEffect, NotifyEffect, EnterEffect, SubscribeEffect, DumpEffect, WriteDumpEffect,
     FailEffects, PollEffect
<1>3. failed \subseteq failed'
  BY <1>1, Cases, ChangeEffect, NotifyEffect, EnterEffect, SubscribeEffect, DumpEffect,
     WriteDumpEffect, PollEffect
<1> QED BY <1>2, <1>3

LEMMA NotifyOthers ==
    ASSUME TypeOK, NEW s \in Notified, Notify(s)
    PROVE  /\ UNCHANGED <<kern, todo, list, leaf, raced, unseen, failed>>
           /\ \A q \in Notified : q # s => chan'[q] = chan[q]
           /\ \A q \in Writers : q # s => update'[q] = update[q]
<1>1. PICK x \in Table(s) : TRUE
  BY NotifyEffect
<1> QED BY <1>1, NotifyWords, NotifyEffect

LEMMA CurrentNext == ASSUME TypeOK, Planned, Words, Fresh, Current, [Next]_vars PROVE Current'
<1> SUFFICES ASSUME NEW t \in Notified, t \notin failed', NEW o \in Table(t), o \notin raced'
             PROVE  CurrentAt(t, o)'
  BY DEF Current, CurrentAt
<1>a. t \notin failed /\ o \notin raced /\ o \in Objects /\ t \in Tables /\ t # "dump" /\ t \in Writers
  BY Growing, TableFacts, Six
<1>b. CurrentAt(t, o)
  BY <1>a DEF Current, CurrentAt
<1>1. ASSUME NEW p \in Objects, NEW v \in Said, Change(p, v) PROVE CurrentAt(t, o)'
  <2>1. update' = update /\ leaf' = leaf
    BY <1>1, ChangeWords
  <2>2. CASE o = p /\ t \in subscribed
    <3>1. Names(chan'[t], o)
      BY <1>1, <2>2, ChangeWords
    <3> QED BY <3>1 DEF CurrentAt, Quiet, LastWord
  <2>3. CASE t \notin subscribed
    <3>1. leaf[o] = None
      BY <1>1, <1>a, <2>3, ChangeWords
    <3> QED BY <2>1, <3>1 DEF CurrentAt, Older
  <2>4. CASE o # p
    <3>1. kern'[o] = kern[o] /\ (Names(chan'[t], o) <=> Names(chan[t], o))
      BY <1>1, <2>4, ChangeWords
    <3> QED BY <1>b, <2>1, <3>1 DEF CurrentAt, Quiet, LastWord, Held, Older
  <2> QED BY <2>2, <2>3, <2>4
<1>2. ASSUME NEW s \in Notified, Notify(s) PROVE CurrentAt(t, o)'
  <2>1. UNCHANGED <<kern, leaf>>
    BY <1>2, NotifyOthers
  <2>2. CASE s = t
    <3>1. /\ Quiet(t, o)' => Quiet(t, o)
          /\ LastWord(t, o)' => update'[t].at = clock + 1 /\ Older(o, clock + 1)
      BY <1>2, <1>a, <2>2, NotifyWords DEF Quiet, LastWord
    <3> QED BY <1>b, <2>1, <3>1 DEF CurrentAt, Older
  <2>3. CASE s # t
    <3>1. update'[t] = update[t] /\ chan'[t] = chan[t]
      BY <1>2, <1>a, <2>3, NotifyOthers
    <3> QED BY <1>b, <2>1, <3>1 DEF CurrentAt, Quiet, LastWord, Held, Older
  <2> QED BY <2>2, <2>3
<1>3. ASSUME NEW w \in Writers, Enter(w) PROVE CurrentAt(t, o)'
  <2>1. /\ update[w] # None /\ update'[w] = None /\ \A q \in Writers : q # w => update'[q] = update[q]
        /\ UNCHANGED <<kern, chan>>
    BY <1>3, EnterEffect
  <2>2. CASE o # update[w].obj
    <3>1. leaf'[o] = leaf[o]
      BY <1>3, <2>2, EnterOther
    <3>2. (Held(t, o)' <=> Held(t, o)) /\ (Held(t, o) => update'[t] = update[t])
      BY <1>a, <2>1, <2>2 DEF Held
    <3> QED BY <1>b, <2>1, <3>1, <3>2 DEF CurrentAt, Quiet, LastWord, Older
  <2>3. CASE o = update[w].obj /\ w = t
    <3>1. ~LastWord(t, o)' /\ (Quiet(t, o)' => LastWord(t, o))
      BY <2>1, <2>3 DEF LastWord, Quiet, Held
    <3>2. ASSUME LastWord(t, o), leaf'[o] # None PROVE leaf'[o].val = kern[o]
      <4>1. update[t].val = kern[o]
        BY <3>2 DEF Words
      <4>2. CASE Older(o, update[t].at)
        BY <1>3, <1>a, <2>3, <3>2, <4>1, <4>2, EnterEffect, UnderFacts
      <4>3. CASE ~Older(o, update[t].at)
        <5>1. leaf'[o] = leaf[o]
          BY <1>3, <1>a, <2>3, <4>3, EnterEffect
        <5> QED BY <1>b, <3>2, <4>3, <5>1 DEF CurrentAt
      <4> QED BY <4>2, <4>3
    <3> QED BY <2>1, <3>1, <3>2 DEF CurrentAt
  <2>4. CASE o = update[w].obj /\ w # t
    <3>1. w = "dump"
      <4>1. w \in Notified => w \in Tables /\ o \in Table(w)
        BY <2>1, <2>4, Six DEF TypeOK, UpdateOK
      <4> QED BY <1>a, <2>4, <4>1, TableFacts, Six
    <3>2. update[w].val = kern[o] /\ update[w].val # None
      BY <1>a, <2>1, <2>4, <3>1, NoneFacts DEF Fresh, Held, TypeOK, UpdateOK
    <3>3. (leaf'[o] # None /\ leaf'[o].val = kern[o]) \/ leaf'[o] = leaf[o]
      BY <1>3, <1>a, <2>4, <3>2, EnterEffect
    <3>4. update'[t] = update[t]
      BY <1>a, <2>1, <2>4
    <3> QED BY <1>b, <2>1, <3>3, <3>4 DEF CurrentAt, Quiet, LastWord, Held, Older
  <2> QED BY <2>2, <2>3, <2>4
<1>4. CASE Subscribe
  <2>1. PICK s \in Notified : /\ Head(todo) = Does("subscribe", s)
                              /\ \A q \in Notified : q # s => chan'[q] = chan[q]
    BY <1>4, SubscribeEffect
  <2>2. todo # <<>> /\ UNCHANGED <<kern, update, leaf>>
    BY <1>4, SubscribeEffect
  <2>3. CASE s = t
    <3>1. In(todo, Does("subscribe", t))
      BY <2>1, <2>2, <2>3, TailSteps DEF TypeOK, Planned
    <3>2. leaf[o] = None
      BY <3>1 DEF Planned, Unshown
    <3> QED BY <2>2, <3>2 DEF CurrentAt, Older
  <2>4. CASE s # t
    BY <1>b, <2>1, <2>2, <2>4 DEF CurrentAt, Quiet, LastWord, Held, Older
  <2> QED BY <2>3, <2>4
<1>5. ASSUME UNCHANGED <<kern, chan, leaf>>, update'[t] = update[t] PROVE CurrentAt(t, o)'
  BY <1>b, <1>5 DEF CurrentAt, Quiet, LastWord, Held, Older
<1>6. CASE SubscribeFails \/ DumpFails \/ Dump \/ WriteDump \/ Poll
  BY <1>5, <1>6, OtherWords
<1>7. CASE UNCHANGED <<kern, todo, subscribed, chan, list, update, leaf, clock, raced, unseen, failed>>
  BY <1>5, <1>7
<1> QED BY <1>1, <1>2, <1>3, <1>4, <1>6, <1>7, Cases

\* With a link goes what is under it.
GoneAt(l) ==
    /\ Quiet("link", l) => \A x \in Under(l) \ raced : leaf[x] = None
    /\ LastWord("link", l) => \A x \in Under(l) \ raced : Older(x, update["link"].at)

Gone == "link" \notin failed => \A l \in Links \ raced : kern[l] = None => GoneAt(l)

LEMMA Dead ==
    ASSUME TypeOK, Kept, Fresh, NEW l \in Links, kern[l] = None, NEW x \in Under(l), x \notin raced
    PROVE  x \in Objects /\ kern[x] = None /\ ~Entry(x)
<1>1. l \in Objects /\ x \in Objects
  BY UnderFacts, TableFacts, Six
<1>2. kern[x] = None
  BY DEF Under, Kept
<1>3. ~(\E e \in list : e[1] = x)
  BY <1>1, <1>2, NoneFacts DEF Fresh, TypeOK
<1>4. ~Held("dump", x)
  BY <1>1, <1>2, NoneFacts DEF Fresh, Held, TypeOK, UpdateOK
<1> QED BY <1>1, <1>2, <1>3, <1>4 DEF Entry

LEMMA GoneNext == ASSUME TypeOK, Planned, Kept, Words, Fresh, Gone, [Next]_vars PROVE Gone'
<1> SUFFICES ASSUME "link" \notin failed', NEW l \in Links, l \notin raced', kern'[l] = None
             PROVE  GoneAt(l)'
  BY DEF Gone
<1>a. /\ "link" \notin failed /\ l \notin raced /\ raced \subseteq raced'
      /\ l \in Objects /\ l \in Table("link") /\ "link" \in Notified /\ "link" \in Writers
      /\ \A x \in Under(l) : x \in Objects
  BY Growing, TableFacts, UnderFacts, Six
<1>b. kern[l] = None => GoneAt(l)
  BY <1>a DEF Gone
<1>c. ASSUME In(todo, Does("subscribe", "link")) PROVE \A x \in Under(l) : leaf[x] = None
  <2>1. \A s \in Sampled \union {"link"} : \A x \in Table(s) : leaf[x] = None
    BY <1>a, <1>c DEF Planned, Unshown
  <2>2. \A x \in Under(l) : x = l \/ \E s \in Sampled : x \in Table(s)
    BY <1>a, UnderFacts
  <2> QED BY <1>a, <2>1, <2>2
<1>1. ASSUME NEW p \in Objects, NEW v \in Said, Change(p, v) PROVE GoneAt(l)'
  <2>1. update' = update /\ leaf' = leaf
    BY <1>1, <1>a, ChangeWords
  <2>2. CASE l = p /\ "link" \in subscribed
    <3>1. Names(chan'["link"], l)
      BY <1>1, <1>a, <2>2, ChangeWords
    <3> QED BY <3>1 DEF GoneAt, Quiet, LastWord
  <2>3. CASE "link" \notin subscribed
    <3>1. \A x \in Under(l) : leaf[x] = None
      BY <1>a, <1>c, <2>3 DEF Planned
    <3> QED BY <2>1, <3>1 DEF GoneAt, Older
  <2>4. CASE l # p
    <3>1. kern[l] = None /\ (Names(chan'["link"], l) <=> Names(chan["link"], l))
      BY <1>1, <1>a, <2>4, ChangeWords
    <3> QED BY <1>a, <1>b, <2>1, <3>1 DEF GoneAt, Quiet, LastWord, Held, Older
  <2> QED BY <2>2, <2>3, <2>4
<1>2. ASSUME NEW s \in Notified, Notify(s) PROVE GoneAt(l)'
  <2>1. UNCHANGED <<kern, leaf, raced>>
    BY <1>2, NotifyOthers
  <2>2. CASE s = "link"
    <3>1. /\ Quiet("link", l)' => Quiet("link", l)
          /\ LastWord("link", l)' => update'["link"].at = clock + 1
      BY <1>2, <1>a, <2>2, NotifyWords DEF Quiet, LastWord
    <3>2. \A x \in Objects : Older(x, clock + 1)
      BY <1>2, <1>a, <2>2, NotifyWords
    <3> QED BY <1>a, <1>b, <2>1, <3>1, <3>2 DEF GoneAt, Older
  <2>3. CASE s # "link"
    <3>1. update'["link"] = update["link"] /\ chan'["link"] = chan["link"]
      BY <1>2, <1>a, <2>3, NotifyOthers
    <3> QED BY <1>b, <2>1, <3>1 DEF GoneAt, Quiet, LastWord, Held, Older
  <2> QED BY <2>2, <2>3
<1>3. ASSUME NEW w \in Writers, Enter(w) PROVE GoneAt(l)'
  <2>1. /\ update[w] # None /\ update'[w] = None /\ \A q \in Writers : q # w => update'[q] = update[q]
        /\ update[w].obj \in Objects /\ UNCHANGED <<kern, chan, raced>>
    BY <1>3, EnterEffect
  <2>2. kern[l] = None /\ GoneAt(l)
    BY <1>b, <2>1
  <2>3. CASE w = "link" /\ update[w].obj = l
    <3>1. ~LastWord("link", l)' /\ (Quiet("link", l)' => LastWord("link", l))
      BY <2>1, <2>3 DEF LastWord, Quiet, Held
    <3>2. ASSUME LastWord("link", l), NEW x \in Under(l), x \notin raced PROVE leaf'[x] = None
      <4>1. update[w].val = None
        BY <1>a, <2>2, <2>3, <3>2 DEF Words
      <4>2. Older(x, update[w].at)
        BY <2>2, <2>3, <3>2 DEF GoneAt
      <4> QED BY <1>3, <1>a, <2>3, <4>1, <4>2, EnterEffect
    <3> QED BY <2>1, <3>1, <3>2 DEF GoneAt
  <2>4. CASE ~(w = "link" /\ update[w].obj = l)
    <3>1. ASSUME NEW x \in Under(l), x \notin raced PROVE leaf'[x] = None \/ leaf'[x] = leaf[x]
      <4>1. SUFFICES ASSUME x = update[w].obj, update[w].val # None PROVE FALSE
        BY <1>3, <1>a, EnterEffect
      <4>2. w # "dump"
        BY <2>1, <2>2, <3>1, <4>1, Dead DEF Entry, Held
      <4>3. w \in Notified /\ x \in Table(w)
        BY <2>1, <4>1, <4>2, Six DEF TypeOK, UpdateOK
      <4>4. x = l
        BY <1>a, <4>3, UnderFacts
      <4> QED BY <1>a, <2>4, <4>1, <4>3, <4>4, TableFacts, Six
    <3>2. (Held("link", l)' <=> Held("link", l)) /\ (Held("link", l) => update'["link"] = update["link"])
      BY <1>a, <2>1, <2>4 DEF Held
    <3> QED BY <2>1, <2>2, <3>1, <3>2 DEF GoneAt, Quiet, LastWord, Older
  <2> QED BY <2>3, <2>4
<1>4. CASE Subscribe
  <2>1. PICK s \in Notified : /\ Head(todo) = Does("subscribe", s)
                              /\ \A q \in Notified : q # s => chan'[q] = chan[q]
    BY <1>4, SubscribeEffect
  <2>2. todo # <<>> /\ UNCHANGED <<kern, update, leaf, raced>>
    BY <1>4, SubscribeEffect
  <2>3. CASE s = "link"
    <3>1. In(todo, Does("subscribe", "link"))
      BY <2>1, <2>2, <2>3, TailSteps DEF TypeOK, Planned
    <3> QED BY <1>c, <2>2, <3>1 DEF GoneAt, Older
  <2>4. CASE s # "link"
    BY <1>a, <1>b, <2>1, <2>2, <2>4 DEF GoneAt, Quiet, LastWord, Held, Older
  <2> QED BY <2>3, <2>4
<1>5. ASSUME UNCHANGED <<kern, chan, leaf, raced>>, update'["link"] = update["link"] PROVE GoneAt(l)'
  BY <1>b, <1>5 DEF GoneAt, Quiet, LastWord, Held, Older
<1>6. CASE SubscribeFails \/ DumpFails \/ Dump \/ WriteDump \/ Poll
  BY <1>5, <1>6, <1>a, OtherWords
<1>7. CASE UNCHANGED <<kern, todo, subscribed, chan, list, update, leaf, clock, raced, unseen, failed>>
  BY <1>5, <1>7
<1> QED BY <1>1, <1>2, <1>3, <1>4, <1>6, <1>7, Cases

----------------------------------------------------------------------------
(* What is polled: as it was at the last poll that read it.                *)
Dying(l) ==
    \/ In(chan["link"], <<l, None>>)
    \/ Held("link", l) /\ update["link"].val = None

PolledAt(o) ==
    /\ \A e \in list : e[1] = o => e[2] = kern[o]
    /\ Held("dump", o) => update["dump"].val = kern[o]
    /\ kern[o] # None => Entry(o) \/ (leaf[o] # None /\ leaf[o].val = kern[o])
    /\ \A l \in Links : o \in Under(l) => ~Dying(l)

Polled ==
    \A s \in Sampled : \A o \in Table(s) :
        /\ Held("dump", o) => Older(o, update["dump"].at)
        /\ o \notin unseen => PolledAt(o)

LEMMA PolledNext == ASSUME TypeOK, Planned, Polled, [Next]_vars PROVE Polled'
<1> SUFFICES ASSUME NEW s \in Sampled, NEW o \in Table(s)
             PROVE  /\ Held("dump", o)' => Older(o, update["dump"].at)'
                    /\ o \notin unseen' => PolledAt(o)'
  BY DEF Polled
<1>a. /\ o \in Objects /\ \A t \in Notified : o \notin Table(t)
      /\ "link" \in Notified /\ "dump" \in Writers /\ "link" \in Writers /\ "link" # "dump"
      /\ \A l \in Links : l \in Objects /\ l \in Table("link")
  BY TableFacts, Six
<1>b. (Held("dump", o) => Older(o, update["dump"].at)) /\ (o \notin unseen => PolledAt(o))
  BY DEF Polled
<1>c. chan["link"] \in Seq(Table("link") \X Said)
  BY <1>a DEF TypeOK, ChanOK
<1>1. ASSUME NEW p \in Objects, NEW v \in Said, Change(p, v)
      PROVE  /\ Held("dump", o)' => Older(o, update["dump"].at)'
             /\ o \notin unseen' => PolledAt(o)'
  <2>1. UNCHANGED <<list, update, leaf>> /\ unseen' = unseen \union Touched(p, v)
        /\ kern'[o] = IF o \in Touched(p, v) THEN v ELSE kern[o]
    BY <1>1, <1>a, ChangeEffect
  <2>2. ASSUME o \notin unseen', NEW l \in Links, o \in Under(l), Dying(l)' PROVE FALSE
    <3>1. ~Dying(l) /\ o \notin Touched(p, v)
      BY <1>b, <2>1, <2>2 DEF PolledAt
    <3>2. ~Held("link", l)' \/ update'["link"].val # None
      BY <2>1, <3>1 DEF Dying, Held
    <3>3. In(chan'["link"], <<l, None>>) /\ ~In(chan["link"], <<l, None>>)
      BY <2>2, <3>1, <3>2 DEF Dying
    <3>4. chan'["link"] # chan["link"]
      BY <3>3
    <3>5. p \in Table("link") /\ chan'["link"] = Append(chan["link"], <<p, v>>)
      BY <1>1, <1>a, <3>4, ChangeEffect
    <3>6. PICK w, S, m : w = chan["link"] /\ S = Table("link") \X Said /\ m = <<p, v>>
      OBVIOUS
    <3>7. w \in Seq(S) /\ m \in S
      BY <1>c, <3>5, <3>6
    <3>8. \A x : In(Append(w, m), x) <=> In(w, x) \/ x = m
      BY <3>6, <3>7, WordAppend
    <3>9. p = l /\ v = None
      BY <3>3, <3>5, <3>6, <3>8
    <3> QED BY <1>1, <2>2, <3>1, <3>9, ChangeEffect
  <2> QED BY <1>b, <2>1, <2>2 DEF PolledAt, Held, Older, Entry
<1>2. ASSUME NEW t \in Notified, Notify(t)
      PROVE  /\ Held("dump", o)' => Older(o, update["dump"].at)'
             /\ o \notin unseen' => PolledAt(o)'
  <2>1. /\ UNCHANGED <<kern, list, leaf, unseen>> /\ update'["dump"] = update["dump"]
    BY <1>2, <1>a, NotifyOthers, Six
  <2>2. ASSUME NEW l \in Links, Dying(l)' PROVE Dying(l)
    <3>1. CASE t # "link"
      <4>1. update'["link"] = update["link"] /\ chan'["link"] = chan["link"]
        BY <1>2, <1>a, <3>1, NotifyOthers
      <4> QED BY <2>2, <4>1 DEF Dying, Held
    <3>2. CASE t = "link"
      <4>1. /\ chan["link"] # <<>> /\ chan'["link"] = Tail(chan["link"])
            /\ Head(chan["link"]) \in Table("link") \X Said /\ Head(chan["link"])[1] \in Objects
            /\ Stamp("link", Head(chan["link"])[1], Head(chan["link"])[2]) /\ leaf' = leaf
        BY <1>2, <3>2, NotifyEffect
      <4>2. update'["link"].obj = Head(chan["link"])[1] /\ update'["link"].val = Head(chan["link"])[2]
        BY <1>a, <4>1, StampEffect
      <4>3. PICK w, S : w = chan["link"] /\ S = Table("link") \X Said
        OBVIOUS
      <4>4. w \in Seq(S) /\ w # <<>>
        BY <1>c, <4>1, <4>3
      <4>5. In(w, Head(w)) /\ \A m : In(Tail(w), m) => In(w, m)
        BY <4>4, WordTail
      <4>6. Held("link", l)' /\ update'["link"].val = None => Head(w) = <<l, None>>
        BY <4>1, <4>2, <4>3 DEF Held
      <4> QED BY <2>2, <4>1, <4>3, <4>5, <4>6 DEF Dying
    <3> QED BY <3>1, <3>2
  <2> QED BY <1>b, <2>1, <2>2 DEF PolledAt, Held, Older, Entry
<1>3. ASSUME NEW w \in Writers, Enter(w)
      PROVE  /\ Held("dump", o)' => Older(o, update["dump"].at)'
             /\ o \notin unseen' => PolledAt(o)'
  <2>1. /\ update[w] # None /\ update'[w] = None /\ \A q \in Writers : q # w => update'[q] = update[q]
        /\ update[w].obj \in Objects /\ UNCHANGED <<kern, chan, list, unseen>>
    BY <1>3, EnterEffect
  <2>2. \A l : Dying(l)' => Dying(l)
    BY <1>a, <2>1 DEF Dying, Held
  <2>3. CASE w # "dump"
    <3>1. w \in Notified /\ update[w].obj \in Table(w) /\ o # update[w].obj
      BY <1>a, <2>1, <2>3, Six DEF TypeOK, UpdateOK
    <3>2. leaf'[o] = None \/ leaf'[o] = leaf[o]
      BY <1>3, <1>a, <3>1, EnterEffect
    <3>3. (Held("dump", o)' <=> Held("dump", o)) /\ update'["dump"] = update["dump"]
      BY <1>a, <2>1, <2>3 DEF Held
    <3>4. ASSUME o \notin unseen, leaf'[o] # leaf[o] PROVE FALSE
      <4>1. update[w].val = None /\ o \in Under(update[w].obj)
        BY <1>3, <1>a, <3>1, <3>4, EnterEffect
      <4>2. update[w].obj \in Links
        BY <2>1, <3>1, <4>1, UnderFacts
      <4>3. w = "link"
        BY <1>a, <3>1, <4>2, TableFacts, Six
      <4>4. Dying(update[w].obj)
        BY <2>1, <4>1, <4>3 DEF Dying, Held
      <4> QED BY <1>b, <3>4, <4>1, <4>2, <4>4 DEF PolledAt
    <3> QED BY <1>b, <2>1, <2>2, <3>2, <3>3, <3>4 DEF PolledAt, Older, Entry
  <2>4. CASE w = "dump"
    <3>1. ~Held("dump", o)' /\ update[w].val # None
      BY <2>1, <2>4, NoneFacts DEF Held, TypeOK, UpdateOK
    <3>2. CASE o = update[w].obj
      <4>1. Older(o, update[w].at)
        BY <1>b, <2>1, <2>4, <3>2 DEF Held
      <4>2. leaf'[o] # None /\ leaf'[o].val = update[w].val
        BY <1>3, <1>a, <3>1, <3>2, <4>1, EnterEffect
      <4> QED BY <1>b, <2>1, <2>2, <2>4, <3>1, <3>2, <4>2 DEF PolledAt, Held
    <3>3. CASE o # update[w].obj
      <4>1. leaf'[o] = leaf[o] /\ ~Held("dump", o)
        BY <1>3, <1>a, <2>4, <3>1, <3>3, EnterEffect DEF Held
      <4> QED BY <1>b, <2>1, <2>2, <3>1, <4>1 DEF PolledAt, Entry
    <3> QED BY <3>2, <3>3
  <2> QED BY <2>3, <2>4
<1>4. CASE Subscribe
  <2>1. PICK t \in Notified : /\ \A q \in Notified : q # t => chan'[q] = chan[q]
                              /\ t # "route" => chan'[t] = <<>>
    BY <1>4, SubscribeEffect
  <2>2. UNCHANGED <<kern, list, update, leaf, unseen>>
    BY <1>4, SubscribeEffect
  <2>3. \A l : Dying(l)' => Dying(l)
    <3>1. chan'["link"] = chan["link"] \/ chan'["link"] = <<>>
      BY <1>a, <2>1
    <3>2. \A m : ~In(<<>>, m)
      BY DEF In
    <3> QED BY <2>2, <3>1, <3>2 DEF Dying, Held
  <2> QED BY <1>b, <2>2, <2>3 DEF PolledAt, Held, Older, Entry
<1>5. CASE Dump
  <2>1. PICK t \in Tables : /\ \A x \in Table(t) : kern[x] # None => <<x, kern[x]>> \in list'
                            /\ unseen' = IF chan["link"] = <<>> /\ update["link"] = None
                                         THEN unseen \ Table(t) ELSE unseen
    BY <1>5, DumpEffect
  <2>2. /\ list = {} /\ update["dump"] = None /\ UNCHANGED <<kern, chan, update, leaf>>
        /\ \A e \in list' : e[2] = kern[e[1]]
    BY <1>5, DumpEffect
  <2>3. ~Held("dump", o) /\ ~Held("dump", o)' /\ ~Entry(o)
    BY <2>2 DEF Held, Entry
  <2>4. ASSUME o \notin unseen', o \in unseen PROVE PolledAt(o)'
    <3>1. chan["link"] = <<>> /\ update["link"] = None /\ o \in Table(t)
      BY <2>1, <2>4
    <3>2. \A l : ~Dying(l)'
      <4>1. \A m : ~In(<<>>, m)
        BY DEF In
      <4> QED BY <2>2, <3>1, <4>1 DEF Dying, Held
    <3>3. kern[o] # None => Entry(o)'
      <4>1. kern[o] # None => <<o, kern[o]>> \in list' /\ <<o, kern[o]>>[1] = o
        BY <2>1, <3>1
      <4> QED BY <4>1 DEF Entry
    <3> QED BY <2>2, <2>3, <3>2, <3>3 DEF PolledAt
  <2>5. ASSUME o \notin unseen', o \notin unseen PROVE PolledAt(o)'
    BY <1>b, <2>2, <2>3, <2>5 DEF PolledAt, Dying, Held
  <2> QED BY <2>3, <2>4, <2>5
<1>6. CASE WriteDump
  <2>1. UNCHANGED <<kern, chan, leaf, unseen>> /\ update'["link"] = update["link"]
    BY <1>6, <1>a, OtherWords
  <2>2. /\ Entry(o) <=> Entry(o)'
        /\ list' \subseteq list
        /\ Held("dump", o)' => /\ <<o, update'["dump"].val>> \in list
                               /\ update'["dump"].at = clock + 1 /\ Older(o, clock + 1)
    BY <1>6, <1>a, WriteEntry
  <2>3. \A l : Dying(l)' <=> Dying(l)
    BY <2>1 DEF Dying, Held
  <2>4. Held("dump", o)' => Older(o, update["dump"].at)'
    BY <2>1, <2>2 DEF Older
  <2>5. ASSUME o \notin unseen PROVE PolledAt(o)'
    BY <1>b, <2>1, <2>2, <2>3, <2>5 DEF PolledAt
  <2> QED BY <2>1, <2>4, <2>5
<1>7. ASSUME UNCHANGED <<kern, chan, list, update, leaf, unseen>>
      PROVE  /\ Held("dump", o)' => Older(o, update["dump"].at)'
             /\ o \notin unseen' => PolledAt(o)'
  BY <1>b, <1>7 DEF PolledAt, Held, Older, Entry, Dying
<1>8. CASE SubscribeFails \/ DumpFails \/ Poll
  <2>1. UNCHANGED <<kern, chan, list, update, leaf, unseen>>
    BY <1>8, FailEffects, PollEffect
  <2> QED BY <1>7, <2>1
<1>9. CASE UNCHANGED <<kern, todo, subscribed, chan, list, update, leaf, clock, raced, unseen, failed>>
  BY <1>7, <1>9
<1> QED BY <1>1, <1>2, <1>3, <1>4, <1>5, <1>6, <1>8, <1>9, Cases

----------------------------------------------------------------------------
(* Theorems                                                                *)
NetlinkInv ==
    TypeOK /\ Planned /\ Kept /\ Words /\ NotLost /\ Fresh /\ Current /\ Gone /\ Polled

\* What the netlink ingester keeps while it subscribes, dumps and polls: for
\* every object somebody is still to show what is missing or not current.
THEOREM NetlinkInvariant == Spec => []NetlinkInv
<1>1. Init => NetlinkInv
  <2> SUFFICES ASSUME Init PROVE NetlinkInv
    OBVIOUS
  <2>1. TypeOK
    <3>1. \A t : <<>> \in Seq(Table(t) \X Said) /\ <<>> \in Seq(Objects \X Said)
      OBVIOUS
    <3>2. chan \in [Notified -> Seq(Objects \X Said)] /\ ChanOK(chan)
      BY <3>1 DEF Init, ChanOK
    <3>3. update \in [Writers -> Update \union {None}] /\ UpdateOK(update)
          /\ \A w \in Writers : update[w] = None
      BY Six DEF Init, UpdateOK
    <3>4. kern \in [Objects -> Said] /\ leaf \in [Objects -> Shown \union {None}]
          /\ \A o \in Objects : leaf[o] = None
      BY DEF Init
    <3>5. todo \in Seq(Step) /\ clock \in Nat /\ subscribed = {} /\ list = {}
      BY PlannedSteps DEF Init
    <3> QED BY <3>2, <3>3, <3>4, <3>5 DEF TypeOK
  <2>2. /\ todo = RunSteps /\ subscribed = {} /\ list = {} /\ unseen = Objects
        /\ \A w \in Writers : update[w] = None
        /\ \A t \in Notified : chan[t] = <<>>
        /\ \A o \in Objects : leaf[o] = None
    BY DEF Init
  <2>3. /\ \A t \in Notified \union Sampled : Table(t) \subseteq Objects
        /\ \A w, o : w \in Writers => ~Held(w, o)
        /\ \A o, v : ~Names(<<>>, o) /\ Ends(<<>>, o, v)
    <3>1. \A o, v : ~Names(<<>>, o) /\ Ends(<<>>, o, v)
      BY DEF Names, Ends
    <3> QED BY <2>2, <3>1, TableFacts, Six DEF Held
  <2>4. Planned
    <3>1. \A t \in Notified : t = "route" \/ In(RunSteps, Does("dump", t))
      BY PlannedSteps DEF Notified
    <3> QED BY <2>2, <2>3, <3>1, PlannedSteps, Six DEF Planned, Unshown
  <2>5. Kept
    BY DEF Init, Kept
  <2>6. Words
    BY <2>2, <2>3, Six DEF Words, LastWord
  <2>7. NotLost
    BY <2>2, PlannedSteps DEF NotLost, Coming
  <2>8. Fresh
    BY <2>2, <2>3, Six DEF Fresh
  <2>9. Current
    BY <2>2, <2>3, Six DEF Current, CurrentAt, LastWord
  <2>10. Gone
    BY <2>2, <2>3, UnderFacts, Six DEF Gone, GoneAt, LastWord
  <2>11. Polled
    BY <2>2, <2>3, Six DEF Polled
  <2> QED BY <2>1, <2>4, <2>5, <2>6, <2>7, <2>8, <2>9, <2>10, <2>11 DEF NetlinkInv
<1>2. NetlinkInv /\ [Next]_vars => NetlinkInv'
  BY Types, PlannedNext, KeptNext, WordsNext, NotLostNext, FreshNext, CurrentNext, GoneNext, PolledNext
     DEF NetlinkInv
<1> QED BY <1>1, <1>2, PTL DEF Spec

\* netlink.go: what is sent, dumped and cached stays what its readers expect.
THEOREM NetlinkTypeCorrect == Spec => []TypeOK
<1>1. NetlinkInv => TypeOK
  BY DEF NetlinkInv
<1> QED BY <1>1, NetlinkInvariant, PTL

\* With everything handled nobody is left to show anything.
LEMMA SettledFacts ==
    ASSUME TypeOK, Settled, NEW t \in Tables, NEW o \in Table(t)
    PROVE  /\ o \in Objects /\ ~Entry(o)
           /\ t \in Notified => Quiet(t, o) /\ (Coming(t, o) => leaf[o] # None)
<1>1. o \in Objects
  BY TableFacts
<1>2. ~Entry(o)
  BY Six DEF Settled, Entry, Held
<1>3. \A s, x : ~In(<<>>, s) /\ ~Names(<<>>, x)
  BY DEF In, Names
<1> QED BY <1>1, <1>2, <1>3, Six DEF Settled, Quiet, Held, Coming

\* netlink.go, Run and snapshot: subscribing before dumping leaves no gap in
\* which a link, a MAC or a route could be missed.
THEOREM NothingMissedCorrect == Spec => []NothingMissed
<1>1. NetlinkInv => NothingMissed
  <2> SUFFICES ASSUME NetlinkInv, Settled, NEW t \in Notified \ failed, NEW o \in Table(t), kern[o] # None
               PROVE  leaf[o] # None
    BY DEF NothingMissed, Followed
  <2>1. Coming(t, o)
    BY DEF NetlinkInv, NotLost
  <2> QED BY <2>1, SettledFacts, Six DEF NetlinkInv
<1> QED BY <1>1, NetlinkInvariant, PTL

\* cache.go, Update, and netlink.go: whichever of the dump and the notification
\* enters the cache last, the leaves say what the kernel says.
THEOREM CurrentCorrect == Spec => []CurrentUnlessRaced
<1>1. NetlinkInv => CurrentUnlessRaced
  <2> SUFFICES ASSUME NetlinkInv, Settled, NEW t \in Notified \ failed, NEW o \in Table(t), o \notin raced
               PROVE  /\ kern[o] # None => leaf[o] # None /\ leaf[o].val = kern[o]
                      /\ kern[o] = None => \A x \in Under(o) \ raced : leaf[x] = None
    BY DEF CurrentUnlessRaced, Followed
  <2>1. o \in Objects /\ Quiet(t, o) /\ (Coming(t, o) => leaf[o] # None)
    BY SettledFacts, Six DEF NetlinkInv
  <2>2. leaf[o] # None => leaf[o].val = kern[o] /\ leaf[o].val # None
    BY <2>1, NoneFacts DEF NetlinkInv, Current, CurrentAt, TypeOK
  <2>3. kern[o] # None => leaf[o] # None
    BY <2>1 DEF NetlinkInv, NotLost
  <2>4. ASSUME kern[o] = None, NEW x \in Under(o), x \notin raced PROVE leaf[x] = None
    <3>1. CASE o \in Links
      <4>1. t = "link"
        BY <3>1, TableFacts, Six
      <4> QED BY <2>1, <2>4, <3>1, <4>1 DEF NetlinkInv, Gone, GoneAt
    <3>2. CASE o \notin Links
      <4>1. x = o
        BY <2>1, <2>4, <3>2, UnderFacts
      <4> QED BY <2>2, <2>4, <4>1
    <3> QED BY <3>1, <3>2
  <2> QED BY <2>2, <2>3, <2>4
<1> QED BY <1>1, NetlinkInvariant, PTL

\* netlink.go, counterLoop: what a poll read last is what is shown of counters,
\* labels and addresses, unless their link's removal is handled after it.
THEOREM PolledCorrect == Spec => []PolledIsShown
<1>1. NetlinkInv => PolledIsShown
  <2> SUFFICES ASSUME NetlinkInv, Settled,
                      NEW o \in (UNION {Table(t) : t \in Sampled}) \ unseen, kern[o] # None
               PROVE  leaf[o] # None /\ leaf[o].val = kern[o]
    BY Zenon DEF PolledIsShown
  <2> PICK s \in Sampled : o \in Table(s)
    OBVIOUS
  <2>1. PolledAt(o)
    BY DEF NetlinkInv, Polled
  <2>2. ~Entry(o)
    BY SettledFacts, Six DEF NetlinkInv
  <2> QED BY <2>1, <2>2 DEF PolledAt
<1> QED BY <1>1, NetlinkInvariant, PTL

=============================================================================
