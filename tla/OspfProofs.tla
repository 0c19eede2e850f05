------------------------------ MODULE OspfProofs ------------------------------
(***************************************************************************)
(* Theorems about the OSPF reconciler, for any routers, interfaces, socket *)
(* capacity and bounds.                                                    *)
(***************************************************************************)
EXTENDS OspfReconcile, TLAPS

\* Appending to and taking from a queue.
LEMMA AppendFacts ==
    ASSUME NEW S, NEW s \in Seq(S), NEW x \in S
    PROVE  /\ Append(s, x) \in Seq(S)
           /\ Len(Append(s, x)) = Len(s) + 1
           /\ Len(s) + 1 \in DOMAIN Append(s, x)
           /\ Append(s, x)[Len(s) + 1] = x
           /\ \A i \in DOMAIN s : i \in DOMAIN Append(s, x) /\ Append(s, x)[i] = s[i]
OBVIOUS

LEMMA TailFacts ==
    ASSUME NEW S, NEW s \in Seq(S), s # <<>>
    PROVE  /\ Tail(s) \in Seq(S)
           /\ Len(Tail(s)) = Len(s) - 1
           /\ Head(s) = s[1]
           /\ \A i \in DOMAIN s : i # 1 =>
                i - 1 \in DOMAIN Tail(s) /\ Tail(s)[i - 1] = s[i]
OBVIOUS

LEMMA LineFacts ==
    ASSUME sock \in Seq(Lines)
    PROVE  /\ Len(sock) + 1 \in DOMAIN Append(sock, "ospf")
           /\ Append(sock, "ospf")[Len(sock) + 1] = "ospf"
           /\ \A i \in DOMAIN sock : /\ i \in DOMAIN Append(sock, "other")
                                     /\ Append(sock, "other")[i] = sock[i]
<1>1. "ospf" \in Lines /\ "other" \in Lines
  BY DEF Lines
<1> QED
  BY <1>1, AppendFacts

\* Taking one from an allowance leaves the allowances naturals.
LEMMA SpendType ==
    ASSUME budget \in [Bounds -> Nat], NEW b \in Bounds, Spend(b)
    PROVE  budget' \in [Bounds -> Nat]
BY DEF Spend

\* adjState covers every state ospfd can report.
LEMMA ShownType ==
    ASSUME NEW s \in FrrStates \union {Absent}
    PROVE  Shown(s) \in AdjStates \union {Absent}
BY DEF Shown, adjState, AdjStates

\* What parseOSPFNbrs returns is a table.
LEMMA ParsesType ==
    ASSUME TypeOK, NEW table \in Parses(nbr)
    PROVE  table \in NbrTables
<1>1. PICK f \in [Rids -> Ifaces] :
        table = [p \in Pairs |-> IF f[p[1]] = p[2] THEN Shown(nbr[p]) ELSE Absent]
  BY DEF Parses
<1>2. \A p \in Pairs : Shown(nbr[p]) \in AdjStates \union {Absent}
  BY ShownType DEF TypeOK, SyslogTypeOK
<1> QED
  BY <1>1, <1>2 DEF NbrTables

\* The interface and the state a table gives a router.
LEMMA IfaceInType ==
    ASSUME NEW table \in NbrTables, NEW r \in Rids
    PROVE  /\ IfaceIn(table, r) \in Ifaces \union {Absent}
           /\ StateIn(table, r) \in AdjStates \union {Absent}
           /\ IfaceIn(table, r) # Absent => /\ IfaceIn(table, r) \in Ifaces
                                            /\ table[<<r, IfaceIn(table, r)>>] # Absent
           /\ IfaceIn(table, r) = Absent => \A i \in Ifaces : table[<<r, i>>] = Absent
<1>1. CASE \E i \in Ifaces : table[<<r, i>>] # Absent
  <2>1. /\ IfaceIn(table, r) \in Ifaces
        /\ table[<<r, IfaceIn(table, r)>>] # Absent
    BY <1>1 DEF IfaceIn
  <2>2. IfaceIn(table, r) # Absent
    BY <2>1, AbsentAssumption
  <2>3. StateIn(table, r) \in AdjStates \union {Absent}
    BY <2>1, <2>2 DEF StateIn, NbrTables, Pairs
  <2> QED
    BY <2>1, <2>2, <2>3
<1>2. CASE ~\E i \in Ifaces : table[<<r, i>>] # Absent
  BY <1>2 DEF IfaceIn, StateIn
<1> QED
  BY <1>1, <1>2

LEMMA AnsweredType ==
    ASSUME WorkerTypeOK, CacheTypeOK, NEW table \in NbrTables, Answered(table)
    PROVE  WorkerTypeOK' /\ CacheTypeOK'
BY DEF Answered, WorkerTypeOK, CacheTypeOK

\* Type correctness of the reconciler.
THEOREM TypeCorrect == Spec => []TypeOK
<1>1. Init => TypeOK
  <2> SUFFICES ASSUME Init
               PROVE  TypeOK
    OBVIOUS
  <2>1. budget \in [Bounds -> Nat]
    BY OspfAssumption DEF Init
  <2>2. sock \in Seq(Lines) /\ Len(sock) <= SockCap
    BY OspfAssumption DEF Init
  <2>3. SyslogTypeOK
    BY <2>1, <2>2 DEF Init, SyslogTypeOK
  <2>4. WorkerTypeOK
    BY DEF Init, WorkerTypeOK
  <2>5. CacheTypeOK
    BY DEF Init, CacheTypeOK, NbrTables, Nothing
  <2> QED
    BY <2>3, <2>4, <2>5 DEF TypeOK
<1>2. TypeOK /\ [Next]_vars => TypeOK'
  <2> SUFFICES ASSUME TypeOK, [Next]_vars
               PROVE  TypeOK'
    OBVIOUS
  <2>0. SyslogTypeOK /\ WorkerTypeOK /\ CacheTypeOK
    BY DEF TypeOK
  <2>a. UNCHANGED cacheVars => CacheTypeOK'
    BY <2>0 DEF cacheVars, CacheTypeOK
  <2>b. UNCHANGED <<trigger, workVars, owed>> => WorkerTypeOK'
    BY <2>0 DEF workVars, WorkerTypeOK
  <2>c. UNCHANGED <<envVars, sock, bound, budget>> => SyslogTypeOK'
    BY <2>0 DEF envVars, SyslogTypeOK
  <2>d. /\ "changes" \in Bounds /\ "lost" \in Bounds /\ "faults" \in Bounds
        /\ "ospf" \in Lines /\ "other" \in Lines
    BY DEF Bounds, Lines
  <2>1. ASSUME NEW p \in Wired, NEW state \in FrrStates \union {Absent}, Change(p, state)
        PROVE  TypeOK'
    <3>1. budget' \in [Bounds -> Nat]
      BY <2>1, <2>0, <2>d, SpendType DEF Change, SyslogTypeOK
    <3>2. nbr' \in [Pairs -> FrrStates \union {Absent}]
      BY <2>1, <2>0 DEF Change, SyslogTypeOK
    <3>3. SyslogTypeOK'
      BY <2>1, <2>0, <3>1, <3>2 DEF Change, SyslogTypeOK
    <3> QED
      BY <2>1, <2>a, <2>b, <3>3 DEF Change, TypeOK
  <2>2. CASE LogLine
    <3>1. sock' \in Seq(Lines) /\ Len(sock') <= SockCap
      BY <2>2, <2>0, <2>d, AppendFacts, OspfAssumption DEF LogLine, SyslogTypeOK
    <3>2. SyslogTypeOK'
      BY <2>2, <2>0, <3>1 DEF LogLine, SyslogTypeOK
    <3>3. WorkerTypeOK'
      BY <2>2, <2>0 DEF LogLine, workVars, WorkerTypeOK
    <3> QED
      BY <2>2, <2>a, <3>2, <3>3 DEF LogLine, TypeOK
  <2>u. CASE Unheard
    <3>1. SyslogTypeOK'
      BY <2>u, <2>0 DEF Unheard, SyslogTypeOK
    <3> QED
      BY <2>u, <2>a, <2>b, <3>1 DEF Unheard, TypeOK
  <2>3. CASE LoseLine
    <3>1. budget' \in [Bounds -> Nat]
      BY <2>3, <2>0, <2>d, SpendType DEF LoseLine, SyslogTypeOK
    <3>2. SyslogTypeOK'
      BY <2>3, <2>0, <3>1 DEF LoseLine, SyslogTypeOK
    <3> QED
      BY <2>3, <2>a, <2>b, <3>2 DEF LoseLine, TypeOK
  <2>4. CASE Restart
    <3>1. budget' \in [Bounds -> Nat]
      BY <2>4, <2>0, <2>d, SpendType DEF Restart, SyslogTypeOK
    <3>2. SyslogTypeOK'
      BY <2>4, <2>0, <3>1 DEF Restart, SyslogTypeOK, Nothing
    <3> QED
      BY <2>4, <2>a, <2>b, <3>2 DEF Restart, TypeOK
  <2>5. CASE OtherLine
    <3>1. sock' \in Seq(Lines) /\ Len(sock') <= SockCap
      BY <2>5, <2>0, <2>d, AppendFacts, OspfAssumption DEF OtherLine, SyslogTypeOK
    <3>2. SyslogTypeOK'
      BY <2>5, <2>0, <3>1 DEF OtherLine, SyslogTypeOK, envVars
    <3> QED
      BY <2>5, <2>a, <2>b, <3>2 DEF OtherLine, TypeOK
  <2>6. CASE Kick
    <3>1. WorkerTypeOK'
      BY <2>6, <2>0 DEF Kick, Signal, workVars, WorkerTypeOK
    <3> QED
      BY <2>6, <2>a, <2>c, <3>1 DEF Kick, TypeOK
  <2>7. CASE Bind
    <3>1. SyslogTypeOK'
      BY <2>7, <2>0 DEF Bind, SyslogTypeOK, envVars
    <3> QED
      BY <2>7, <2>a, <2>b, <3>1 DEF Bind, TypeOK
  <2>8. CASE Drain
    <3>1. sock' \in Seq(Lines) /\ Len(sock') <= SockCap
      BY <2>8, <2>0, TailFacts, OspfAssumption DEF Drain, SyslogTypeOK
    <3>2. trigger' \in BOOLEAN
      BY <2>8, <2>0 DEF Drain, Signal, WorkerTypeOK
    <3>3. SyslogTypeOK'
      BY <2>8, <2>0, <3>1 DEF Drain, SyslogTypeOK, envVars
    <3>4. WorkerTypeOK'
      BY <2>8, <2>0, <3>2 DEF Drain, workVars, WorkerTypeOK
    <3> QED
      BY <2>8, <2>a, <3>3, <3>4 DEF Drain, TypeOK
  <2>9. CASE TickerFires
    <3>1. WorkerTypeOK'
      BY <2>9, <2>0 DEF TickerFires, Signal, workVars, WorkerTypeOK
    <3> QED
      BY <2>9, <2>a, <2>c, <3>1 DEF TickerFires, TypeOK
  <2>10. CASE Wake
    <3>1. WorkerTypeOK'
      BY <2>10, <2>0 DEF Wake, WorkerTypeOK
    <3> QED
      BY <2>10, <2>a, <2>c, <3>1 DEF Wake, TypeOK
  <2>11. CASE Slept
    <3>1. WorkerTypeOK'
      BY <2>11, <2>0 DEF Slept, WorkerTypeOK
    <3> QED
      BY <2>11, <2>a, <2>c, <3>1 DEF Slept, TypeOK
  <2>12. CASE Ask
    <3>1. PICK table \in NbrTables : Answered(table)
      BY <2>12, ParsesType DEF Ask
    <3> QED
      BY <2>12, <2>0, <2>c, <3>1, AnsweredType DEF Ask, Answered, TypeOK
  <2>13. CASE AskGarbled
    <3>1. Nothing \in NbrTables
      BY DEF Nothing, NbrTables
    <3>2. budget' \in [Bounds -> Nat]
      BY <2>13, <2>0, <2>d, SpendType DEF AskGarbled, SyslogTypeOK
    <3>3. SyslogTypeOK'
      BY <2>13, <2>0, <3>2 DEF AskGarbled, Answered, SyslogTypeOK, envVars
    <3> QED
      BY <2>13, <2>0, <3>1, <3>3, AnsweredType DEF AskGarbled, TypeOK
  <2>14. CASE AskFails
    <3>1. budget' \in [Bounds -> Nat]
      BY <2>14, <2>0, <2>d, SpendType DEF AskFails, SyslogTypeOK
    <3>2. SyslogTypeOK'
      BY <2>14, <2>0, <3>1 DEF AskFails, SyslogTypeOK, envVars
    <3>3. WorkerTypeOK'
      BY <2>14, <2>0 DEF AskFails, WorkerTypeOK
    <3> QED
      BY <2>14, <2>a, <3>2, <3>3 DEF AskFails, TypeOK
  <2>15. ASSUME NEW r \in Rids, Write(r)
         PROVE  TypeOK'
    <3>1. cur \in NbrTables /\ IfaceIn(cur, r) \in Ifaces
      BY <2>15, <2>0, IfaceInType DEF Write, WorkerTypeOK
    <3>2. StateIn(cur, r) \in AdjStates \union {Absent}
      BY <3>1, IfaceInType
    <3>3. cache' \in NbrTables
      BY <2>15, <2>0, <3>2 DEF Write, Written, CacheTypeOK, NbrTables
    <3>4. st' \in [Rids -> AdjStates \union {Absent}]
      BY <2>15, <2>0, <3>2 DEF Write, CacheTypeOK
    <3>5. alarms' \in SUBSET Rids
      BY <2>15, <2>0 DEF Write, CacheTypeOK
    <3>6. CacheTypeOK'
      BY <2>15, <2>0, <3>3, <3>4, <3>5 DEF Write, CacheTypeOK
    <3>7. WorkerTypeOK'
      BY <2>15, <2>0 DEF Write, WorkerTypeOK
    <3> QED
      BY <2>15, <2>c, <3>6, <3>7 DEF Write, TypeOK
  <2>17. ASSUME NEW r \in Rids, Drop(r)
         PROVE  TypeOK'
    <3>1. cache' \in NbrTables
      BY <2>17, <2>0 DEF Drop, Dropped, CacheTypeOK, NbrTables
    <3>2. st' \in [Rids -> AdjStates \union {Absent}]
      BY <2>17, <2>0 DEF Drop, Forgotten, CacheTypeOK
    <3>3. alarms' \in SUBSET Rids
      BY <2>17, <2>0 DEF Drop, CacheTypeOK
    <3>4. CacheTypeOK'
      BY <2>17, <2>0, <3>1, <3>2, <3>3 DEF Drop, CacheTypeOK
    <3>5. WorkerTypeOK'
      BY <2>17, <2>0 DEF Drop, WorkerTypeOK
    <3> QED
      BY <2>17, <2>c, <3>4, <3>5 DEF Drop, TypeOK
  <2>18. CASE Finish
    <3>1. cur \in NbrTables
      BY <2>18, <2>0 DEF Finish, WorkerTypeOK
    <3>2. seen' \in [Rids -> Ifaces \union {Absent}]
      BY <2>18, <3>1, IfaceInType DEF Finish
    <3>3. CacheTypeOK'
      BY <2>18, <2>0, <3>2 DEF Finish, CacheTypeOK
    <3>4. WorkerTypeOK'
      BY <2>18, <2>0 DEF Finish, WorkerTypeOK
    <3> QED
      BY <2>18, <2>c, <3>3, <3>4 DEF Finish, TypeOK
  <2>16. CASE UNCHANGED vars
    BY <2>16, <2>a, <2>b, <2>c DEF vars, TypeOK
  <2> QED
    BY <2>1, <2>2, <2>u, <2>3, <2>4, <2>5, <2>6, <2>7, <2>8, <2>9, <2>10, <2>11, <2>12,
       <2>13, <2>14, <2>15, <2>16, <2>17, <2>18 DEF Next, Frr, Shim, Apply
<1> QED
  BY <1>1, <1>2, PTL DEF Spec

-------------------------------------------------------------------------------
\* A read table is applied before anything else is waited for.
Answering == /\ cur # NoAnswer => phase = "applying"
             /\ left # {} => cur # NoAnswer

LEMMA WakeupInvariant == Spec => [](Answering /\ WakeupPending)
<1>1. Init => Answering /\ WakeupPending
  BY DEF Init, Answering, WakeupPending
<1>2. TypeOK /\ Answering /\ WakeupPending /\ [Next]_vars => (Answering /\ WakeupPending)'
  <2> SUFFICES ASSUME TypeOK, Answering, WakeupPending, [Next]_vars
               PROVE  Answering' /\ WakeupPending'
    OBVIOUS
  <2> USE DEF Answering, WakeupPending
  <2>0. sock \in Seq(Lines)
    BY DEF TypeOK, SyslogTypeOK
  <2>1. ASSUME NEW p \in Wired, NEW state \in FrrStates \union {Absent}, Change(p, state)
        PROVE  Answering' /\ WakeupPending'
    BY <2>1 DEF Change, workVars
  <2>2. CASE LogLine
    <3>1. sock'[Len(sock) + 1] = "ospf" /\ Len(sock) + 1 \in DOMAIN sock'
      <4>1. sock' = Append(sock, "ospf")
        BY <2>2 DEF LogLine, workVars
      <4>2. Append(sock, "ospf")[Len(sock) + 1] = "ospf" /\ Len(sock) + 1 \in DOMAIN Append(sock, "ospf")
        BY <2>0, LineFacts
      <4> QED
        BY <4>1, <4>2
    <3> QED
      BY <2>2, <3>1 DEF LogLine, workVars
  <2>u. CASE Unheard
    BY <2>u DEF Unheard, workVars
  <2>3. CASE LoseLine
    BY <2>3 DEF LoseLine, workVars
  <2>4. CASE Restart
    BY <2>4 DEF Restart, workVars
  <2>5. CASE OtherLine
    <3>1. \A i \in DOMAIN sock : i \in DOMAIN sock' /\ sock'[i] = sock[i]
      <4>1. sock' = Append(sock, "other")
        BY <2>5 DEF OtherLine, workVars
      <4>2. \A i \in DOMAIN sock : i \in DOMAIN Append(sock, "other") /\ Append(sock, "other")[i] = sock[i]
        BY <2>0, LineFacts
      <4> QED
        BY <4>1, <4>2
    <3> QED
      BY <2>5, <3>1 DEF OtherLine, workVars
  <2>6. CASE Kick
    BY <2>6 DEF Kick, Signal, workVars
  <2>7. CASE Bind
    BY <2>7 DEF Bind, workVars
  <2>8. CASE Drain
    <3>1. CASE Head(sock) = "ospf"
      BY <2>8, <3>1 DEF Drain, Signal, workVars
    <3>2. CASE Head(sock) # "ospf"
      <4>1. \A i \in DOMAIN sock : sock[i] = "ospf" =>
                i - 1 \in DOMAIN sock' /\ sock'[i - 1] = "ospf"
        BY <2>8, <2>0, <3>2, TailFacts DEF Drain
      <4> QED
        BY <2>8, <4>1 DEF Drain, Signal, workVars
    <3> QED
      BY <3>1, <3>2
  <2>9. CASE TickerFires
    BY <2>9 DEF TickerFires, Signal, workVars
  <2>10. CASE Wake
    BY <2>10 DEF Wake
  <2>11. CASE Slept
    BY <2>11 DEF Slept
  <2>12. CASE Ask
    <3>1. PICK table \in NbrTables : Answered(table)
      BY <2>12, ParsesType DEF Ask
    <3> QED
      BY <3>1, AbsentAssumption DEF Answered
  <2>13. CASE AskGarbled
    <3>1. Nothing \in NbrTables
      BY DEF Nothing, NbrTables
    <3> QED
      BY <2>13, <3>1, AbsentAssumption DEF AskGarbled, Answered
  <2>14. CASE AskFails
    BY <2>14 DEF AskFails
  <2>15. ASSUME NEW r \in Rids, Write(r) \/ Drop(r)
         PROVE  Answering' /\ WakeupPending'
    BY <2>15 DEF Write, Drop
  <2>17. CASE Finish
    BY <2>17 DEF Finish
  <2>16. CASE UNCHANGED vars
    BY <2>16 DEF vars, workVars
  <2> QED
    BY <2>1, <2>2, <2>u, <2>3, <2>4, <2>5, <2>6, <2>7, <2>8, <2>9, <2>10, <2>11, <2>12,
       <2>13, <2>14, <2>15, <2>16, <2>17 DEF Next, Frr, Shim, Apply
<1> QED
  BY <1>1, <1>2, TypeCorrect, PTL DEF Spec

\* No wakeup is lost between the socket, the trigger and the worker's sleep.
THEOREM WakeupNotLost == Spec => []WakeupPending
BY WakeupInvariant, PTL

-------------------------------------------------------------------------------
\* What the bookkeeping by router id needs of the network: a router id can only
\* ever be adjacent on one interface.
OneHome == \A r \in Rids, i, j \in Ifaces :
              <<r, i>> \in Wired /\ <<r, j>> \in Wired => i = j

AtHome(table) == \A p \in Pairs : table[p] # Absent => p \in Wired

NbrHome == AtHome(nbr)
CurHome == cur # NoAnswer => AtHome(cur)
SeenHome == \A r \in Rids : seen[r] # Absent => <<r, seen[r]>> \in Wired

\* The records of a neighbour that the reconcile has still to come to agree ...
Before(r) ==
    /\ \A i \in Ifaces : cache[<<r, i>>] = IF seen[r] = i THEN st[r] ELSE Absent
    /\ seen[r] = Absent <=> st[r] = Absent

\* ... and those of one it has dealt with hold what vtysh answered.
After(r) ==
    /\ \A i \in Ifaces : cache[<<r, i>>] = cur[<<r, i>>]
    /\ st[r] = StateIn(cur, r)

Records == \A r \in Rids : IF cur # NoAnswer /\ r \notin left THEN After(r) ELSE Before(r)

\* No event has been emitted yet for a neighbour the reconcile has to come to.
Unspoken == \A r \in left : r \notin alarms

Home == NbrHome /\ CurHome /\ SeenHome /\ Records /\ Unspoken

\* With one home per router, parseOSPFNbrs keeps the whole table.
LEMMA ParsesWhole ==
    ASSUME OneHome, TypeOK, NbrHome, NEW table \in Parses(nbr)
    PROVE  table = [p \in Pairs |-> Shown(nbr[p])]
<1>1. PICK f \in [Rids -> Ifaces] :
        /\ \A r \in Rids : (\E i \in Ifaces : nbr[<<r, i>>] # Absent)
                              => nbr[<<r, f[r]>>] # Absent
        /\ table = [p \in Pairs |-> IF f[p[1]] = p[2] THEN Shown(nbr[p]) ELSE Absent]
  BY DEF Parses
<1>2. ASSUME NEW r \in Rids, NEW i \in Ifaces, f[r] # i
      PROVE  nbr[<<r, i>>] = Absent
  <2>1. SUFFICES ASSUME nbr[<<r, i>>] # Absent PROVE FALSE
    OBVIOUS
  <2>2. f[r] \in Ifaces /\ nbr[<<r, f[r]>>] # Absent
    BY <1>1, <2>1
  <2>3. <<r, i>> \in Wired /\ <<r, f[r]>> \in Wired
    BY <2>1, <2>2 DEF NbrHome, AtHome, Pairs
  <2> QED
    BY <1>2, <2>2, <2>3 DEF OneHome
<1>3. \A p \in Pairs : f[p[1]] # p[2] => nbr[p] = Absent
  BY <1>2 DEF Pairs
<1>4. \A p \in Pairs : f[p[1]] # p[2] => Shown(nbr[p]) = Absent
  BY <1>3 DEF Shown
<1> QED
  BY <1>1, <1>4

\* With one home per router, a table has no other entry of a router than the one
\* that parseOSPFNbrs would keep.
LEMMA OneEntry ==
    ASSUME OneHome, NEW table \in NbrTables, AtHome(table), NEW r \in Rids
    PROVE  \A i \in Ifaces :
             table[<<r, i>>] = IF IfaceIn(table, r) = i THEN StateIn(table, r) ELSE Absent
<1> TAKE i \in Ifaces
<1>1. CASE IfaceIn(table, r) = Absent
  <2>1. table[<<r, i>>] = Absent
    BY <1>1, IfaceInType
  <2> QED
    BY <1>1, <2>1, AbsentAssumption
<1>2. CASE IfaceIn(table, r) # Absent
  <2>1. /\ IfaceIn(table, r) \in Ifaces
        /\ table[<<r, IfaceIn(table, r)>>] # Absent
        /\ StateIn(table, r) = table[<<r, IfaceIn(table, r)>>]
    BY <1>2, IfaceInType DEF StateIn
  <2>2. table[<<r, i>>] # Absent => i = IfaceIn(table, r)
    BY <2>1 DEF AtHome, OneHome, Pairs
  <2> QED
    BY <2>1, <2>2
<1> QED
  BY <1>1, <1>2

LEMMA StateInType ==
    ASSUME NEW table \in NbrTables, NEW r \in Rids
    PROVE  IfaceIn(table, r) # Absent <=> StateIn(table, r) # Absent
BY IfaceInType DEF StateIn

\* The loops touch the records of the neighbour they come to, and no other's.
LEMMA OthersStay ==
    ASSUME TypeOK, NEW r \in Rids, Write(r) \/ Drop(r), NEW q \in Rids, q # r
    PROVE  /\ \A i \in Ifaces : cache'[<<q, i>>] = cache[<<q, i>>]
           /\ st'[q] = st[q] /\ seen'[q] = seen[q] /\ cur' = cur
           /\ q \in left' <=> q \in left
           /\ q \in alarms' <=> q \in alarms
<1>1. cache \in [Pairs -> AdjStates \union {Absent}] /\ st \in [Rids -> AdjStates \union {Absent}]
  BY DEF TypeOK, CacheTypeOK, NbrTables
<1>2. ASSUME NEW i \in Ifaces PROVE cache'[<<q, i>>] = cache[<<q, i>>]
  <2>1. <<q, i>> \in Pairs /\ <<q, i>> # <<r, IfaceIn(cur, r)>> /\ <<q, i>> # <<r, seen[r]>>
    BY DEF Pairs
  <2> QED
    BY <1>1, <2>1 DEF Write, Drop, Written, Dropped
<1> QED
  BY <1>1, <1>2 DEF Write, Drop, Forgotten

\* The loop over the answer brings a neighbour's records to it, and emits an
\* event exactly if that changes what the cache showed.
LEMMA WriteEffect ==
    ASSUME OneHome, TypeOK, Home, NEW r \in Rids, Write(r)
    PROVE  /\ After(r)'
           /\ r \in alarms' \ alarms <=> VisiblyChanges(r)
           /\ \E i \in Ifaces : cache' = [cache EXCEPT ![<<r, i>>] = cur[<<r, i>>]]
<1>1. /\ cur \in NbrTables /\ cur # NoAnswer /\ cur' = cur /\ seen' = seen
      /\ r \in left /\ IfaceIn(cur, r) # Absent /\ AtHome(cur)
      /\ cache \in [Pairs -> AdjStates \union {Absent}] /\ st \in [Rids -> AdjStates \union {Absent}]
      /\ seen[r] \in Ifaces \union {Absent}
  BY DEF Write, TypeOK, WorkerTypeOK, CacheTypeOK, NbrTables, Home, CurHome
<1>2. PICK i \in Ifaces : IfaceIn(cur, r) = i
  BY <1>1, IfaceInType
<1>3. PICK s \in AdjStates \union {Absent} : StateIn(cur, r) = s /\ s # Absent
  BY <1>1, IfaceInType, StateInType
<1>4. \A j \in Ifaces : cur[<<r, j>>] = IF i = j THEN s ELSE Absent
  BY <1>1, <1>2, <1>3, OneEntry
<1>5. <<r, i>> \in Pairs /\ <<r, i>> \in Wired
  <2>1. <<r, i>> \in Pairs /\ cur[<<r, i>>] # Absent
    BY <1>3, <1>4 DEF Pairs
  <2> QED
    BY <1>1, <2>1 DEF AtHome
<1>6. /\ \A j \in Ifaces : cache[<<r, j>>] = IF seen[r] = j THEN st[r] ELSE Absent
      /\ seen[r] = Absent <=> st[r] = Absent
  BY <1>1 DEF Home, Records, Before
<1>7. seen[r] # Absent => seen[r] = i
  BY <1>1, <1>5 DEF Home, SeenHome, OneHome
<1>8. \A j \in Ifaces : cache[<<r, j>>] = IF i = j THEN st[r] ELSE Absent
  BY <1>6, <1>7, AbsentAssumption
<1>9. /\ cache' = [cache EXCEPT ![<<r, i>>] = s]
      /\ st' = [st EXCEPT ![r] = s]
      /\ alarms' = IF st[r] # Absent /\ st[r] # s THEN alarms \union {r} ELSE alarms
  BY <1>2, <1>3 DEF Write, Written
<1>10. \A j \in Ifaces : cache'[<<r, j>>] = IF i = j THEN s ELSE Absent
  <2> TAKE j \in Ifaces
  <2>1. <<r, j>> \in Pairs /\ (j # i => <<r, j>> # <<r, i>>)
    BY DEF Pairs
  <2> QED
    BY <1>1, <1>5, <1>8, <1>9, <2>1
<1>11. st'[r] = s
  BY <1>1, <1>9
<1>12. After(r)'
  <2>1. StateIn(cur', r) = s
    BY <1>1, <1>3
  <2> QED
    BY <1>1, <1>4, <1>10, <1>11, <2>1 DEF After
<1>13. VisiblyChanges(r) <=> st[r] # Absent /\ st[r] # s
  BY <1>8, <1>10 DEF VisiblyChanges
<1>14. r \notin alarms
  BY <1>1 DEF Home, Unspoken
<1> QED
  BY <1>4, <1>9, <1>12, <1>13, <1>14

LEMMA DropEffect ==
    ASSUME OneHome, TypeOK, Home, NEW r \in Rids, Drop(r)
    PROVE  /\ After(r)'
           /\ r \in alarms' \ alarms <=> VisiblyChanges(r)
           /\ \E i \in Ifaces : cache' = [cache EXCEPT ![<<r, i>>] = cur[<<r, i>>]]
<1>1. /\ cur \in NbrTables /\ cur # NoAnswer /\ cur' = cur
      /\ r \in left /\ IfaceIn(cur, r) = Absent /\ seen[r] # Absent
      /\ cache \in [Pairs -> AdjStates \union {Absent}] /\ st \in [Rids -> AdjStates \union {Absent}]
      /\ seen[r] \in Ifaces \union {Absent}
  BY DEF Drop, Gone, TypeOK, WorkerTypeOK, CacheTypeOK, NbrTables
<1>2. PICK i \in Ifaces : seen[r] = i
  BY <1>1
<1>3. \A j \in Ifaces : cur[<<r, j>>] = Absent
  BY <1>1, IfaceInType
<1>4. StateIn(cur, r) = Absent
  BY <1>1 DEF StateIn
<1>5. /\ \A j \in Ifaces : cache[<<r, j>>] = IF i = j THEN st[r] ELSE Absent
      /\ st[r] # Absent
  BY <1>1, <1>2 DEF Home, Records, Before
<1>6. /\ cache' = [cache EXCEPT ![<<r, i>>] = Absent]
      /\ st' = [st EXCEPT ![r] = Absent]
      /\ alarms' = alarms \union {r}
  BY <1>2 DEF Drop, Dropped, Forgotten
<1>7. \A j \in Ifaces : cache'[<<r, j>>] = Absent
  <2> TAKE j \in Ifaces
  <2>1. <<r, j>> \in Pairs /\ <<r, i>> \in Pairs /\ (j # i => <<r, j>> # <<r, i>>)
    BY DEF Pairs
  <2> QED
    BY <1>1, <1>5, <1>6, <2>1
<1>8. After(r)'
  <2>1. StateIn(cur', r) = Absent /\ st'[r] = Absent
    BY <1>1, <1>4, <1>6
  <2> QED
    BY <1>1, <1>3, <1>7, <2>1 DEF After
<1>9. VisiblyChanges(r)
  BY <1>5, <1>7 DEF VisiblyChanges
<1>10. r \notin alarms
  BY <1>1 DEF Home, Unspoken
<1> QED
  BY <1>3, <1>6, <1>8, <1>9, <1>10

\* What vtysh shows is a table of the network; what does not parse is a blank one.
LEMMA AnswerIsSample ==
    ASSUME OneHome, TypeOK, Home, Ask \/ AskGarbled
    PROVE  \E table \in NbrTables :
             /\ Answered(table) /\ AtHome(table)
             /\ table \in {[p \in Pairs |-> Shown(nbr[p])], Nothing}
<1>1. CASE Ask
  <2>1. PICK table \in Parses(nbr) : Answered(table)
    BY <1>1 DEF Ask
  <2>2. table \in NbrTables /\ table = [p \in Pairs |-> Shown(nbr[p])]
    BY ParsesType, ParsesWhole DEF Home
  <2>3. AtHome(table)
    BY <2>2 DEF Home, NbrHome, AtHome, Shown
  <2> QED
    BY <2>1, <2>2, <2>3
<1>2. CASE AskGarbled
  <2>1. Nothing \in NbrTables /\ AtHome(Nothing)
    BY DEF Nothing, NbrTables, AtHome
  <2> QED
    BY <1>2, <2>1 DEF AskGarbled
<1> QED
  BY <1>1, <1>2

\* Home is inductive.
LEMMA HomeInductive ==
    ASSUME OneHome, TypeOK, Answering, Home, [Next]_vars
    PROVE  Home'
<1>0. /\ nbr \in [Pairs -> FrrStates \union {Absent}]
      /\ cur \in NbrTables \union {NoAnswer}
  BY DEF TypeOK, SyslogTypeOK, WorkerTypeOK
<1>1. ASSUME UNCHANGED <<cur, left, cacheVars>>
      PROVE  (CurHome /\ SeenHome /\ Records /\ Unspoken)'
  BY <1>1 DEF Home, CurHome, SeenHome, Records, Before, After, Unspoken, cacheVars
<1>2. UNCHANGED nbr => NbrHome'
  BY DEF Home, NbrHome
<1>4. ASSUME NEW p \in Wired, NEW state \in FrrStates \union {Absent}, Change(p, state)
      PROVE  Home'
  <2>1. NbrHome'
    BY <1>0, <1>4 DEF Change, Home, NbrHome, AtHome
  <2> QED
    BY <1>1, <1>4, <2>1 DEF Change, workVars, Home
<1>5. CASE Restart
  <2>1. NbrHome'
    BY <1>5 DEF Restart, Nothing, NbrHome, AtHome
  <2> QED
    BY <1>1, <1>5, <2>1 DEF Restart, workVars, Home
<1>6. CASE Ask \/ AskGarbled
  <2>1. PICK table \in NbrTables : Answered(table) /\ AtHome(table)
    BY <1>6, AnswerIsSample
  <2>2. cur = NoAnswer
    BY <1>6 DEF Ask, AskGarbled, Answering
  <2>3. /\ cur' = table /\ alarms' = {} /\ UNCHANGED <<nbr, cache, seen, st>>
        /\ left' = {r \in Rids : IfaceIn(table, r) # Absent \/ seen[r] # Absent}
    BY <2>1 DEF Answered, envVars
  <2>4. ASSUME NEW r \in Rids
        PROVE  IF cur' # NoAnswer /\ r \notin left' THEN After(r)' ELSE Before(r)'
    <3>1. Before(r) /\ Before(r)'
      BY <2>2, <2>3 DEF Home, Records, Before
    <3>2. ASSUME r \notin left' PROVE After(r)'
      <4>1. IfaceIn(table, r) = Absent /\ seen[r] = Absent
        BY <2>3, <3>2
      <4>2. \A i \in Ifaces : table[<<r, i>>] = Absent /\ cache[<<r, i>>] = Absent
        BY <3>1, <4>1, IfaceInType, AbsentAssumption DEF Before
      <4>3. StateIn(table, r) = Absent /\ st[r] = Absent
        BY <3>1, <4>1 DEF Before, StateIn
      <4> QED
        BY <2>3, <4>2, <4>3 DEF After
    <3> QED
      BY <3>1, <3>2
  <2>5. Records'
    BY <2>4 DEF Records
  <2> QED
    BY <1>2, <2>1, <2>3, <2>5 DEF Home, CurHome, SeenHome, Unspoken
<1>7. ASSUME NEW r \in Rids, Write(r) \/ Drop(r)
      PROVE  Home'
  <2>1. /\ UNCHANGED <<nbr, cur, seen>> /\ cur # NoAnswer /\ left' = left \ {r}
        /\ left \in SUBSET Rids
    BY <1>7 DEF Write, Drop, envVars, TypeOK, WorkerTypeOK
  <2>2. ASSUME NEW q \in Rids
        PROVE  IF cur' # NoAnswer /\ q \notin left' THEN After(q)' ELSE Before(q)'
    <3>1. CASE q = r
      BY <1>7, <2>1, <3>1, WriteEffect, DropEffect
    <3>2. CASE q # r
      <4>1. /\ \A i \in Ifaces : cache'[<<q, i>>] = cache[<<q, i>>]
            /\ st'[q] = st[q] /\ seen'[q] = seen[q] /\ cur' = cur
            /\ q \in left' <=> q \in left
        BY <1>7, <3>2, OthersStay
      <4>2. IF cur # NoAnswer /\ q \notin left THEN After(q) ELSE Before(q)
        BY DEF Home, Records
      <4>3. Before(q) => Before(q)'
        BY <4>1 DEF Before
      <4>4. After(q) => After(q)'
        BY <4>1 DEF After
      <4> QED
        BY <4>1, <4>2, <4>3, <4>4
    <3> QED
      BY <3>1, <3>2
  <2>3. Unspoken'
    <3>1. ASSUME NEW q \in left' PROVE q \notin alarms'
      <4>1. q \in Rids /\ q # r /\ q \in left
        BY <2>1
      <4>2. q \in alarms' <=> q \in alarms
        BY <1>7, <4>1, OthersStay
      <4> QED
        BY <4>1, <4>2 DEF Home, Unspoken
    <3> QED
      BY <3>1 DEF Unspoken
  <2>4. Records'
    BY <2>2 DEF Records
  <2> QED
    BY <1>2, <2>1, <2>3, <2>4 DEF Home, CurHome, SeenHome
<1>8. CASE Finish
  <2>1. /\ cur \in NbrTables /\ cur # NoAnswer /\ cur' = NoAnswer /\ left = {} /\ AtHome(cur)
        /\ seen' = [r \in Rids |-> IfaceIn(cur, r)]
        /\ UNCHANGED <<nbr, left, cache, st, alarms>>
    BY <1>0, <1>8 DEF Finish, envVars, Home, CurHome
  <2>2. CurHome'
    BY <2>1 DEF CurHome
  <2>3. SeenHome'
    <3>1. ASSUME NEW r \in Rids, IfaceIn(cur, r) # Absent
          PROVE  <<r, IfaceIn(cur, r)>> \in Wired
      <4>1. IfaceIn(cur, r) \in Ifaces /\ cur[<<r, IfaceIn(cur, r)>>] # Absent
        BY <2>1, <3>1, IfaceInType
      <4> QED
        BY <2>1, <4>1 DEF AtHome, Pairs
    <3> QED
      BY <2>1, <3>1 DEF SeenHome
  <2>4. ASSUME NEW r \in Rids PROVE Before(r)'
    <3>1. /\ \A i \in Ifaces : cache[<<r, i>>] = cur[<<r, i>>]
          /\ st[r] = StateIn(cur, r)
      BY <2>1 DEF Home, Records, After
    <3>2. \A i \in Ifaces :
            cur[<<r, i>>] = IF IfaceIn(cur, r) = i THEN StateIn(cur, r) ELSE Absent
      BY <2>1, OneEntry
    <3>3. seen'[r] = IfaceIn(cur, r) /\ (IfaceIn(cur, r) # Absent <=> StateIn(cur, r) # Absent)
      BY <2>1, StateInType
    <3> QED
      BY <2>1, <3>1, <3>2, <3>3 DEF Before
  <2>5. Records'
    BY <2>1, <2>4 DEF Records
  <2> QED
    BY <1>2, <2>1, <2>2, <2>3, <2>5 DEF Home, Unspoken
<1>9. CASE LogLine \/ Unheard \/ LoseLine \/ OtherLine \/ Kick \/ Bind \/ Drain \/ TickerFires
            \/ Wake \/ Slept \/ AskFails \/ UNCHANGED vars
  <2>1. UNCHANGED <<nbr, cur, left, cacheVars>>
    BY <1>9 DEF LogLine, Unheard, LoseLine, OtherLine, Kick, Bind, Drain, TickerFires,
       Wake, Slept, AskFails, vars, envVars, workVars
  <2> QED
    BY <1>1, <1>2, <2>1 DEF Home
<1> QED
  BY <1>4, <1>5, <1>6, <1>7, <1>8, <1>9 DEF Next, Frr, Shim, Apply

LEMMA HomeInvariant ==
    ASSUME OneHome
    PROVE  Spec => [](TypeOK /\ Answering /\ Home)
<1>1. Init => Answering /\ Home
  <2> SUFFICES ASSUME Init
               PROVE  Answering /\ Home
    OBVIOUS
  <2>1. NbrHome /\ CurHome /\ SeenHome /\ Answering /\ Unspoken
    BY DEF Init, NbrHome, AtHome, CurHome, SeenHome, Answering, Unspoken
  <2>2. Records
    BY DEF Init, Records, Before, Nothing, Pairs
  <2> QED
    BY <2>1, <2>2 DEF Home
<1>2. TypeOK /\ Answering /\ Home /\ [Next]_vars => Home'
  BY HomeInductive
<1>3. Spec => []Answering
  BY WakeupInvariant, PTL
<1> QED
  BY <1>1, <1>2, <1>3, TypeCorrect, PTL DEF Spec

\* Where a router id has one home, OSPF.seen, OSPF.st and the leaves in the
\* cache agree whenever a reconcile is over, whatever the order of triggers,
\* restarts and faults.
THEOREM BookkeepingCorrect ==
    ASSUME OneHome
    PROVE  Spec => []BookkeepingAgrees
<1>1. Home => BookkeepingAgrees
  BY DEF Home, Records, Before, BookkeepingAgrees
<1> QED
  BY <1>1, HomeInvariant, PTL

\* Where a router id has one home, an event is emitted for a neighbour exactly
\* when what the cache shows of it changes or goes away, and never for another.
THEOREM AlarmsCorrect ==
    ASSUME OneHome
    PROVE  Spec => AlarmIffVisible
<1>1. TypeOK /\ Home /\ [Next]_vars => AlarmsTellChanges
  <2> SUFFICES ASSUME TypeOK, Home, [Next]_vars, NEW q \in Rids
               PROVE  q \in alarms' \ alarms <=> VisiblyChanges(q)
    BY DEF AlarmsTellChanges
  <2>1. ASSUME NEW r \in Rids, Write(r) \/ Drop(r)
        PROVE  q \in alarms' \ alarms <=> VisiblyChanges(q)
    <3>1. CASE q = r
      BY <2>1, <3>1, WriteEffect, DropEffect
    <3>2. CASE q # r
      BY <2>1, <3>2, OthersStay DEF VisiblyChanges
    <3> QED
      BY <3>1, <3>2
  <2>2. ASSUME UNCHANGED cache, alarms' \subseteq alarms
        PROVE  q \in alarms' \ alarms <=> VisiblyChanges(q)
    BY <2>2 DEF VisiblyChanges
  <2>3. CASE Ask \/ AskGarbled
    BY <2>2, <2>3 DEF Ask, AskGarbled, Answered
  <2>4. (Next /\ ~ (Ask \/ AskGarbled \/ \E r \in Rids : Write(r) \/ Drop(r))) \/ UNCHANGED vars
          => UNCHANGED <<cache, alarms>>
    BY DEF Next, Frr, Shim, Apply, Finish, Change, Restart, LogLine, Unheard, LoseLine, OtherLine,
       Kick, Bind, Drain, TickerFires, Wake, Slept, AskFails, vars, cacheVars
  <2> QED
    BY <2>1, <2>2, <2>3, <2>4
<1> QED
  BY <1>1, HomeInvariant, TypeCorrect, PTL DEF Spec, AlarmIffVisible

\* Where a router id has one home, the cache is a mirror of ospfd's table: it
\* goes leaf by leaf from one answer of vtysh to the next and shows all of it
\* before vtysh is asked again.
THEOREM RefinesMirror ==
    ASSUME OneHome
    PROVE  Spec => MirrorsNeighbours
<1> DEFINE truth == [p \in Pairs |-> Shown(nbr[p])]
<1>1. Init => Table!Init
  <2> SUFFICES ASSUME Init
               PROVE  Table!Init
    OBVIOUS
  <2>1. truth \in NbrTables
    BY ShownType DEF Init, NbrTables
  <2> QED
    BY <2>1 DEF Init, Table!Init, Table!Tables, Table!Blank, NbrTables, Nothing
<1>2. (TypeOK /\ Answering /\ Home) /\ TypeOK' /\ [Next]_vars => [Table!Next]_(Table!vars)
  <2> SUFFICES ASSUME TypeOK, Answering, Home, TypeOK', [Next]_vars
               PROVE  Table!Next \/ UNCHANGED <<truth, cur, cache>>
    BY DEF Table!vars
  <2>0. truth' \in Table!Tables
    <3>1. nbr' \in [Pairs -> FrrStates \union {Absent}]
      BY DEF TypeOK, SyslogTypeOK
    <3>2. \A p \in Pairs : Shown(nbr'[p]) \in AdjStates \union {Absent}
      BY <3>1, ShownType
    <3> QED
      BY <3>2 DEF Table!Tables
  <2>1. ASSUME NEW p \in Wired, NEW state \in FrrStates \union {Absent}, Change(p, state)
        PROVE  Table!Next
    BY <2>0, <2>1 DEF Change, workVars, cacheVars, Table!Next, Table!Change
  <2>2. CASE Restart
    BY <2>0, <2>2 DEF Restart, workVars, cacheVars, Table!Next, Table!Change
  <2>3. CASE Ask \/ AskGarbled
    <3>1. PICK table \in {truth, Nothing} : Answered(table)
      BY <2>3, AnswerIsSample
    <3>2. cur = NoAnswer
      BY <2>3 DEF Ask, AskGarbled, Answering
    <3> QED
      BY <3>1, <3>2 DEF Answered, envVars, Table!Next, Table!Take, Table!Blank, Nothing
  <2>4. ASSUME NEW r \in Rids, Write(r) \/ Drop(r)
        PROVE  Table!Next
    <3>1. PICK i \in Ifaces : cache' = [cache EXCEPT ![<<r, i>>] = cur[<<r, i>>]]
      BY <2>4, WriteEffect, DropEffect
    <3>2. cur # NoAnswer /\ UNCHANGED <<nbr, cur>> /\ <<r, i>> \in Pairs
      BY <2>4 DEF Write, Drop, envVars, Pairs
    <3>3. Table!Move(<<r, i>>)
      BY <3>1, <3>2 DEF Table!Move
    <3> QED
      BY <3>2, <3>3 DEF Table!Next
  <2>5. CASE Finish
    <3>1. /\ cur \in NbrTables /\ cur # NoAnswer /\ cur' = NoAnswer /\ left = {}
          /\ cache \in NbrTables /\ UNCHANGED <<nbr, cache>>
      BY <2>5 DEF Finish, envVars, TypeOK, WorkerTypeOK, CacheTypeOK
    <3>2. \A r \in Rids, i \in Ifaces : cache[<<r, i>>] = cur[<<r, i>>]
      BY <3>1 DEF Home, Records, After
    <3>3. \A p \in Pairs : cache[p] = cur[p]
      BY <3>2 DEF Pairs
    <3>4. cache = cur
      BY <3>1, <3>3 DEF NbrTables
    <3> QED
      BY <3>1, <3>4 DEF Table!Next, Table!Finish
  <2>6. CASE LogLine \/ Unheard \/ LoseLine \/ OtherLine \/ Kick \/ Bind \/ Drain \/ TickerFires
             \/ Wake \/ Slept \/ AskFails \/ UNCHANGED vars
    BY <2>6 DEF LogLine, Unheard, LoseLine, OtherLine, Kick, Bind, Drain, TickerFires,
       Wake, Slept, AskFails, vars, envVars, workVars, cacheVars
  <2> QED
    BY <2>1, <2>2, <2>3, <2>4, <2>5, <2>6 DEF Next, Frr, Shim, Apply
<1> QED
  BY <1>1, <1>2, HomeInvariant, TypeCorrect, PTL DEF Spec, MirrorsNeighbours, Table!Spec
===============================================================================
