----------------------------- MODULE LldpProofs -----------------------------
(***************************************************************************)
(* Proofs about LldpReconcile, for any interfaces, chassis, changes and    *)
(* faults.                                                                 *)
(***************************************************************************)
EXTENDS LldpReconcile, TLAPS

LEMMA BoundTypes ==
    ASSUME TypeOK
    PROVE  /\ Fault => faults' \in 0 .. MaxFaults
           /\ changes < MaxChanges => changes + 1 \in 0 .. MaxChanges
<1>1. faults \in 0 .. MaxFaults /\ changes \in 0 .. MaxChanges
  BY DEF TypeOK
<1>2. MaxFaults \in Nat /\ MaxChanges \in Nat
  BY LldpAssumption
<1> QED BY <1>1, <1>2 DEF Fault

LEMMA NamedNeighbours == ASSUME TypeOK PROVE Named(nbrs) \in SUBSET Neighbours
BY DEF TypeOK, Named, Listed, Neighbours

LEMMA ReturnedType ==
    ASSUME TypeOK, NEW g \in Goroutines
    PROVE  Returned(g) \in [Goroutines -> {"not started", "idle", "asking", "writing", "deleting"}]
BY DEF TypeOK, Returned, Goroutines

LEMMA AskedForTypes ==
    ASSUME TypeOK, NEW g \in Goroutines, NEW answer \in SUBSET Neighbours, AskedFor(g, answer)
    PROVE  /\ cur' = [cur EXCEPT ![g] = answer] /\ left' = [left EXCEPT ![g] = answer]
           /\ pc' = [pc EXCEPT ![g] = "writing"]
           /\ cur' \in [Goroutines -> SUBSET Neighbours]
           /\ left' \in [Goroutines -> SUBSET Neighbours]
           /\ pc' \in [Goroutines -> {"not started", "idle", "asking", "writing", "deleting"}]
           /\ UNCHANGED <<nbrs, line, cache, seen, changes>>
BY DEF TypeOK, AskedFor

(* The state keeps its type, in every behaviour. *)
THEOREM TypeCorrect == Spec => []TypeOK
<1>1. Init => TypeOK
  <2> SUFFICES ASSUME Init PROVE TypeOK
    OBVIOUS
  <2>1. nbrs \in SUBSET Listed /\ changes \in 0 .. MaxChanges /\ faults \in 0 .. MaxFaults
    <3>1. nbrs \in SUBSET Pluggable /\ changes = 0 /\ faults = 0
      BY DEF Init
    <3>2. Pluggable \subseteq Listed /\ MaxChanges \in Nat /\ MaxFaults \in Nat
      BY LldpAssumption
    <3> QED BY <3>1, <3>2
  <2>2. /\ pc \in [Goroutines -> {"not started", "idle", "asking", "writing", "deleting"}]
        /\ cur \in [Goroutines -> SUBSET Neighbours]
        /\ left \in [Goroutines -> SUBSET Neighbours]
    BY DEF Init
  <2> QED BY <2>1, <2>2 DEF Init, TypeOK
<1>2. TypeOK /\ [Next]_vars => TypeOK'
  <2> SUFFICES ASSUME TypeOK, [Next]_vars PROVE TypeOK'
    OBVIOUS
  <2>1. CASE Change
    <3>1. nbrs' \in SUBSET Listed /\ line' \in BOOLEAN /\ changes' \in 0 .. MaxChanges
      <4>1. nbrs' \in SUBSET Listed /\ line' \in BOOLEAN
        BY <2>1, LldpAssumption DEF Change, TypeOK
      <4> QED BY <2>1, <4>1, BoundTypes DEF Change
    <3> QED BY <2>1, <3>1 DEF Change, TypeOK, localVars
  <2>2. CASE WatchLine
    BY <2>2 DEF WatchLine, TypeOK
  <2>3. CASE Tick
    BY <2>3 DEF Tick, TypeOK
  <2>4. ASSUME NEW g \in Goroutines, Ask(g) PROVE TypeOK'
    BY <2>4, NamedNeighbours, AskedForTypes DEF Ask, TypeOK
  <2>5. ASSUME NEW g \in Goroutines, AskGarbled(g) PROVE TypeOK'
    <3>1. faults' \in 0 .. MaxFaults
      BY <2>5, BoundTypes DEF AskGarbled
    <3>2. {} \in SUBSET Neighbours /\ AskedFor(g, {})
      BY <2>5 DEF AskGarbled
    <3> QED BY <3>1, <3>2, AskedForTypes DEF TypeOK
  <2>6. ASSUME NEW g \in Goroutines, AskFails(g) PROVE TypeOK'
    <3>1. faults' \in 0 .. MaxFaults
      BY <2>6, BoundTypes DEF AskFails
    <3> QED BY <2>6, <3>1, ReturnedType DEF AskFails, TypeOK
  <2>7. ASSUME NEW g \in Goroutines, NEW n \in left[g], Write(g, n) PROVE TypeOK'
    <3>1. n \in Neighbours
      BY <2>7 DEF TypeOK
    <3> QED BY <2>7, <3>1 DEF Write, TypeOK
  <2>8. ASSUME NEW g \in Goroutines, StartDeleting(g) PROVE TypeOK'
    <3>1. Gone(cur[g]) \in SUBSET Neighbours
      BY DEF Gone, TypeOK
    <3> QED BY <2>8, <3>1 DEF StartDeleting, TypeOK
  <2>9. ASSUME NEW g \in Goroutines, NEW n \in left[g], Delete(g, n) PROVE TypeOK'
    BY <2>9 DEF Delete, TypeOK
  <2>10. ASSUME NEW g \in Goroutines, Finish(g) PROVE TypeOK'
    <3>1. seen' \in SUBSET Neighbours /\ cur' \in [Goroutines -> SUBSET Neighbours]
      BY <2>10 DEF Finish, SeenAfter, TypeOK
    <3> QED BY <2>10, <3>1, ReturnedType DEF Finish, TypeOK
  <2>11. CASE UNCHANGED vars
    BY <2>11 DEF vars, localVars, TypeOK
  <2> QED BY <2>1, <2>2, <2>3, <2>4, <2>5, <2>6, <2>7, <2>8, <2>9, <2>10, <2>11 DEF Next, Reconcile
<1> QED BY <1>1, <1>2, PTL DEF Spec

----------------------------------------------------------------------------
(* SeenIsCached speaks of the moments between reconciles; within one, the  *)
(* cache is seen with the part of the answer that is written, and then     *)
(* without the part of what has gone that is deleted.                      *)
Working(g) == pc[g] \in {"writing", "deleting"}

WrittenSoFar(g) ==
    pc[g] = "writing" =>
        left[g] \subseteq cur[g] /\ cache = seen \union (cur[g] \ left[g])

DeletedSoFar(g) ==
    pc[g] = "deleting" =>
        /\ left[g] \subseteq Gone(cur[g])
        /\ cache = (seen \union cur[g]) \ (Gone(cur[g]) \ left[g])

IInv ==
    /\ (\A g \in Goroutines : ~Working(g)) => seen = cache
    /\ \A g \in Goroutines : WrittenSoFar(g) /\ DeletedSoFar(g)

(* One reconciler at a time: when g is busy nobody else is working.        *)
LEMMA NobodyElse ==
    ASSUME Alone, NEW g \in Goroutines, Busy(g), NEW h \in Goroutines, h # g
    PROVE  pc[h] \in {"idle", "not started"}
BY DEF Alone, Busy, Goroutines

LEMMA ReturnedPc ==
    ASSUME TypeOK, NEW g \in Goroutines, NEW h \in Goroutines
    PROVE  /\ Returned(g)[g] = "idle"
           /\ Returned(g)[h] \in {pc[h], "idle"}
BY DEF TypeOK, Returned, Goroutines

LEMMA AskedForKeeps ==
    ASSUME TypeOK, IInv, Alone, NEW g \in Goroutines, pc[g] = "asking",
           NEW answer \in SUBSET Neighbours, AskedFor(g, answer)
    PROVE  IInv'
<1>1. /\ cur'[g] = answer /\ left'[g] = answer /\ pc'[g] = "writing"
      /\ \A h \in Goroutines : h # g => pc'[h] = pc[h]
      /\ UNCHANGED <<cache, seen>>
  <2>1. /\ cur' = [cur EXCEPT ![g] = answer] /\ left' = [left EXCEPT ![g] = answer]
        /\ pc' = [pc EXCEPT ![g] = "writing"] /\ UNCHANGED <<cache, seen>>
    BY AskedForTypes
  <2> QED BY <2>1 DEF TypeOK
<1>2. \A h \in Goroutines : h # g => pc[h] \in {"idle", "not started"}
  BY NobodyElse DEF Busy
<1>3. seen = cache
  BY <1>2 DEF IInv, Working
<1> QED BY <1>1, <1>2, <1>3 DEF IInv, Working, WrittenSoFar, DeletedSoFar

LEMMA StepKeeps ==
    ASSUME TypeOK, IInv, Alone, Unreplaced, [Next]_vars
    PROVE  IInv'
<1>1. CASE UNCHANGED <<cache, seen, cur, left, pc>>
  BY <1>1 DEF IInv, Working, WrittenSoFar, DeletedSoFar, Gone
<1>2. ASSUME NEW g \in Goroutines, NEW at, pc[g] = "idle", at = "asking",
             pc' = [pc EXCEPT ![g] = at], UNCHANGED <<cache, seen, cur, left>>
      PROVE  IInv'
  <2>1. \A h \in Goroutines : pc'[h] = IF h = g THEN "asking" ELSE pc[h]
    BY <1>2 DEF TypeOK
  <2> QED BY <1>2, <2>1 DEF IInv, Working, WrittenSoFar, DeletedSoFar, Gone
<1>3. CASE WatchLine
  BY <1>2, <1>3 DEF WatchLine, Goroutines
<1>4. CASE Tick
  BY <1>2, <1>4 DEF Tick, Goroutines
<1>5. ASSUME NEW g \in Goroutines, Ask(g) PROVE IInv'
  BY <1>5, NamedNeighbours, AskedForKeeps DEF Ask
<1>6. ASSUME NEW g \in Goroutines, AskGarbled(g) PROVE IInv'
  <2>1. {} \in SUBSET Neighbours /\ pc[g] = "asking" /\ AskedFor(g, {})
    BY <1>6 DEF AskGarbled
  <2> QED BY <2>1, AskedForKeeps
<1>7. ASSUME NEW g \in Goroutines, AskFails(g) PROVE IInv'
  <2>1. pc[g] = "asking" /\ UNCHANGED <<cache, seen, cur, left>>
    BY <1>7 DEF AskFails
  <2>2. \A h \in Goroutines : pc'[h] \in {pc[h], "idle"}
    BY <1>7, ReturnedPc DEF AskFails
  <2>3. \A h \in Goroutines : ~Working(h)
    <3>1. \A h \in Goroutines : h # g => pc[h] \in {"idle", "not started"}
      BY <2>1, NobodyElse DEF Busy
    <3> QED BY <2>1, <3>1 DEF Working
  <2> QED BY <2>1, <2>2, <2>3 DEF IInv, Working, WrittenSoFar, DeletedSoFar
<1>8. ASSUME NEW g \in Goroutines, NEW n \in left[g], Write(g, n) PROVE IInv'
  <2>1. /\ pc[g] = "writing" /\ cache' = cache \union {n} /\ left'[g] = left[g] \ {n}
        /\ UNCHANGED <<seen, pc, cur>>
    BY <1>8 DEF Write, TypeOK
  <2>2. \A h \in Goroutines : h # g => pc[h] \in {"idle", "not started"}
    BY <2>1, NobodyElse DEF Busy
  <2>3. WrittenSoFar(g)'
    BY <1>8, <2>1 DEF IInv, WrittenSoFar
  <2> QED BY <2>1, <2>2, <2>3 DEF IInv, Working, WrittenSoFar, DeletedSoFar
<1>9. ASSUME NEW g \in Goroutines, StartDeleting(g) PROVE IInv'
  <2>1. /\ pc[g] = "writing" /\ left[g] = {} /\ left'[g] = Gone(cur[g]) /\ pc'[g] = "deleting"
        /\ UNCHANGED <<seen, cache, cur>>
        /\ \A h \in Goroutines : h # g => pc'[h] = pc[h]
    BY <1>9 DEF StartDeleting, TypeOK
  <2>2. \A h \in Goroutines : h # g => pc[h] \in {"idle", "not started"}
    BY <2>1, NobodyElse DEF Busy
  <2>3. cache = seen \union cur[g]
    BY <2>1 DEF IInv, WrittenSoFar
  <2>4. Gone(cur[g])' = Gone(cur[g])
    BY <2>1 DEF Gone
  <2>5. DeletedSoFar(g)'
    BY <2>1, <2>3, <2>4 DEF DeletedSoFar
  <2> QED BY <2>1, <2>2, <2>5 DEF IInv, Working, WrittenSoFar, DeletedSoFar
<1>10. ASSUME NEW g \in Goroutines, NEW n \in left[g], Delete(g, n) PROVE IInv'
  <2>1. /\ pc[g] = "deleting" /\ cache' = cache \ {n} /\ left'[g] = left[g] \ {n}
        /\ UNCHANGED <<seen, pc, cur>>
    BY <1>10 DEF Delete, TypeOK
  <2>2. \A h \in Goroutines : h # g => pc[h] \in {"idle", "not started"}
    BY <2>1, NobodyElse DEF Busy
  <2>3. DeletedSoFar(g)'
    <3>1. Gone(cur[g])' = Gone(cur[g])
      BY <2>1 DEF Gone
    <3> QED BY <1>10, <2>1, <3>1 DEF IInv, DeletedSoFar
  <2> QED BY <2>1, <2>2, <2>3 DEF IInv, Working, WrittenSoFar, DeletedSoFar
<1>11. ASSUME NEW g \in Goroutines, Finish(g) PROVE IInv'
  <2>1. /\ pc[g] = "deleting" /\ left[g] = {} /\ seen' = cur[g] /\ pc' = Returned(g)
        /\ cache' = cache
    BY <1>11 DEF Finish, SeenAfter
  <2>2. \A h \in Goroutines : h # g => pc[h] \in {"idle", "not started"}
    BY <2>1, NobodyElse DEF Busy
  \* What is seen and not gone is in the answer, as no chassis is replaced.
  <2>3. cache = cur[g]
    <3>1. cache = (seen \union cur[g]) \ Gone(cur[g])
      BY <2>1 DEF IInv, DeletedSoFar
    <3>2. ASSUME NEW n \in seen, n \notin Gone(cur[g]) PROVE n \in cur[g]
      <4>1. PICK m \in cur[g] : m[1] = n[1]
        BY <3>2 DEF Gone
      <4> QED BY <4>1 DEF Unreplaced
    <3>3. \A n \in cur[g] : n \notin Gone(cur[g])
      BY DEF Gone
    <3> QED BY <3>1, <3>2, <3>3
  <2>4. \A h \in Goroutines : pc'[h] \in {"idle", "not started"}
    BY <2>1, <2>2, ReturnedPc
  <2> QED BY <2>1, <2>3, <2>4 DEF IInv, Working, WrittenSoFar, DeletedSoFar
<1>12. CASE Change
  BY <1>1, <1>12 DEF Change, localVars
<1>13. CASE UNCHANGED vars
  BY <1>1, <1>13 DEF vars, localVars
<1> QED BY <1>3, <1>4, <1>5, <1>6, <1>7, <1>8, <1>9, <1>10, <1>11, <1>12, <1>13
        DEF Next, Reconcile

(* As long as the goroutines keep apart and no chassis is replaced, seen   *)
(* is exactly what the cache holds whenever no reconcile runs.             *)
THEOREM SeenCorrect == Spec => SeenIsCached
<1>1. Init => IInv
  BY DEF Init, IInv, Working, WrittenSoFar, DeletedSoFar, Goroutines
<1>2. TypeOK /\ IInv /\ (Alone /\ Unreplaced) /\ [Next]_vars => IInv'
  BY StepKeeps
<1>3. IInv => (Quiet => seen = cache)
  BY DEF IInv, Quiet, Busy, Working
<1> QED BY <1>1, <1>2, <1>3, TypeCorrect, PTL DEF Spec, SeenIsCached, WellKept

=============================================================================
