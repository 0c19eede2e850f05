----------------------------- MODULE LineageProofs -----------------------------
(***************************************************************************)
(* The lineage tracker: proved of the tracker alone (Lineage) for any      *)
(* prefixes and grace period, and of the tracker over the three planes     *)
(* that call it (LineagePlanes) for any number of peers, tables, changes   *)
(* and connections too.                                                    *)
(***************************************************************************)
EXTENDS LineagePlanes, FiniteSetTheorems, SequenceTheorems, TLAPS

\* Writing a hop keeps the entry well formed and touches no other hop.
LEMMA WithHopEffect ==
    ASSUME NEW e \in Entry, NEW stage \in Stages, NEW present \in BOOLEAN
    PROVE  /\ WithHop(e, stage, present) \in Entry
           /\ WithHop(e, stage, present).flagged = e.flagged
           /\ WithHop(e, stage, present).present = [e.present EXCEPT ![stage] = present]
<1> DEFINE hops == [e.present EXCEPT ![stage] = present]
           age == IF stage = "fpm" THEN 0 ELSE e.fpmAge
<1>1. hops \in [Stages -> BOOLEAN]
  BY DEF Entry
<1>2. age \in 0 .. Grace + 1
  BY GraceAssumption DEF Entry
<1>3. WithHop(e, stage, present) = [e EXCEPT !.present = hops, !.fpmAge = age]
  BY DEF WithHop
<1> HIDE DEF hops, age
<1>4. [e EXCEPT !.present = hops, !.fpmAge = age] \in Entry
  BY <1>1, <1>2 DEF Entry
<1>5. /\ [e EXCEPT !.present = hops, !.fpmAge = age].flagged = e.flagged
      /\ [e EXCEPT !.present = hops, !.fpmAge = age].present = hops
  BY DEF Entry
<1> QED
  BY <1>3, <1>4, <1>5 DEF hops

\* What Observe hands to the map is an entry or the absence of one.
LEMMA ObservedType ==
    ASSUME TypeOK, NEW p \in Prefixes, NEW stage \in Stages,
           NEW present \in BOOLEAN, NEW proto \in Protos
    PROVE  Observed(WithHop(EntryOf(p), stage, present), stage, present, proto)
             \in Entry \union {NoEntry}
<1>1. EntryOf(p) \in Entry
  BY GraceAssumption DEF TypeOK, EntryOf, NewEntry, Tracked, Entry
<1>2. WithHop(EntryOf(p), stage, present) \in Entry
  BY <1>1, WithHopEffect
<1>3. Confirmed(WithHop(EntryOf(p), stage, present), proto) \in Entry
  BY <1>2 DEF Confirmed, Entry
<1> QED
  BY <1>2, <1>3 DEF Observed

\* Type correctness of the tracker under every interleaving of Observe calls,
\* scans, emits and clock ticks.
THEOREM TypeCorrect == Spec => []TypeOK
<1>1. Init => TypeOK
  BY DEF Init, TypeOK
<1>2. TypeOK /\ [Next]_lineageVars => TypeOK'
  <2> SUFFICES ASSUME TypeOK, [Next]_lineageVars
               PROVE  TypeOK'
    OBVIOUS
  <2>1. ASSUME NEW p \in Prefixes, NEW stage \in Stages,
               NEW present \in BOOLEAN, NEW proto \in Protos,
               Observe(p, stage, present, proto)
        PROVE  TypeOK'
    <3>1. Observed(WithHop(EntryOf(p), stage, present), stage, present, proto)
            \in Entry \union {NoEntry}
      BY <2>1, ObservedType
    <3> QED
      BY <2>1, <3>1 DEF Observe, TypeOK
  <2>2. CASE Scan
    <3>1. outbox' \in SUBSET Prefixes
      BY <2>2 DEF Scan
    <3>2. ASSUME NEW p \in outbox'
          PROVE  [routes[p] EXCEPT !.flagged = TRUE] \in Entry
      <4>1. routes[p] \in Entry
        BY <2>2, <3>2 DEF Scan, TypeOK, Tracked
      <4> QED
        BY <4>1 DEF Entry
    <3> QED
      BY <2>2, <3>1, <3>2 DEF Scan, TypeOK
  <2>3. ASSUME NEW p \in Prefixes, Emit(p)
        PROVE  TypeOK'
    BY <2>3 DEF Emit, TypeOK
  <2>4. CASE Tick
    <3>1. ASSUME NEW p \in Prefixes, Tracked(p)
          PROVE  [routes[p] EXCEPT !.fpmAge = Older(@)] \in Entry
      <4>1. routes[p] \in Entry
        BY <3>1 DEF TypeOK, Tracked
      <4>2. Older(routes[p].fpmAge) \in 0 .. Grace + 1
        BY <4>1, GraceAssumption DEF Older, Entry
      <4> QED
        BY <4>1, <4>2 DEF Entry
    <3> QED
      BY <2>4, <3>1 DEF Tick, TypeOK
  <2>5. CASE UNCHANGED lineageVars
    BY <2>5 DEF lineageVars, TypeOK
  <2> QED
    BY <2>1, <2>2, <2>3, <2>4, <2>5 DEF Next
<1> QED
  BY <1>1, <1>2, PTL DEF Spec

-------------------------------------------------------------------------------
\* The two facts about entries that every step preserves, put per entry.
Sound(e) == /\ \E s \in Stages : e.present[s]
            /\ e.flagged => ~e.present["kernel"]

SoundEntries == \A p \in Prefixes : Tracked(p) => Sound(routes[p])

IInv == TypeOK /\ SoundEntries

\* Observe leaves a sound entry behind, or none.
LEMMA ObservedSound ==
    ASSUME IInv, NEW p \in Prefixes, NEW stage \in Stages,
           NEW present \in BOOLEAN, NEW proto \in Protos,
           Observe(p, stage, present, proto), Tracked(p)'
    PROVE  Sound(routes'[p])
<1> DEFINE w == WithHop(EntryOf(p), stage, present)
<1>1. routes'[p] = Observed(w, stage, present, proto)
  BY DEF Observe, IInv, TypeOK
<1>2. EntryOf(p) \in Entry
  BY GraceAssumption DEF IInv, TypeOK, EntryOf, NewEntry, Tracked, Entry
<1>3. EntryOf(p).flagged => ~EntryOf(p).present["kernel"]
  BY DEF IInv, SoundEntries, Sound, EntryOf, NewEntry
<1>4. /\ w \in Entry
      /\ w.flagged = EntryOf(p).flagged
      /\ w.present[stage] = present
      /\ \A s \in Stages \ {stage} : w.present[s] = EntryOf(p).present[s]
  <2>1. /\ w \in Entry
        /\ w.flagged = EntryOf(p).flagged
        /\ w.present = [EntryOf(p).present EXCEPT ![stage] = present]
    BY <1>2, WithHopEffect
  <2> QED
    BY <2>1, <1>2 DEF Entry
<1>5. CASE stage = "kernel" /\ present
  <2>1. routes'[p] = Confirmed(w, proto)
    BY <1>1, <1>5 DEF Observed
  <2>2. /\ Confirmed(w, proto).present = w.present
        /\ Confirmed(w, proto).flagged = FALSE
    BY <1>4 DEF Confirmed, Entry
  <2> QED
    BY <2>1, <2>2, <1>4, <1>5 DEF Sound
<1>6. CASE ~(stage = "kernel" /\ present)
  <2>1. routes'[p] = w /\ ~(~present /\ Withdrawn(w))
    BY <1>1, <1>6 DEF Observed, Tracked
  <2>2. \E s \in Stages : w.present[s]
    BY <2>1, <1>4 DEF Withdrawn
  <2>3. w.flagged => ~w.present["kernel"]
    BY <1>3, <1>4, <1>6 DEF Stages
  <2> QED
    BY <2>1, <2>2, <2>3 DEF Sound
<1> QED
  BY <1>5, <1>6

\* IInv is inductive.
LEMMA IInvariant == Spec => []IInv
<1>1. Init => SoundEntries
  BY DEF Init, SoundEntries, Tracked
<1>2. TypeOK /\ TypeOK' /\ SoundEntries /\ [Next]_lineageVars => SoundEntries'
  <2> SUFFICES ASSUME TypeOK, TypeOK', SoundEntries, [Next]_lineageVars,
                      NEW q \in Prefixes, Tracked(q)'
               PROVE  Sound(routes'[q])
    BY DEF SoundEntries, Sound, Tracked
  <2>1. ASSUME NEW p \in Prefixes, NEW stage \in Stages,
               NEW present \in BOOLEAN, NEW proto \in Protos,
               Observe(p, stage, present, proto)
        PROVE  Sound(routes'[q])
    <3>1. CASE q = p
      BY <2>1, <3>1, ObservedSound DEF IInv
    <3>2. CASE q # p
      BY <2>1, <3>2 DEF Observe, TypeOK, SoundEntries, Tracked
    <3> QED
      BY <3>1, <3>2
  <2>2. CASE Scan
    <3>1. CASE q \in outbox'
      <4>1. routes[q] \in Entry /\ Tracked(q) /\ Overdue(routes[q])
        BY <2>2, <3>1 DEF Scan, TypeOK, Tracked
      <4>2. routes'[q] = [routes[q] EXCEPT !.flagged = TRUE]
        BY <2>2, <3>1 DEF Scan
      <4>3. routes'[q].present = routes[q].present
        BY <4>1, <4>2 DEF Entry
      <4> QED
        BY <4>1, <4>3 DEF Sound, Overdue, SoundEntries
    <3>2. CASE q \notin outbox'
      BY <2>2, <3>2 DEF Scan, SoundEntries, Tracked
    <3> QED
      BY <3>1, <3>2
  <2>3. ASSUME NEW p \in Prefixes, Emit(p)
        PROVE  Sound(routes'[q])
    BY <2>3 DEF Emit, SoundEntries, Tracked
  <2>4. CASE Tick
    <3>1. routes[q] \in Entry /\ Tracked(q)
      BY <2>4 DEF Tick, TypeOK, Tracked
    <3>2. routes'[q] = [routes[q] EXCEPT !.fpmAge = Older(@)]
      BY <2>4, <3>1 DEF Tick
    <3>3. routes'[q].present = routes[q].present /\ routes'[q].flagged = routes[q].flagged
      BY <3>1, <3>2 DEF Entry
    <3> QED
      BY <3>1, <3>3 DEF SoundEntries, Sound
  <2>5. CASE UNCHANGED lineageVars
    BY <2>5 DEF lineageVars, SoundEntries, Tracked
  <2> QED
    BY <2>1, <2>2, <2>3, <2>4, <2>5 DEF Next
<1> QED
  BY <1>1, <1>2, TypeCorrect, PTL DEF Spec, IInv

\* The map never keeps a prefix every plane has withdrawn.
THEOREM GhostFree == Spec => []NoGhostEntries
<1>1. IInv => NoGhostEntries
  BY DEF IInv, SoundEntries, Sound, NoGhostEntries, Holds
<1> QED
  BY <1>1, IInvariant, PTL

\* The edge trigger is never left set on a prefix the kernel holds.
THEOREM TriggerRearmed == Spec => []FlaggedIsUnconfirmed
<1>1. IInv => FlaggedIsUnconfirmed
  BY DEF IInv, SoundEntries, Sound, FlaggedIsUnconfirmed, Flagged, Holds
<1> QED
  BY <1>1, IInvariant, PTL

-------------------------------------------------------------------------------
\* The refinement mapping of ImplementsPrefixLife, by name.
Witness == [p \in Prefixes |-> {s \in Stages : Holds(p, s)}]
Raised == [p \in Prefixes |-> Flagged(p)]

\* What a call of Observe does to the mapped state of its own prefix.
LEMMA ObserveMapped ==
    ASSUME IInv, NEW p \in Prefixes, NEW stage \in Stages,
           NEW present \in BOOLEAN, NEW proto \in Protos,
           Observe(p, stage, present, proto)
    PROVE  /\ present => /\ Witness'[p] = Witness[p] \union {stage}
                         /\ Raised'[p] = (Raised[p] /\ stage # "kernel")
           /\ ~present => /\ Witness'[p] = Witness[p] \ {stage}
                          /\ Raised'[p] = (Raised[p] /\ Witness[p] \ {stage} # {})
<1> DEFINE e == EntryOf(p)
           w == WithHop(e, stage, present)
<1>1. routes'[p] = Observed(w, stage, present, proto)
  BY DEF Observe, IInv, TypeOK
<1>2. e \in Entry
  BY GraceAssumption DEF IInv, TypeOK, EntryOf, NewEntry, Tracked, Entry
<1>3. /\ w \in Entry
      /\ w.flagged = e.flagged
      /\ w.present = [e.present EXCEPT ![stage] = present]
  BY <1>2, WithHopEffect
<1>4. \A s \in Stages : Holds(p, s) <=> e.present[s]
  BY DEF Holds, EntryOf, NewEntry
<1>5. Flagged(p) <=> e.flagged
  BY DEF Flagged, EntryOf, NewEntry
<1>6. \A s \in Stages : w.present[s] <=> IF s = stage THEN present ELSE e.present[s]
  BY <1>2, <1>3 DEF Entry
<1>7. /\ Witness[p] = {s \in Stages : e.present[s]}
      /\ Raised[p] = Flagged(p)
      /\ Witness'[p] = {s \in Stages : Holds(p, s)'}
      /\ Raised'[p] = Flagged(p)'
  BY <1>4 DEF Witness, Raised
<1> HIDE DEF e, w
<1>8. CASE stage = "kernel" /\ present
  <2>1. routes'[p] = Confirmed(w, proto)
    BY <1>1, <1>8 DEF Observed
  <2>2. /\ Confirmed(w, proto) \in Entry
        /\ Confirmed(w, proto).present = w.present
        /\ Confirmed(w, proto).flagged = FALSE
    BY <1>3 DEF Confirmed, Entry
  <2>3. Tracked(p)'
    BY <2>1, <2>2, NoEntryAssumption DEF Tracked
  <2>4. /\ \A s \in Stages : Holds(p, s)' <=> w.present[s]
        /\ Flagged(p)' = FALSE
    BY <2>1, <2>2, <2>3 DEF Holds, Flagged
  <2> QED
    BY <1>6, <1>7, <1>8, <2>4
<1>9. CASE ~(stage = "kernel" /\ present) /\ (present \/ ~Withdrawn(w))
  <2>1. routes'[p] = w
    BY <1>1, <1>9 DEF Observed
  <2>2. Tracked(p)'
    BY <2>1, <1>3, NoEntryAssumption DEF Tracked
  <2>3. /\ \A s \in Stages : Holds(p, s)' <=> w.present[s]
        /\ Flagged(p)' <=> e.flagged
    BY <2>1, <2>2, <1>3 DEF Holds, Flagged
  <2>4. /\ present => Witness'[p] = Witness[p] \union {stage}
        /\ ~present => Witness'[p] = Witness[p] \ {stage}
    BY <1>6, <1>7, <2>3
  <2>5. ~present => Witness[p] \ {stage} # {}
    BY <1>6, <1>7, <1>9 DEF Withdrawn
  <2>6. Raised'[p] = Raised[p]
    BY <1>5, <1>7, <2>3 DEF Flagged
  <2>7. Raised[p] \in BOOLEAN
    BY <1>7, <1>5 DEF Flagged, IInv, TypeOK, Entry, Tracked
  <2> QED
    BY <1>9, <2>4, <2>5, <2>6, <2>7
<1>10. CASE ~present /\ Withdrawn(w)
  <2>1. routes'[p] = NoEntry
    BY <1>1, <1>10 DEF Observed
  <2>2. /\ \A s \in Stages : ~Holds(p, s)'
        /\ Flagged(p)' = FALSE
    BY <2>1 DEF Holds, Flagged, Tracked
  <2>3. Witness[p] \ {stage} = {} /\ Witness'[p] = {}
    BY <1>6, <1>7, <1>10, <2>2 DEF Withdrawn
  <2> QED
    BY <1>7, <1>10, <2>2, <2>3
<1> QED
  BY <1>8, <1>9, <1>10

\* A call of Observe is a Hold or a Lose of the abstract specification.
LEMMA ObserveRefines ==
    ASSUME IInv, NEW p \in Prefixes, NEW stage \in Stages,
           NEW present \in BOOLEAN, NEW proto \in Protos,
           Observe(p, stage, present, proto)
    PROVE  Life!Hold(p, stage) \/ Life!Lose(p, stage)
<1>1. \A q \in Prefixes \ {p} : routes'[q] = routes[q]
  BY DEF Observe, IInv, TypeOK
<1>2. \A q \in Prefixes \ {p} : Witness'[q] = Witness[q] /\ Raised'[q] = Raised[q]
  BY <1>1 DEF Witness, Raised, Holds, Flagged, Tracked
<1>3. /\ Witness' = [Witness EXCEPT ![p] = Witness'[p]]
      /\ Raised' = [Raised EXCEPT ![p] = Raised'[p]]
  BY <1>2 DEF Witness, Raised
<1>4. CASE present
  <2>1. Witness' = [Witness EXCEPT ![p] = @ \union {stage}]
    <3>1. Witness'[p] = Witness[p] \union {stage}
      BY <1>4, ObserveMapped
    <3> QED
      BY <1>3, <3>1
  <2>2. Raised' = [Raised EXCEPT ![p] = @ /\ stage # "kernel"]
    <3>1. Raised'[p] = (Raised[p] /\ stage # "kernel")
      BY <1>4, ObserveMapped
    <3> QED
      BY <1>3, <3>1, Zenon
  <2> QED
    BY <2>1, <2>2 DEF Life!Hold, Witness, Raised, Observe
<1>5. CASE ~present
  <2>1. Witness' = [Witness EXCEPT ![p] = @ \ {stage}]
    <3>1. Witness'[p] = Witness[p] \ {stage}
      BY <1>5, ObserveMapped
    <3> QED
      BY <1>3, <3>1
  <2>2. Raised' = [Raised EXCEPT ![p] = @ /\ Witness[p] \ {stage} # {}]
    <3>1. Raised'[p] = (Raised[p] /\ Witness[p] \ {stage} # {})
      BY <1>5, ObserveMapped
    <3> QED
      BY <1>3, <3>1, Zenon
  <2> QED
    BY <2>1, <2>2 DEF Life!Lose, Witness, Raised, Observe
<1> QED
  BY <1>4, <1>5

\* A scan is a Raise of exactly the prefixes it puts in the outbox.
LEMMA ScanRefines ==
    ASSUME IInv, Scan
    PROVE  Life!Raise(outbox')
<1>1. \A p \in outbox' : /\ p \in Prefixes /\ Tracked(p) /\ Overdue(routes[p])
                         /\ routes[p] \in Entry
                         /\ routes'[p] = [routes[p] EXCEPT !.flagged = TRUE]
  BY DEF Scan, IInv, TypeOK, Tracked
<1>2. \A p \in outbox' : /\ Tracked(p)'
                         /\ routes'[p].flagged = TRUE
                         /\ routes'[p].present = routes[p].present
  <2> TAKE p \in outbox'
  <2>1. /\ routes'[p] \in Entry
        /\ routes'[p].flagged = TRUE
        /\ routes'[p].present = routes[p].present
    BY <1>1 DEF Entry
  <2> QED
    BY <2>1, NoEntryAssumption DEF Tracked
<1>3. \A p \in Prefixes \ outbox' : routes'[p] = routes[p]
  BY DEF Scan
<1>4. \A p \in outbox' : "fpm" \in Witness[p] /\ "kernel" \notin Witness[p] /\ ~Raised[p]
  BY <1>1 DEF Overdue, Witness, Raised, Holds, Flagged, Stages
<1>5. \A p \in Prefixes : Witness'[p] = Witness[p]
  <2>1. \A p \in Prefixes, s \in Stages : Holds(p, s)' <=> Holds(p, s)
    BY <1>1, <1>2, <1>3 DEF Holds, Tracked
  <2> QED
    BY <2>1 DEF Witness
<1>6. \A p \in Prefixes : Raised'[p] = (Raised[p] \/ p \in outbox')
  <2>1. \A p \in outbox' : Flagged(p)' = TRUE
    BY <1>2 DEF Flagged
  <2>2. \A p \in Prefixes \ outbox' : Flagged(p)' = Flagged(p)
    BY <1>3 DEF Flagged, Tracked
  <2>3. \A p \in Prefixes : Flagged(p) \in BOOLEAN
    BY DEF Flagged, IInv, TypeOK, Entry, Tracked
  <2> QED
    BY <2>1, <2>2, <2>3 DEF Raised
<1>7. Witness' = Witness
  BY <1>5 DEF Witness
<1>8. Raised' = [p \in Prefixes |-> Raised[p] \/ p \in outbox']
  BY <1>6 DEF Raised
<1>9. outbox' = outbox \union outbox'
  BY DEF Scan
<1> QED
  BY <1>4, <1>7, <1>8, <1>9 DEF Life!Raise, Witness, Raised

\* The tracker implements PrefixLife: one report per gap, re-armed by the
\* kernel's confirmation or by the loss of every witness.
THEOREM RefinesPrefixLife == Spec => ImplementsPrefixLife
<1>1. Init => Life!Init
  BY DEF Init, Life!Init, Holds, Flagged, Tracked
<1>2. IInv /\ IInv' /\ [Next]_lineageVars => [Life!Next]_(Life!vars)
  <2> SUFFICES ASSUME IInv, IInv', [Next]_lineageVars
               PROVE  Life!Next \/ UNCHANGED <<Witness, Raised, outbox>>
    BY DEF Life!vars, Witness, Raised
  <2>1. ASSUME NEW p \in Prefixes, NEW stage \in Stages,
               NEW present \in BOOLEAN, NEW proto \in Protos,
               Observe(p, stage, present, proto)
        PROVE  Life!Next
    BY <2>1, ObserveRefines DEF Life!Next
  <2>2. CASE Scan
    <3>1. outbox' \in SUBSET Prefixes
      BY DEF IInv, TypeOK
    <3> QED
      BY <2>2, <3>1, ScanRefines DEF Life!Next
  <2>3. ASSUME NEW p \in Prefixes, Emit(p)
        PROVE  Life!Next
    <3>1. UNCHANGED <<Witness, Raised>>
      BY <2>3 DEF Emit, Witness, Raised, Holds, Flagged, Tracked
    <3>2. Life!Report(p)
      BY <2>3, <3>1 DEF Emit, Life!Report, Witness, Raised
    <3> QED
      BY <3>2 DEF Life!Next
  <2>4. CASE Tick
    <3>1. \A p \in Prefixes : Tracked(p)' <=> Tracked(p)
      <4>1. ASSUME NEW p \in Prefixes, Tracked(p)
            PROVE  Tracked(p)'
        <5>1. routes[p] \in Entry
          BY <4>1 DEF IInv, TypeOK, Tracked
        <5>2. routes'[p] = [routes[p] EXCEPT !.fpmAge = Older(@)]
          BY <2>4, <4>1 DEF Tick
        <5>3. Older(routes[p].fpmAge) \in 0 .. Grace + 1
          BY <5>1, GraceAssumption DEF Older, Entry
        <5>4. routes'[p] \in Entry
          BY <5>1, <5>2, <5>3 DEF Entry
        <5> QED
          BY <5>4, NoEntryAssumption DEF Tracked
      <4>2. ASSUME NEW p \in Prefixes, ~Tracked(p)
            PROVE  ~Tracked(p)'
        BY <2>4, <4>2 DEF Tick, Tracked
      <4> QED
        BY <4>1, <4>2
    <3>2. \A p \in Prefixes : Tracked(p) =>
            /\ routes'[p].present = routes[p].present
            /\ routes'[p].flagged = routes[p].flagged
      BY <2>4 DEF Tick, Tracked, IInv, TypeOK, Entry
    <3>3. \A p \in Prefixes : /\ Flagged(p)' = Flagged(p)
                              /\ \A s \in Stages : Holds(p, s)' = Holds(p, s)
      BY <3>1, <3>2 DEF Flagged, Holds
    <3> QED
      BY <2>4, <3>3 DEF Witness, Raised, Tick
  <2>5. CASE UNCHANGED lineageVars
    BY <2>5 DEF lineageVars, Witness, Raised, Holds, Flagged, Tracked
  <2> QED
    BY <2>1, <2>2, <2>3, <2>4, <2>5 DEF Next
<1> QED
  BY <1>1, <1>2, IInvariant, PTL DEF Spec, ImplementsPrefixLife, Life!Spec


(***************************************************************************)
(* The tracker over the three planes: its testimony is current.            *)
(***************************************************************************)
(* The listings of a plane are finite.                                     *)
Finite == IsFiniteSet(Prefixes) /\ IsFiniteSet(Peers) /\ IsFiniteSet(Tables)

(* A finite set put into a sequence is all in it. *)
LEMMA SweptFacts ==
    ASSUME NEW S, IsFiniteSet(S)
    PROVE  /\ Seqs!SetToSeq(S) \in Seq(S)
           /\ \A x \in S : \E i \in 1 .. Len(Seqs!SetToSeq(S)) : Seqs!SetToSeq(S)[i] = x
<1> DEFINE n == Cardinality(S)
           f == Seqs!SetToSeq(S)
<1>1. n \in Nat /\ ExistsBijection(1 .. n, S)
  BY FS_CardinalityType
<1>2. PICK g \in Bijection(1 .. n, S) : TRUE
  BY <1>1 DEF ExistsBijection
<1>3. g \in [1 .. n -> S] /\ Seqs!IsInjective(g)
  BY <1>2 DEF Bijection, Injection, Seqs!IsInjective, IsInjective
<1>4. f \in [1 .. n -> S] /\ Seqs!IsInjective(f)
  <2>1. Seqs!Cardinality(S) = n
    BY Zenon DEF Seqs!Cardinality, Cardinality
  <2> QED BY <1>3, <2>1 DEF Seqs!SetToSeq
<1> HIDE DEF f
<1>5. f \in Injection(1 .. n, S)
  BY <1>4 DEF Injection, Seqs!IsInjective, IsInjective
<1>6. Cardinality(1 .. n) = n
  BY <1>1, FS_Interval
<1>7. f \in Surjection(1 .. n, S)
  BY <1>5, <1>6, FS_Injection
<1>8. f \in Seq(S) /\ Len(f) = n
  BY <1>1, <1>4
<1>9. \A x \in S : \E i \in 1 .. Len(f) : f[i] = x
  BY <1>7, <1>8 DEF Surjection
<1> QED BY <1>8, <1>9 DEF f

LEMMA SeqOfFunction ==
    ASSUME NEW S, NEW n \in Nat, NEW f \in [1 .. n -> S]
    PROVE  f \in Seq(S) /\ Len(f) = n
OBVIOUS

(* A listing speaks of the prefixes that have a holder, and of no other.   *)
LEMMA ListingFacts ==
    ASSUME Finite, NEW holders \in [Prefixes -> SUBSET (Peers \union Tables)], NEW b \in BOOLEAN
    PROVE  /\ Listing(Held(holders), b) \in Seq(Message)
           /\ \A i \in 1 .. Len(Listing(Held(holders), b)) :
                 /\ Listing(Held(holders), b)[i].present = b
                 /\ holders[Listing(Held(holders), b)[i].prefix] # {}
           /\ \A p \in Prefixes : holders[p] # {} =>
                 \E i \in 1 .. Len(Listing(Held(holders), b)) :
                    Listing(Held(holders), b)[i].prefix = p
<1> DEFINE H == Held(holders)
           s == Seqs!SetToSeq(H)
           L == Listing(H, b)
<1>1. IsFiniteSet(H)
  <2>1. IsFiniteSet(Peers \union Tables)
    BY FS_Union DEF Finite
  <2>2. IsFiniteSet(Prefixes \X (Peers \union Tables))
    BY <2>1, FS_Product DEF Finite
  <2> QED BY <2>2, FS_Subset DEF Held
<1>2. s \in Seq(H) /\ \A x \in H : \E i \in 1 .. Len(s) : s[i] = x
  BY <1>1, SweptFacts
<1>3. L = [i \in DOMAIN s |-> Change(s[i][1], b)]
  BY DEF Listing
<1> HIDE DEF s, L
<1>4. \A i \in 1 .. Len(s) : s[i][1] \in Prefixes /\ s[i][2] \in holders[s[i][1]]
  <2>1. ASSUME NEW i \in 1 .. Len(s) PROVE s[i] \in H
    BY <1>2
  <2> QED BY <2>1 DEF Held
<1>5. /\ L \in Seq(Message) /\ Len(L) = Len(s) /\ Len(s) \in Nat
      /\ \A i \in 1 .. Len(s) : L[i] = Change(s[i][1], b)
  <2>1. Len(s) \in Nat /\ DOMAIN s = 1 .. Len(s)
    BY <1>2
  <2>2. \A i \in 1 .. Len(s) : Change(s[i][1], b) \in Message
    BY <1>4 DEF Change, Message
  <2>3. L \in [1 .. Len(s) -> Message] /\ \A i \in 1 .. Len(s) : L[i] = Change(s[i][1], b)
    BY <1>3, <2>1, <2>2
  <2>4. L \in Seq(Message) /\ Len(L) = Len(s)
    BY <2>1, <2>3, SeqOfFunction
  <2> QED BY <2>1, <2>3, <2>4
<1>6. \A i \in 1 .. Len(s) : L[i].prefix = s[i][1] /\ L[i].present = b
  <2>1. \A p : Change(p, b).prefix = p /\ Change(p, b).present = b
    BY DEF Change
  <2> QED BY <1>5, <2>1
<1>7. \A i \in 1 .. Len(L) : L[i].present = b /\ holders[L[i].prefix] # {}
  BY <1>4, <1>5, <1>6
<1>8. ASSUME NEW p \in Prefixes, holders[p] # {} PROVE \E i \in 1 .. Len(L) : L[i].prefix = p
  <2>1. PICK t \in holders[p] : TRUE
    BY <1>8
  <2>2. <<p, t>> \in H
    BY <2>1 DEF Held
  <2>3. PICK i \in 1 .. Len(s) : s[i] = <<p, t>>
    BY <1>2, <2>2
  <2>4. s[i][1] = p
    BY <2>3
  <2> QED BY <1>5, <1>6, <2>4
<1> QED BY <1>5, <1>7, <1>8 DEF L

----------------------------------------------------------------------------
(* Types                                                                   *)

\* PlanesTypeOK without the tracker's own state; what is not made yet is empty,
\* nothing is read from it, and the kernel keeps its only channel.
RouterTypeOK ==
    /\ adv \in [Prefixes -> SUBSET Peers]
    /\ intent \in [Prefixes -> SUBSET Tables]
    /\ fib \in [Prefixes -> SUBSET Tables]
    /\ ends \in 0 .. MaxEnds
    /\ session \in [Stages -> 1 .. ends + 1]
    /\ wire \in [Stages -> [Connections -> Seq(Message)]]
    /\ changes \in 0 .. MaxChanges
    /\ told \in [Prefixes -> BOOLEAN]
    /\ said \in [Prefixes -> [Stages -> BOOLEAN]]
    /\ heard \in [Prefixes -> [Stages -> Connections]]
    /\ overtaken \subseteq Prefixes \X Stages
    /\ lost \subseteq Prefixes \X Stages

Made ==
    /\ session["kernel"] = 1
    /\ \A s \in Stages : /\ \A n \in Connections : n > session[s] => wire[s][n] = <<>>
                         /\ \A p \in Prefixes : heard[p][s] <= session[s]

\* What Say does to the channels, and to the last words.
Spoken(p, stages, b) ==
    /\ wire' \in [Stages -> [Connections -> Seq(Message)]]
    /\ \A s \in Stages : s \notin stages => wire'[s] = wire[s]
    /\ \A s \in stages, n \in Connections :
         wire'[s][n] = IF n = session[s] THEN Append(wire[s][n], Change(p, b)) ELSE wire[s][n]
    /\ said' \in [Prefixes -> [Stages -> BOOLEAN]]
    /\ \A q \in Prefixes, s \in Stages :
         said'[q][s] = IF q = p /\ s \in stages THEN b ELSE said[q][s]
    /\ lost' \subseteq lost
    /\ \A q \in Prefixes, s \in Stages : q # p \/ s \notin stages =>
         (<<q, s>> \in lost' <=> <<q, s>> \in lost)

LEMMA SayEffect ==
    ASSUME RouterTypeOK, NEW p \in Prefixes, NEW stages, stages \subseteq Stages, NEW b \in BOOLEAN,
           Say(p, stages, b)
    PROVE  Spoken(p, stages, b)
<1>1. Change(p, b) \in Message
  BY DEF Change, Message
<1>2. /\ wire \in [Stages -> [Connections -> Seq(Message)]]
      /\ said \in [Prefixes -> [Stages -> BOOLEAN]]
      /\ wire' = [s \in Stages |->
                  IF s \in stages
                    THEN [wire[s] EXCEPT ![session[s]] = Append(@, Change(p, b))]
                    ELSE wire[s]]
      /\ said' = [said EXCEPT ![p] = [s \in Stages |-> IF s \in stages THEN b ELSE @[s]]]
      /\ lost' = lost \ ({p} \X stages)
  BY DEF RouterTypeOK, Say
<1>3. ASSUME NEW s \in stages
      PROVE  /\ wire'[s] \in [Connections -> Seq(Message)]
             /\ \A n \in Connections :
                  wire'[s][n] = IF n = session[s] THEN Append(wire[s][n], Change(p, b)) ELSE wire[s][n]
  <2>1. wire'[s] = [wire[s] EXCEPT ![session[s]] = Append(@, Change(p, b))]
    BY <1>2
  <2>2. \A n \in Connections : Append(wire[s][n], Change(p, b)) \in Seq(Message)
    BY <1>1, <1>2
  <2> QED BY <1>2, <2>1, <2>2
<1>4. \A s \in Stages : s \notin stages => wire'[s] = wire[s]
  BY <1>2
<1>5. wire' \in [Stages -> [Connections -> Seq(Message)]]
  <2>1. \A s \in Stages : wire'[s] \in [Connections -> Seq(Message)]
    BY <1>2, <1>3, <1>4
  <2>2. wire' = [s \in Stages |-> wire'[s]]
    BY <1>2
  <2> QED BY <2>1, <2>2
<1>6. /\ said' \in [Prefixes -> [Stages -> BOOLEAN]]
      /\ \A q \in Prefixes, s \in Stages :
           said'[q][s] = IF q = p /\ s \in stages THEN b ELSE said[q][s]
  <2>1. [s \in Stages |-> IF s \in stages THEN b ELSE said[p][s]] \in [Stages -> BOOLEAN]
    BY <1>2
  <2> QED BY <1>2, <2>1
<1>7. /\ lost' \subseteq lost
      /\ \A q \in Prefixes, s \in Stages : q # p \/ s \notin stages =>
           (<<q, s>> \in lost' <=> <<q, s>> \in lost)
  BY <1>2
<1> QED BY <1>3, <1>4, <1>5, <1>6, <1>7 DEF Spoken

(* A connection that ends and its successor.                               *)
LEMMA RedialEffect ==
    ASSUME Finite, RouterTypeOK, NEW stage \in {"rib-in", "fpm"},
           NEW kept \in 0 .. Len(wire[stage][session[stage]]), Redial(stage, kept)
    PROVE  \E again \in Seq(Message) :
             /\ \A i \in 1 .. Len(again) : again[i].present /\ RouterHolds(again[i].prefix, stage)
             /\ \A p \in Prefixes : RouterHolds(p, stage) => \E i \in 1 .. Len(again) : again[i].prefix = p
             /\ wire' \in [Stages -> [Connections -> Seq(Message)]]
             /\ \A s \in Stages : s # stage => wire'[s] = wire[s]
             /\ \A n \in Connections :
                  wire'[stage][n] = IF n = session[stage] THEN SubSeq(wire[stage][n], 1, kept)
                                    ELSE IF n = session[stage] + 1 THEN again
                                    ELSE wire[stage][n]
             /\ said' \in [Prefixes -> [Stages -> BOOLEAN]]
             /\ \A p \in Prefixes, s \in Stages :
                  said'[p][s] <=> said[p][s] \/ (s = stage /\ RouterHolds(p, s))
<1> DEFINE holders == IF stage = "rib-in" THEN adv ELSE intent
           again == Listing(Held(holders), TRUE)
<1>0. /\ stage \in Stages /\ session[stage] \in Connections
      /\ session[stage] + 1 \in Connections /\ session[stage] \in Nat
  <2>1. ends + 1 \in 1 .. MaxEnds /\ MaxEnds \in Nat /\ ends \in Nat
    BY BoundsAssumption DEF Redial, Ending, RouterTypeOK
  <2>2. stage \in Stages
    BY DEF Stages
  <2>3. session[stage] \in 1 .. ends + 1
    BY <2>2 DEF RouterTypeOK
  <2> QED BY <2>1, <2>2, <2>3 DEF Connections
<1>1. holders \in [Prefixes -> SUBSET (Peers \union Tables)]
  BY DEF RouterTypeOK
<1>2. \A p \in Prefixes : RouterHolds(p, stage) <=> holders[p] # {}
  BY DEF RouterHolds
<1>3. /\ again \in Seq(Message)
      /\ \A i \in 1 .. Len(again) : again[i].present = TRUE /\ holders[again[i].prefix] # {}
      /\ \A p \in Prefixes : holders[p] # {} => \E i \in 1 .. Len(again) : again[i].prefix = p
  BY <1>1, ListingFacts
<1> DEFINE w == wire[stage]
           c == session[stage]
           cut == SubSeq(w[c], 1, kept)
           new == [w EXCEPT ![c] = cut, ![c + 1] = again]
<1>4. /\ wire' = [wire EXCEPT ![stage][c] = cut, ![stage][c + 1] = again]
      /\ said' = [p \in Prefixes |-> [said[p] EXCEPT ![stage] = said[p][stage] \/ RouterHolds(p, stage)]]
  BY DEF Redial
<1> HIDE DEF again, holders
<1>5. wire \in [Stages -> [Connections -> Seq(Message)]]
  BY DEF RouterTypeOK
<1>6. /\ w \in [Connections -> Seq(Message)]
      /\ c \in Connections /\ c + 1 \in Connections /\ c # c + 1
  BY <1>0, <1>5
<1>7. cut \in Seq(Message)
  <2>1. w[c] \in Seq(Message)
    BY <1>6
  <2> QED BY <2>1
<1> HIDE DEF w, c, cut
<1>8. /\ new \in [Connections -> Seq(Message)]
      /\ \A n \in Connections :
           new[n] = IF n = c THEN cut ELSE IF n = c + 1 THEN again ELSE w[n]
  BY <1>3, <1>6, <1>7
<1> HIDE DEF new
<1>9. /\ wire' \in [Stages -> [Connections -> Seq(Message)]]
      /\ \A s \in Stages : s # stage => wire'[s] = wire[s]
      /\ wire'[stage] = new
  <2>1. wire' = [wire EXCEPT ![stage] = new]
    BY <1>0, <1>4, <1>5, <1>6 DEF new, w
  <2> QED BY <1>0, <1>5, <1>8, <2>1
<1>10. \A n \in Connections :
         wire'[stage][n] = IF n = session[stage] THEN SubSeq(wire[stage][n], 1, kept)
                           ELSE IF n = session[stage] + 1 THEN again
                           ELSE wire[stage][n]
  BY <1>8, <1>9 DEF w, c, cut
<1>11. /\ said' \in [Prefixes -> [Stages -> BOOLEAN]]
       /\ \A p \in Prefixes, s \in Stages :
            said'[p][s] <=> said[p][s] \/ (s = stage /\ RouterHolds(p, s))
  <2>1. said \in [Prefixes -> [Stages -> BOOLEAN]]
    BY DEF RouterTypeOK
  <2>2. ASSUME NEW p \in Prefixes
        PROVE  /\ said'[p] \in [Stages -> BOOLEAN]
               /\ \A s \in Stages : said'[p][s] <=> said[p][s] \/ (s = stage /\ RouterHolds(p, s))
    <3>1. said[p] \in [Stages -> BOOLEAN]
      BY <2>1
    <3>2. PICK b \in BOOLEAN : b <=> (said[p][stage] \/ RouterHolds(p, stage))
      OBVIOUS
    <3>3. said'[p] = [said[p] EXCEPT ![stage] = b]
      <4>1. said'[p] = [said[p] EXCEPT ![stage] = said[p][stage] \/ RouterHolds(p, stage)]
        BY <1>4, Zenon
      <4>2. (said[p][stage] \/ RouterHolds(p, stage)) = b
        BY <3>2
      <4> QED BY <4>1, <4>2
    <3> QED BY <1>0, <3>1, <3>2, <3>3
  <2>3. said' = [p \in Prefixes |-> said'[p]]
    BY <1>4
  <2> QED BY <2>2, <2>3
<1>12. \A i \in 1 .. Len(again) : again[i].present /\ RouterHolds(again[i].prefix, stage)
  <2>1. \A p : RouterHolds(p, stage) <=> holders[p] # {}
    BY DEF RouterHolds, holders
  <2> QED BY <1>3, <2>1
<1> QED BY <1>2, <1>3, <1>9, <1>10, <1>11, <1>12


(* zebra's restart: its connection ends, and the kernel is swept.          *)
LEMMA RestartEffect ==
    ASSUME Finite, RouterTypeOK, Made,
           NEW kept \in 0 .. Len(wire["fpm"][session["fpm"]]), ZebraRestart(kept)
    PROVE  \E sweep \in Seq(Message) :
             /\ \A i \in 1 .. Len(sweep) : ~sweep[i].present /\ fib[sweep[i].prefix] # {}
             /\ \A p \in Prefixes : fib[p] # {} => \E i \in 1 .. Len(sweep) : sweep[i].prefix = p
             /\ wire' \in [Stages -> [Connections -> Seq(Message)]]
             /\ wire'["rib-in"] = wire["rib-in"]
             /\ \A n \in Connections :
                  /\ wire'["fpm"][n] = IF n = session["fpm"] THEN SubSeq(wire["fpm"][n], 1, kept)
                                                             ELSE wire["fpm"][n]
                  /\ wire'["kernel"][n] = IF n = 1 THEN wire["kernel"][n] \o sweep
                                                   ELSE wire["kernel"][n]
             /\ said' \in [Prefixes -> [Stages -> BOOLEAN]]
             /\ \A p \in Prefixes, s \in Stages :
                  said'[p][s] <=> said[p][s] /\ (s = "kernel" => fib[p] = {})
<1> DEFINE sweep == Listing(Held(fib), FALSE)
           c == session["fpm"]
           w == wire["fpm"]
           k == wire["kernel"]
           cut == SubSeq(w[c], 1, kept)
           longer == k[1] \o sweep
<1>0. /\ {"rib-in", "fpm", "kernel"} \subseteq Stages
      /\ c \in Connections /\ 1 \in Connections
  <2>1. ends + 1 \in 1 .. MaxEnds /\ MaxEnds \in Nat /\ ends \in Nat
    BY BoundsAssumption DEF ZebraRestart, Ending, RouterTypeOK
  <2>2. "fpm" \in Stages
    BY DEF Stages
  <2>3. c \in 1 .. ends + 1
    BY <2>2 DEF RouterTypeOK
  <2> QED BY <2>1, <2>3 DEF Connections, Stages
<1>1. fib \in [Prefixes -> SUBSET (Peers \union Tables)]
  BY DEF RouterTypeOK
<1>2. /\ sweep \in Seq(Message)
      /\ \A i \in 1 .. Len(sweep) : sweep[i].present = FALSE /\ fib[sweep[i].prefix] # {}
      /\ \A p \in Prefixes : fib[p] # {} => \E i \in 1 .. Len(sweep) : sweep[i].prefix = p
  BY <1>1, ListingFacts
<1>3. /\ wire' = [wire EXCEPT !["fpm"][c] = cut, !["kernel"][1] = longer]
      /\ said' = [p \in Prefixes |-> [said[p] EXCEPT !["kernel"] = said[p]["kernel"] /\ fib[p] = {}]]
  BY DEF ZebraRestart
<1> HIDE DEF sweep
<1>4. wire \in [Stages -> [Connections -> Seq(Message)]]
  BY DEF RouterTypeOK
<1>5. w \in [Connections -> Seq(Message)] /\ k \in [Connections -> Seq(Message)]
  BY <1>0, <1>4
<1>6. cut \in Seq(Message) /\ longer \in Seq(Message)
  <2>1. w[c] \in Seq(Message) /\ k[1] \in Seq(Message)
    BY <1>0, <1>5
  <2> QED BY <1>2, <2>1
<1> DEFINE w2 == [w EXCEPT ![c] = cut]
           k2 == [k EXCEPT ![1] = longer]
<1> HIDE DEF c, cut, longer
<1>7. /\ wire' = [wire EXCEPT !["fpm"] = w2, !["kernel"] = k2]
      /\ w2 \in [Connections -> Seq(Message)] /\ k2 \in [Connections -> Seq(Message)]
      /\ \A n \in Connections : /\ w2[n] = IF n = c THEN cut ELSE w[n]
                                /\ k2[n] = IF n = 1 THEN longer ELSE k[n]
  BY <1>0, <1>3, <1>4, <1>5, <1>6
<1> HIDE DEF w2, k2
<1>8. /\ wire' \in [Stages -> [Connections -> Seq(Message)]]
      /\ wire'["rib-in"] = wire["rib-in"] /\ wire'["fpm"] = w2 /\ wire'["kernel"] = k2
  BY <1>0, <1>4, <1>7
<1>9. \A n \in Connections :
         /\ wire'["fpm"][n] = IF n = session["fpm"] THEN SubSeq(wire["fpm"][n], 1, kept)
                                                    ELSE wire["fpm"][n]
         /\ wire'["kernel"][n] = IF n = 1 THEN wire["kernel"][n] \o sweep ELSE wire["kernel"][n]
  BY <1>7, <1>8 DEF c, cut, longer
<1>10. /\ said' \in [Prefixes -> [Stages -> BOOLEAN]]
       /\ \A p \in Prefixes, s \in Stages :
            said'[p][s] <=> said[p][s] /\ (s = "kernel" => fib[p] = {})
  <2>1. said \in [Prefixes -> [Stages -> BOOLEAN]]
    BY DEF RouterTypeOK
  <2>2. ASSUME NEW p \in Prefixes
        PROVE  /\ said'[p] \in [Stages -> BOOLEAN]
               /\ \A s \in Stages : said'[p][s] <=> said[p][s] /\ (s = "kernel" => fib[p] = {})
    <3>1. said[p] \in [Stages -> BOOLEAN]
      BY <2>1
    <3>2. PICK b \in BOOLEAN : b <=> (said[p]["kernel"] /\ fib[p] = {})
      OBVIOUS
    <3>3. said'[p] = [said[p] EXCEPT !["kernel"] = b]
      <4>1. said'[p] = [said[p] EXCEPT !["kernel"] = said[p]["kernel"] /\ fib[p] = {}]
        BY <1>3, Zenon
      <4>2. (said[p]["kernel"] /\ fib[p] = {}) = b
        BY <3>2
      <4> QED BY <4>1, <4>2
    <3> QED BY <1>0, <3>1, <3>2, <3>3
  <2>3. said' = [p \in Prefixes |-> said'[p]]
    BY <1>3
  <2> QED BY <2>2, <2>3
<1> QED BY <1>2, <1>8, <1>9, <1>10

LEMMA RouterTypes ==
    ASSUME Finite, RouterTypeOK, Made, [PlanesNext]_vars PROVE RouterTypeOK' /\ Made'
<1>0. /\ MaxChanges \in Nat /\ MaxEnds \in Nat
      /\ changes \in 0 .. MaxChanges /\ ends \in 0 .. MaxEnds
      /\ session \in [Stages -> 1 .. ends + 1]
      /\ Changing => changes' \in 0 .. MaxChanges
      /\ Ending => ends' \in 0 .. MaxEnds /\ ends' = ends + 1
      /\ wire \in [Stages -> [Connections -> Seq(Message)]]
      /\ {"rib-in", "fpm", "kernel"} \subseteq Stages
      /\ lost \subseteq Prefixes \X Stages /\ overtaken \subseteq Prefixes \X Stages
  <2>1. MaxChanges \in Nat /\ MaxEnds \in Nat /\ changes \in 0 .. MaxChanges /\ ends \in 0 .. MaxEnds
    BY BoundsAssumption DEF RouterTypeOK
  <2>2. Changing => changes' \in 0 .. MaxChanges
    BY <2>1 DEF Changing
  <2>3. Ending => ends' \in 0 .. MaxEnds /\ ends' = ends + 1
    BY <2>1 DEF Ending
  <2> QED BY <2>1, <2>2, <2>3 DEF RouterTypeOK, Stages
<1>1. ASSUME NEW p \in Prefixes, NEW stages, stages \subseteq Stages, NEW b \in BOOLEAN,
             Changing, Say(p, stages, b), UnchangedShim,
             adv' \in [Prefixes -> SUBSET Peers], intent' \in [Prefixes -> SUBSET Tables],
             fib' \in [Prefixes -> SUBSET Tables]
      PROVE  RouterTypeOK' /\ Made'
  <2>1. /\ wire' \in [Stages -> [Connections -> Seq(Message)]]
        /\ said' \in [Prefixes -> [Stages -> BOOLEAN]] /\ lost' \subseteq lost
        /\ \A s \in Stages : s \notin stages => wire'[s] = wire[s]
        /\ \A s \in stages, n \in Connections : n # session[s] => wire'[s][n] = wire[s][n]
    <3>1. Spoken(p, stages, b)
      BY <1>1, SayEffect, Zenon
    <3> QED BY <3>1 DEF Spoken
  <2>2. UNCHANGED <<session, ends, told, heard, overtaken>>
    BY <1>1 DEF Changing, UnchangedShim
  <2>3. RouterTypeOK'
    BY <1>0, <1>1, <2>1, <2>2 DEF RouterTypeOK
  <2>4. Made'
    <3>1. ASSUME NEW s \in Stages, NEW n \in Connections, n > session[s] PROVE wire'[s][n] = <<>>
      <4>1. session[s] \in Nat /\ n # session[s]
        BY <1>0, <3>1
      <4>2. wire'[s][n] = wire[s][n]
        BY <2>1, <4>1
      <4> QED BY <3>1, <4>2 DEF Made
    <3> QED BY <2>2, <3>1 DEF Made
  <2> QED BY <2>3, <2>4
<1>2. ASSUME NEW p \in Prefixes, NEW peer \in Peers, Advertise(p, peer) \/ Withdraw(p, peer)
      PROVE  RouterTypeOK' /\ Made'
  <2>1. \E b \in BOOLEAN : Say(p, {"rib-in"}, b)
    BY <1>2 DEF Advertise, Withdraw
  <2>2. Changing /\ UnchangedShim /\ UNCHANGED <<intent, fib>>
    BY <1>2 DEF Advertise, Withdraw
  <2>3. adv' \in [Prefixes -> SUBSET Peers]
    <3>1. adv \in [Prefixes -> SUBSET Peers]
      BY DEF RouterTypeOK
    <3>2. CASE Advertise(p, peer)
      BY <3>1, <3>2 DEF Advertise
    <3>3. CASE Withdraw(p, peer)
      BY <3>1, <3>3 DEF Withdraw
    <3> QED BY <1>2, <3>2, <3>3
  <2>4. {"rib-in"} \subseteq Stages
    BY DEF Stages
  <2> QED BY <1>1, <2>1, <2>2, <2>3, <2>4 DEF RouterTypeOK
<1>3. ASSUME NEW peer \in Peers, PeerDown(peer) PROVE RouterTypeOK' /\ Made'
  <2>1. adv' \in [Prefixes -> SUBSET Peers]
    BY <1>3 DEF PeerDown, RouterTypeOK
  <2>2. session \in [Stages -> 1 .. ends' + 1]
    BY <1>0, <1>3 DEF PeerDown
  <2> QED BY <1>0, <1>3, <2>1, <2>2 DEF PeerDown, Ending, UnchangedShim, RouterTypeOK, Made
<1>4. ASSUME NEW p \in Prefixes, NEW table \in Tables,
             (\E installed \in BOOLEAN : Push(p, table, installed)) \/ Remove(p, table)
      PROVE  RouterTypeOK' /\ Made'
  <2>1. \E stages : stages \subseteq Stages /\ \E b \in BOOLEAN : Say(p, stages, b)
    <3>1. {"fpm"} \subseteq Stages /\ {"fpm", "kernel"} \subseteq Stages
      BY DEF Stages
    <3> QED BY <1>4, <3>1 DEF Push, Remove
  <2>2. Changing /\ UnchangedShim /\ UNCHANGED adv
    BY <1>4 DEF Push, Remove
  <2>3. intent' \in [Prefixes -> SUBSET Tables] /\ fib' \in [Prefixes -> SUBSET Tables]
    <3>1. ASSUME NEW installed \in BOOLEAN, Push(p, table, installed)
          PROVE  intent' \in [Prefixes -> SUBSET Tables] /\ fib' \in [Prefixes -> SUBSET Tables]
      BY <3>1 DEF Push, RouterTypeOK
    <3>2. CASE Remove(p, table)
      BY <3>2 DEF Remove, RouterTypeOK
    <3> QED BY <1>4, <3>1, <3>2
  <2> QED BY <1>1, <2>1, <2>2, <2>3 DEF RouterTypeOK
<1>5. ASSUME NEW stage \in {"rib-in", "fpm"},
             NEW kept \in 0 .. Len(wire[stage][session[stage]]), Redial(stage, kept)
      PROVE  RouterTypeOK' /\ Made'
  <2>0. /\ stage \in Stages /\ stage # "kernel"
        /\ session' = [session EXCEPT ![stage] = @ + 1] /\ Ending
        /\ UNCHANGED <<adv, intent, fib, changes, told, heard, overtaken>>
    BY <1>5 DEF Redial, UnchangedShim, Ending, Stages
  <2>1. /\ wire' \in [Stages -> [Connections -> Seq(Message)]]
        /\ said' \in [Prefixes -> [Stages -> BOOLEAN]]
        /\ \A s \in Stages : s # stage => wire'[s] = wire[s]
        /\ \A n \in Connections : n \notin {session[stage], session[stage] + 1}
             => wire'[stage][n] = wire[stage][n]
    BY <1>5, RedialEffect
  <2>2. \A s \in Stages : /\ session[s] \in 1 .. ends + 1 /\ session[s] \in Nat
                          /\ session'[s] = IF s = stage THEN session[s] + 1 ELSE session[s]
    BY <1>0, <2>0
  <2>3. session' \in [Stages -> 1 .. ends' + 1]
    <3>1. \A s \in Stages : session'[s] \in 1 .. ends' + 1
      BY <1>0, <2>0, <2>2
    <3> QED BY <1>0, <2>0, <3>1
  <2>4. lost' \subseteq Prefixes \X Stages
    <3>1. CutOff(stage, kept) \subseteq Prefixes \X Stages
      <4>1. session[stage] \in Connections
        BY <1>0, <2>0, <2>2 DEF Connections
      <4>2. wire[stage][session[stage]] \in Seq(Message)
        BY <1>0, <2>0, <4>1
      <4>3. \A i \in kept + 1 .. Len(wire[stage][session[stage]]) :
              wire[stage][session[stage]][i] \in Message
        BY <4>2
      <4> QED BY <2>0, <4>3 DEF CutOff, Message
    <3> QED BY <1>0, <1>5, <3>1 DEF Redial
  <2>5. Made'
    <3>1. ASSUME NEW s \in Stages, NEW n \in Connections, n > session'[s] PROVE wire'[s][n] = <<>>
      <4>1. n > session[s] /\ n \in Nat
        BY <2>2, <3>1 DEF Connections
      <4>2. wire'[s][n] = wire[s][n]
        <5>1. CASE s = stage
          BY <2>1, <2>2, <3>1, <4>1, <5>1
        <5>2. CASE s # stage
          BY <2>1, <5>2
        <5> QED BY <5>1, <5>2
      <4> QED BY <3>1, <4>1, <4>2 DEF Made
    <3>2. ASSUME NEW s \in Stages, NEW p \in Prefixes PROVE heard'[p][s] <= session'[s]
      <4>1. heard[p][s] \in Nat
        BY DEF RouterTypeOK, Connections
      <4> QED BY <2>0, <2>2, <4>1 DEF Made
    <3>3. session'["kernel"] = 1
      BY <1>0, <2>0, <2>2 DEF Made
    <3> QED BY <3>1, <3>2, <3>3 DEF Made
  <2>6. RouterTypeOK'
    BY <1>0, <2>0, <2>1, <2>3, <2>4 DEF RouterTypeOK
  <2> QED BY <2>5, <2>6
<1>6. ASSUME NEW kept \in 0 .. Len(wire["fpm"][session["fpm"]]), ZebraRestart(kept)
      PROVE  RouterTypeOK' /\ Made'
  <2>0. /\ session' = [session EXCEPT !["fpm"] = @ + 1] /\ Ending
        /\ intent' = [p \in Prefixes |-> {}] /\ fib' = [p \in Prefixes |-> {}]
        /\ UNCHANGED <<adv, changes, told, heard, overtaken>>
    BY <1>6 DEF ZebraRestart, UnchangedShim, Ending
  <2>1. /\ wire' \in [Stages -> [Connections -> Seq(Message)]]
        /\ said' \in [Prefixes -> [Stages -> BOOLEAN]]
        /\ wire'["rib-in"] = wire["rib-in"]
        /\ \A n \in Connections : /\ n # session["fpm"] => wire'["fpm"][n] = wire["fpm"][n]
                                  /\ n # 1 => wire'["kernel"][n] = wire["kernel"][n]
    BY <1>6, RestartEffect
  <2>2. \A s \in Stages : /\ session[s] \in 1 .. ends + 1 /\ session[s] \in Nat
                          /\ session'[s] = IF s = "fpm" THEN session[s] + 1 ELSE session[s]
    BY <1>0, <2>0
  <2>3. session' \in [Stages -> 1 .. ends' + 1]
    <3>1. \A s \in Stages : session'[s] \in 1 .. ends' + 1
      BY <1>0, <2>0, <2>2
    <3> QED BY <1>0, <2>0, <3>1
  <2>4. lost' \subseteq Prefixes \X Stages
    <3>1. CutOff("fpm", kept) \subseteq Prefixes \X Stages
      <4>1. session["fpm"] \in Connections
        BY <1>0, <2>0, <2>2 DEF Connections
      <4>2. wire["fpm"][session["fpm"]] \in Seq(Message)
        BY <1>0, <4>1
      <4>3. \A i \in kept + 1 .. Len(wire["fpm"][session["fpm"]]) :
              wire["fpm"][session["fpm"]][i] \in Message
        BY <4>2
      <4> QED BY <1>0, <4>3 DEF CutOff, Message
    <3> QED BY <1>0, <1>6, <3>1 DEF ZebraRestart
  <2>5. Made'
    <3>1. ASSUME NEW s \in Stages, NEW n \in Connections, n > session'[s] PROVE wire'[s][n] = <<>>
      <4>1. n > session[s] /\ n # session[s] /\ n \in Nat
        BY <2>2, <3>1 DEF Connections
      <4>2. wire'[s][n] = wire[s][n]
        <5>1. s = "kernel" => n # 1
          BY <4>1 DEF Made
        <5> QED BY <2>1, <4>1, <5>1 DEF Stages
      <4> QED BY <3>1, <4>1, <4>2 DEF Made
    <3>2. ASSUME NEW s \in Stages, NEW p \in Prefixes PROVE heard'[p][s] <= session'[s]
      <4>1. heard[p][s] \in Nat
        BY DEF RouterTypeOK, Connections
      <4> QED BY <2>0, <2>2, <4>1 DEF Made
    <3>3. session'["kernel"] = 1
      BY <1>0, <2>2 DEF Made
    <3> QED BY <3>1, <3>2, <3>3 DEF Made
  <2>6. RouterTypeOK'
    BY <1>0, <2>0, <2>1, <2>3, <2>4 DEF RouterTypeOK
  <2> QED BY <2>5, <2>6
<1>7. ASSUME NEW stage \in Stages, NEW n \in Connections, NEW proto \in Protos,
             Deliver(stage, n, proto)
      PROVE  RouterTypeOK' /\ Made'
  <2> DEFINE w == wire[stage][n]
             p == Head(w).prefix
  <2>1. /\ w \in Seq(Message) /\ w # <<>> /\ wire' = [wire EXCEPT ![stage][n] = Tail(w)]
        /\ heard' = heard \/ (~(n < heard[p][stage]) /\ heard' = [heard EXCEPT ![p][stage] = n])
        /\ overtaken' \in {overtaken \union {<<p, stage>>}, overtaken \ {<<p, stage>>}}
        /\ told' = [q \in Prefixes |-> told[q] /\ RowGap(q)' = "install-gap"]
        /\ UNCHANGED routerVars
    BY <1>0, <1>7 DEF Deliver
  <2>2. Tail(w) \in Seq(Message) /\ p \in Prefixes
    <3> HIDE DEF w
    <3>1. Head(w) \in Message /\ Tail(w) \in Seq(Message)
      BY <2>1
    <3> QED BY <3>1 DEF Message
  <2> HIDE DEF p
  <2>3. wire' \in [Stages -> [Connections -> Seq(Message)]]
    BY <1>0, <2>1, <2>2
  <2>4. told' \in [Prefixes -> BOOLEAN]
    <3>1. \A q \in Prefixes : (told[q] /\ RowGap(q)' = "install-gap") \in BOOLEAN
      OBVIOUS
    <3> QED BY <2>1, <3>1, Zenon
  <2>5. /\ heard' \in [Prefixes -> [Stages -> Connections]]
        /\ \A s \in Stages, q \in Prefixes :
             heard'[q][s] = heard[q][s] \/ (s = stage /\ heard'[q][s] = n)
    <3>1. heard \in [Prefixes -> [Stages -> Connections]]
      BY DEF RouterTypeOK
    <3>2. CASE heard' = heard
      BY <3>1, <3>2
    <3>3. CASE heard' = [heard EXCEPT ![p][stage] = n]
      <4>1. \A q \in Prefixes : heard'[q] = IF q = p THEN [heard[p] EXCEPT ![stage] = n] ELSE heard[q]
        BY <2>2, <3>1, <3>3
      <4>2. [heard[p] EXCEPT ![stage] = n] \in [Stages -> Connections]
        BY <2>2, <3>1
      <4>3. heard' \in [Prefixes -> [Stages -> Connections]]
        BY <2>2, <3>1, <3>3, <4>2
      <4> QED BY <2>2, <3>1, <4>1, <4>3
    <3> QED BY <2>1, <3>2, <3>3
  <2>6. overtaken' \subseteq Prefixes \X Stages
    BY <1>0, <2>1, <2>2
  <2>7. \A s \in Stages, k \in Connections : wire[s][k] = <<>> => wire'[s][k] = <<>>
    BY <1>0, <2>1
  <2>8. n <= session[stage]
    <3>1. session[stage] \in Nat /\ n \in Nat
      BY <1>0 DEF Connections
    <3> QED BY <2>1, <3>1 DEF Made
  <2>9. RouterTypeOK'
    BY <2>1, <2>3, <2>4, <2>5, <2>6 DEF routerVars, RouterTypeOK
  <2>10. Made'
    <3>1. \A s \in Stages, q \in Prefixes : heard'[q][s] <= session[s]
      BY <2>5, <2>8 DEF Made
    <3> QED BY <2>1, <2>7, <3>1 DEF routerVars, Made
  <2> QED BY <2>9, <2>10
<1>8. CASE TrackerScan \/ Clock
  BY <1>8 DEF TrackerScan, Clock, routerVars, RouterTypeOK, Made
<1>9. ASSUME NEW p \in Prefixes, TrackerEmit(p) PROVE RouterTypeOK' /\ Made'
  <2>1. told' \in [Prefixes -> BOOLEAN]
    BY <1>9 DEF TrackerEmit, RouterTypeOK
  <2> QED BY <1>9, <2>1 DEF TrackerEmit, routerVars, RouterTypeOK, Made
<1>10. CASE UNCHANGED vars
  BY <1>10 DEF vars, routerVars, RouterTypeOK, Made
<1> QED BY <1>2, <1>3, <1>4, <1>5, <1>6, <1>7, <1>8, <1>9, <1>10 DEF PlanesNext, Router

(* Every step of the composition is a step of the tracker or leaves it     *)
(* alone, so that all that is proved of Lineage holds of LineagePlanes.    *)
LEMMA PlanesStep == ASSUME RouterTypeOK, [PlanesNext]_vars PROVE [Next]_lineageVars
<1>1. ASSUME NEW stage \in Stages, NEW n \in Connections, NEW proto \in Protos,
             Deliver(stage, n, proto)
      PROVE  Next
  <2>1. Head(wire[stage][n]) \in Message
    <3>1. wire[stage][n] \in Seq(Message) /\ wire[stage][n] # <<>>
      BY <1>1 DEF Deliver, RouterTypeOK
    <3> QED BY <3>1
  <2>2. /\ Observe(Head(wire[stage][n]).prefix, stage, Head(wire[stage][n]).present, proto)
        /\ Head(wire[stage][n]).prefix \in Prefixes /\ Head(wire[stage][n]).present \in BOOLEAN
    BY <1>1, <2>1 DEF Deliver, Message
  <2> QED BY <2>2 DEF Next
<1>2. CASE Router
  BY <1>2 DEF Router, Advertise, Withdraw, PeerDown, Push, Remove, Redial, ZebraRestart, UnchangedShim
<1>3. CASE TrackerScan
  BY <1>3 DEF TrackerScan, Next
<1>4. ASSUME NEW p \in Prefixes, TrackerEmit(p) PROVE Next
  BY <1>4 DEF TrackerEmit, Next
<1>5. CASE Clock
  BY <1>5 DEF Clock, Next
<1>6. CASE UNCHANGED vars
  BY <1>6 DEF vars
<1> QED BY <1>1, <1>2, <1>3, <1>4, <1>5, <1>6 DEF PlanesNext

(* The tracker under its three planes is the tracker of Lineage: what is   *)
(* proved there of all sequences of calls holds here.                      *)
THEOREM PlanesImplementLineage ==
    ASSUME Finite PROVE PlanesSpec => Spec /\ []RouterTypeOK /\ []Made
<1>1. PlanesInit => Init /\ RouterTypeOK /\ Made
  <2> SUFFICES ASSUME PlanesInit PROVE Init /\ RouterTypeOK /\ Made
    OBVIOUS
  <2>1. changes \in 0 .. MaxChanges /\ ends \in 0 .. MaxEnds /\ 1 \in 1 .. ends + 1
        /\ 1 \in Connections
    BY BoundsAssumption DEF PlanesInit, Connections
  <2>2. <<>> \in Seq(Message)
    OBVIOUS
  <2>3. wire \in [Stages -> [Connections -> Seq(Message)]]
    BY <2>2 DEF PlanesInit
  <2>4. Made
    BY DEF PlanesInit, Made, Stages
  <2> QED BY <2>1, <2>3, <2>4 DEF PlanesInit, RouterTypeOK
<1>2. RouterTypeOK /\ Made /\ [PlanesNext]_vars => RouterTypeOK' /\ Made' /\ [Next]_lineageVars
  BY RouterTypes, PlanesStep
<1> QED BY <1>1, <1>2, PTL DEF PlanesSpec, Spec

(* The tracker's type under the planes. *)
THEOREM PlanesTypeCorrect == ASSUME Finite PROVE PlanesSpec => []PlanesTypeOK
<1>1. TypeOK /\ RouterTypeOK => PlanesTypeOK
  BY DEF RouterTypeOK, PlanesTypeOK
<1> QED BY <1>1, PlanesImplementLineage, TypeCorrect, PTL


----------------------------------------------------------------------------
(* TestimonyIsCurrent speaks of settled prefixes.  Of one that is not, the *)
(* newest connection that mentions it ends, for that prefix, in the        *)
(* plane's last word, if that word was not lost: what was read from older  *)
(* connections does not matter to what is still to come from newer ones.   *)
Mute(w, p) == \A i \in 1 .. Len(w) : w[i].prefix # p

LastWord(w, p, b) ==
    \A i \in 1 .. Len(w) :
        w[i].prefix = p /\ (\A j \in i + 1 .. Len(w) : w[j].prefix # p)
            => (w[i].present <=> b)

EndsIn(p, s, b) ==
    \A n \in Connections :
        (/\ n >= heard[p][s] /\ ~Mute(wire[s][n], p)
         /\ \A k \in Connections : k > n => Mute(wire[s][k], p))
            => LastWord(wire[s][n], p, b)

Quiet(p, s) == \A n \in Connections : n >= heard[p][s] => Mute(wire[s][n], p)

Testimony(p, s) ==
    <<p, s>> \notin lost =>
        /\ EndsIn(p, s, said[p][s])
        /\ Quiet(p, s) /\ <<p, s>> \notin overtaken => (Holds(p, s) <=> said[p][s])

\* A plane that no peer, no connection and no zebra has left says what it holds,
\* and the kernel always does.
Truthful(p, s) == (s = "kernel" \/ ends = 0) /\ said[p][s] => RouterHolds(p, s)

AllCurrent == \A p \in Prefixes, s \in Stages : Testimony(p, s) /\ Truthful(p, s)

LEMMA AppendWord ==
    ASSUME NEW w \in Seq(Message), NEW p \in Prefixes, NEW b \in BOOLEAN
    PROVE  /\ LastWord(Append(w, Change(p, b)), p, b) /\ ~Mute(Append(w, Change(p, b)), p)
           /\ \A q \in Prefixes : q # p =>
                 /\ \A c : LastWord(w, q, c) => LastWord(Append(w, Change(p, b)), q, c)
                 /\ Mute(Append(w, Change(p, b)), q) <=> Mute(w, q)
<1> DEFINE m == Change(p, b)
           v == Append(w, m)
<1>1. m.prefix = p /\ m.present = b /\ m \in Message
  BY DEF Change, Message
<1> HIDE DEF m
<1>2. /\ Len(w) \in Nat /\ Len(v) = Len(w) + 1 /\ v[Len(w) + 1] = m
      /\ \A i \in 1 .. Len(w) : v[i] = w[i]
  BY <1>1
<1> HIDE DEF v
<1>3. LastWord(v, p, b) /\ ~Mute(v, p)
  <2>1. Len(v) \in 1 .. Len(v) /\ v[Len(v)].prefix = p /\ (v[Len(v)].present <=> b)
    BY <1>1, <1>2
  <2>2. ASSUME NEW i \in 1 .. Len(v), v[i].prefix = p,
               \A j \in i + 1 .. Len(v) : v[j].prefix # p
        PROVE  v[i].present <=> b
    <3>1. i = Len(v)
      BY <1>2, <2>1, <2>2
    <3> QED BY <2>1, <3>1
  <2> QED BY <2>1, <2>2 DEF LastWord, Mute
<1>4. ASSUME NEW q \in Prefixes, q # p
      PROVE  /\ \A c : LastWord(w, q, c) => LastWord(v, q, c)
             /\ Mute(v, q) <=> Mute(w, q)
  <2>1. ASSUME NEW c, LastWord(w, q, c), NEW i \in 1 .. Len(v), v[i].prefix = q,
               \A j \in i + 1 .. Len(v) : v[j].prefix # q
        PROVE  v[i].present <=> c
    <3>1. i \in 1 .. Len(w) /\ v[i] = w[i]
      BY <1>1, <1>2, <1>4, <2>1
    <3>2. \A j \in i + 1 .. Len(w) : w[j].prefix # q
      BY <1>2, <2>1, <3>1
    <3> QED BY <2>1, <3>1, <3>2 DEF LastWord
  <2>2. Mute(v, q) <=> Mute(w, q)
    <3>1. \A i \in 1 .. Len(v) : i \in 1 .. Len(w) \/ v[i] = m
      BY <1>2
    <3>2. \A i \in 1 .. Len(w) : i \in 1 .. Len(v)
      BY <1>2
    <3> QED BY <1>1, <1>2, <1>4, <3>1, <3>2 DEF Mute
  <2> QED BY <2>1, <2>2 DEF LastWord
<1> QED BY <1>3, <1>4 DEF v, m

LEMMA TailWord ==
    ASSUME NEW w \in Seq(Message), w # <<>>, NEW q, NEW c
    PROVE  /\ LastWord(w, q, c) => LastWord(Tail(w), q, c)
           /\ Mute(Tail(w), q) /\ Head(w).prefix # q => Mute(w, q)
           /\ Mute(w, q) => Mute(Tail(w), q) /\ Head(w).prefix # q
           /\ Mute(Tail(w), q) /\ Head(w).prefix = q /\ LastWord(w, q, c)
                 => (Head(w).present <=> c)
<1> DEFINE v == Tail(w)
<1>1. /\ Len(w) \in Nat \ {0} /\ Len(v) = Len(w) - 1 /\ Head(w) = w[1]
      /\ \A i \in 1 .. Len(v) : v[i] = w[i + 1]
  OBVIOUS
<1> HIDE DEF v
<1>2. \A k \in 2 .. Len(w) : k - 1 \in 1 .. Len(v) /\ w[k] = v[k - 1]
  <2>1. ASSUME NEW k \in 2 .. Len(w) PROVE k - 1 \in 1 .. Len(v) /\ w[k] = v[k - 1]
    <3>1. k - 1 \in 1 .. Len(v) /\ (k - 1) + 1 = k
      BY <1>1
    <3> QED BY <1>1, <3>1
  <2> QED BY <2>1
<1>3. ASSUME LastWord(w, q, c), NEW i \in 1 .. Len(v), v[i].prefix = q,
             \A j \in i + 1 .. Len(v) : v[j].prefix # q
      PROVE  v[i].present <=> c
  <2>1. i + 1 \in 1 .. Len(w) /\ w[i + 1] = v[i]
    BY <1>1
  <2>2. ASSUME NEW k \in (i + 1) + 1 .. Len(w) PROVE w[k].prefix # q
    <3>1. k \in 2 .. Len(w) /\ k - 1 \in i + 1 .. Len(v)
      BY <1>1
    <3> QED BY <1>2, <1>3, <3>1
  <2> QED BY <1>3, <2>1, <2>2 DEF LastWord
<1>4. ASSUME Mute(v, q) PROVE \A k \in 2 .. Len(w) : w[k].prefix # q
  BY <1>2, <1>4 DEF Mute
<1>5. Mute(v, q) /\ Head(w).prefix # q => Mute(w, q)
  <2>1. \A k \in 1 .. Len(w) : k = 1 \/ k \in 2 .. Len(w)
    BY <1>1
  <2> QED BY <1>1, <1>4, <2>1 DEF Mute
<1>6. Mute(v, q) /\ Head(w).prefix = q /\ LastWord(w, q, c) => (Head(w).present <=> c)
  <2>1. 1 \in 1 .. Len(w) /\ 1 + 1 = 2
    BY <1>1
  <2> QED BY <1>1, <1>4, <2>1 DEF LastWord
<1>7. Mute(w, q) => Mute(v, q) /\ Head(w).prefix # q
  <2>1. 1 \in 1 .. Len(w) /\ \A i \in 1 .. Len(v) : i + 1 \in 1 .. Len(w)
    BY <1>1
  <2> QED BY <1>1, <2>1 DEF Mute
<1> QED BY <1>3, <1>5, <1>6, <1>7 DEF LastWord, v

(* A sweep ends the word of every prefix it takes, and says nothing of the *)
(* others.                                                                 *)
LEMMA SweepWord ==
    ASSUME NEW w \in Seq(Message), NEW v \in Seq(Message),
           \A i \in 1 .. Len(v) : ~v[i].present, NEW q, NEW c
    PROVE  /\ ~Mute(v, q) => LastWord(w \o v, q, FALSE) /\ ~Mute(w \o v, q)
           /\ Mute(v, q) /\ LastWord(w, q, c) => LastWord(w \o v, q, c)
           /\ Mute(w \o v, q) <=> Mute(w, q) /\ Mute(v, q)
<1> DEFINE x == w \o v
<1>1. Len(w) \in Nat /\ Len(v) \in Nat
  OBVIOUS
<1>2. x \in Seq(Message) /\ Len(x) = Len(w) + Len(v)
  BY ConcatProperties, Zenon
<1>3. \A i \in 1 .. Len(w) + Len(v) : x[i] = IF i <= Len(w) THEN w[i] ELSE v[i - Len(w)]
  BY ConcatProperties, Zenon
<1> HIDE DEF x
<1>4. /\ \A i \in 1 .. Len(w) : i \in 1 .. Len(x) /\ x[i] = w[i]
      /\ \A i \in 1 .. Len(x) : i \notin 1 .. Len(w) => i - Len(w) \in 1 .. Len(v) /\ x[i] = v[i - Len(w)]
      /\ \A k \in 1 .. Len(v) : k + Len(w) \in 1 .. Len(x) /\ k + Len(w) \notin 1 .. Len(w) /\ x[k + Len(w)] = v[k]
  <2>1. \A i \in 1 .. Len(w) : i \in 1 .. Len(x) /\ x[i] = w[i]
    BY <1>1, <1>2, <1>3
  <2>2. \A i \in 1 .. Len(x) : i \notin 1 .. Len(w) => i - Len(w) \in 1 .. Len(v) /\ x[i] = v[i - Len(w)]
    BY <1>1, <1>2, <1>3
  <2>3. ASSUME NEW k \in 1 .. Len(v)
        PROVE  k + Len(w) \in 1 .. Len(x) /\ k + Len(w) \notin 1 .. Len(w) /\ x[k + Len(w)] = v[k]
    <3>1. k + Len(w) \in 1 .. Len(x) /\ k + Len(w) \notin 1 .. Len(w) /\ (k + Len(w)) - Len(w) = k
      BY <1>1, <1>2
    <3> QED BY <2>2, <3>1
  <2> QED BY <2>1, <2>2, <2>3
<1>5. ASSUME ~Mute(v, q) PROVE LastWord(x, q, FALSE) /\ ~Mute(x, q)
  <2>1. PICK k \in 1 .. Len(v) : v[k].prefix = q
    BY <1>5 DEF Mute
  <2>2. k + Len(w) \in 1 .. Len(x) /\ x[k + Len(w)].prefix = q
    BY <1>4, <2>1
  <2>3. ASSUME NEW i \in 1 .. Len(x), x[i].prefix = q, \A j \in i + 1 .. Len(x) : x[j].prefix # q
        PROVE  ~x[i].present
    <3>1. i \notin 1 .. Len(w)
      <4>1. i \in 1 .. Len(w) => k + Len(w) \in i + 1 .. Len(x)
        BY <1>1, <2>2
      <4> QED BY <2>2, <2>3, <4>1
    <3> QED BY <1>4, <3>1
  <2> QED BY <2>2, <2>3 DEF LastWord, Mute
<1>6. ASSUME Mute(v, q), LastWord(w, q, c) PROVE LastWord(x, q, c)
  <2>1. ASSUME NEW i \in 1 .. Len(x), x[i].prefix = q, \A j \in i + 1 .. Len(x) : x[j].prefix # q
        PROVE  x[i].present <=> c
    <3>1. i \in 1 .. Len(w) /\ x[i] = w[i]
      BY <1>4, <1>6, <2>1 DEF Mute
    <3>2. ASSUME NEW j \in i + 1 .. Len(w) PROVE w[j].prefix # q
      <4>1. j \in 1 .. Len(w) /\ j \in i + 1 .. Len(x)
        BY <1>1, <1>2, <3>1
      <4> QED BY <1>4, <2>1, <4>1
    <3> QED BY <1>6, <2>1, <3>1, <3>2 DEF LastWord
  <2> QED BY <2>1 DEF LastWord
<1>7. Mute(x, q) <=> Mute(w, q) /\ Mute(v, q)
  BY <1>4 DEF Mute
<1> QED BY <1>5, <1>6, <1>7 DEF x

(* What is cut off a connection matters to the prefixes it mentions.       *)
LEMMA CutWord ==
    ASSUME NEW w \in Seq(Message), NEW kept \in 0 .. Len(w), NEW q, NEW c,
           \A i \in kept + 1 .. Len(w) : w[i].prefix # q
    PROVE  /\ LastWord(w, q, c) => LastWord(SubSeq(w, 1, kept), q, c)
           /\ Mute(SubSeq(w, 1, kept), q) <=> Mute(w, q)
<1> DEFINE v == SubSeq(w, 1, kept)
<1>1. /\ Len(w) \in Nat /\ kept \in Nat /\ kept <= Len(w) /\ Len(v) = kept
      /\ \A i \in 1 .. kept : v[i] = w[i]
  OBVIOUS
<1> HIDE DEF v
<1>2. \A i \in 1 .. Len(w) : i \in 1 .. kept \/ i \in kept + 1 .. Len(w)
  BY <1>1
<1>3. Mute(v, q) <=> Mute(w, q)
  <2>1. \A i \in 1 .. kept : i \in 1 .. Len(w)
    BY <1>1
  <2> QED BY <1>1, <1>2, <2>1 DEF Mute
<1>4. ASSUME LastWord(w, q, c), NEW i \in 1 .. Len(v), v[i].prefix = q,
             \A j \in i + 1 .. Len(v) : v[j].prefix # q
      PROVE  v[i].present <=> c
  <2>1. i \in 1 .. Len(w) /\ v[i] = w[i]
    BY <1>1
  <2>2. ASSUME NEW j \in i + 1 .. Len(w) PROVE w[j].prefix # q
    <3>1. j \in i + 1 .. Len(v) \/ j \in kept + 1 .. Len(w)
      BY <1>1
    <3>2. j \in i + 1 .. Len(v) => w[j] = v[j]
      BY <1>1
    <3> QED BY <1>4, <3>1, <3>2
  <2> QED BY <1>4, <2>1, <2>2 DEF LastWord
<1> QED BY <1>3, <1>4 DEF LastWord, v

----------------------------------------------------------------------------
(* The three ways in which a step leaves a testimony true.                 *)

\* Connection n tells of p what it told before.
SameWord(p, s, n) ==
    /\ Mute(wire'[s][n], p) <=> Mute(wire[s][n], p)
    /\ \A b \in BOOLEAN : LastWord(wire[s][n], p, b) => LastWord(wire'[s][n], p, b)

SameHistory(p, s) ==
    /\ said'[p][s] = said[p][s] /\ heard'[p][s] = heard[p][s]
    /\ <<p, s>> \in overtaken' <=> <<p, s>> \in overtaken
    /\ Holds(p, s)' <=> Holds(p, s)

LEMMA UntouchedStays ==
    ASSUME NEW p \in Prefixes, NEW s \in Stages, said[p][s] \in BOOLEAN,
           Testimony(p, s), SameHistory(p, s),
           \A n \in Connections : SameWord(p, s, n),
           <<p, s>> \in lost => <<p, s>> \in lost'
    PROVE  Testimony(p, s)'
<1> SUFFICES ASSUME <<p, s>> \notin lost' PROVE Testimony(p, s)'
  BY DEF Testimony
<1>1. /\ EndsIn(p, s, said[p][s])
      /\ Quiet(p, s) /\ <<p, s>> \notin overtaken => (Holds(p, s) <=> said[p][s])
  BY DEF Testimony
<1>2. EndsIn(p, s, said[p][s])'
  BY <1>1 DEF EndsIn, SameWord, SameHistory
<1>3. Quiet(p, s)' => Quiet(p, s)
  BY DEF Quiet, SameWord, SameHistory
<1> QED BY <1>1, <1>2, <1>3 DEF Testimony, SameHistory

\* The newest connection ends in the plane's last word about p.
LEMMA SpokenStays ==
    ASSUME NEW p \in Prefixes, NEW s \in Stages, NEW c \in Connections,
           heard'[p][s] \in Connections, heard'[p][s] <= c,
           ~Mute(wire'[s][c], p), LastWord(wire'[s][c], p, said'[p][s]),
           \A k \in Connections : k > c => Mute(wire'[s][k], p)
    PROVE  Testimony(p, s)'
<1>1. \A n \in Connections : n \in Int
  BY DEF Connections
<1>2. ASSUME NEW n \in Connections, ~Mute(wire'[s][n], p),
             \A k \in Connections : k > n => Mute(wire'[s][k], p)
      PROVE  n = c
  BY <1>1, <1>2
<1>3. EndsIn(p, s, said[p][s])'
  BY <1>2 DEF EndsIn
<1>4. ~Quiet(p, s)'
  BY <1>1 DEF Quiet
<1> QED BY <1>3, <1>4 DEF Testimony

LEMMA LostStays ==
    ASSUME NEW p, NEW s, <<p, s>> \in lost' PROVE Testimony(p, s)'
BY DEF Testimony

LEMMA HoldsByStage ==
    ASSUME NEW p
    PROVE  /\ RouterHolds(p, "rib-in") <=> adv[p] # {}
           /\ RouterHolds(p, "fpm") <=> intent[p] # {}
           /\ RouterHolds(p, "kernel") <=> fib[p] # {}
           /\ RouterHolds(p, "rib-in")' <=> adv'[p] # {}
           /\ RouterHolds(p, "fpm")' <=> intent'[p] # {}
           /\ RouterHolds(p, "kernel")' <=> fib'[p] # {}
BY DEF RouterHolds


----------------------------------------------------------------------------
(* The steps of the router: what it says is its last word.                 *)
LEMMA SayKeeps ==
    ASSUME RouterTypeOK, Made, AllCurrent, NEW p \in Prefixes, NEW b \in BOOLEAN,
           NEW stages, stages \subseteq Stages,
           Spoken(p, stages, b), UNCHANGED <<session, heard, overtaken, routes>>
    PROVE  \A q \in Prefixes, s \in Stages : Testimony(q, s)'
<1>0. /\ wire \in [Stages -> [Connections -> Seq(Message)]]
      /\ heard \in [Prefixes -> [Stages -> Connections]]
      /\ said \in [Prefixes -> [Stages -> BOOLEAN]]
      /\ \A s \in Stages : session[s] \in Connections /\ session[s] \in Nat
  <2>1. ends \in 0 .. MaxEnds /\ MaxEnds \in Nat /\ session \in [Stages -> 1 .. ends + 1]
    BY BoundsAssumption DEF RouterTypeOK
  <2>2. ASSUME NEW s \in Stages PROVE session[s] \in Connections /\ session[s] \in Nat
    BY <2>1 DEF Connections
  <2> QED BY <2>2 DEF RouterTypeOK
<1>1. ASSUME NEW s \in stages PROVE Testimony(p, s)'
  <2> DEFINE c == session[s]
             w == wire[s][c]
  <2>1. /\ c \in Connections /\ c \in Nat /\ s \in Stages /\ w \in Seq(Message)
        /\ heard'[p][s] \in Connections /\ heard'[p][s] <= c
    BY <1>0 DEF Made
  <2>2. wire'[s][c] = Append(w, Change(p, b)) /\ said'[p][s] = b
    BY <2>1 DEF Spoken
  <2>3. ASSUME NEW k \in Connections, k > c PROVE Mute(wire'[s][k], p)
    <3>1. k # c /\ wire[s][k] = <<>>
      BY <2>1, <2>3 DEF Made
    <3>2. wire'[s][k] = <<>>
      BY <2>1, <3>1 DEF Spoken
    <3> QED BY <3>2 DEF Mute
  <2> HIDE DEF c, w
  <2>4. LastWord(wire'[s][c], p, said'[p][s]) /\ ~Mute(wire'[s][c], p)
    <3>1. LastWord(Append(w, Change(p, b)), p, b) /\ ~Mute(Append(w, Change(p, b)), p)
      BY <2>1, AppendWord
    <3> QED BY <2>2, <3>1
  <2> QED BY <2>1, <2>3, <2>4, SpokenStays
<1>2. ASSUME NEW q \in Prefixes, NEW s \in Stages, q # p \/ s \notin stages
      PROVE  Testimony(q, s)'
  <2>1. ASSUME NEW n \in Connections PROVE SameWord(q, s, n)
    <3> DEFINE w == wire[s][n]
    <3>1. w \in Seq(Message)
      BY <1>0
    <3>2. CASE s \notin stages \/ n # session[s]
      <4>1. wire'[s][n] = wire[s][n]
        <5>1. CASE s \notin stages
          BY <5>1 DEF Spoken
        <5>2. CASE s \in stages /\ n # session[s]
          BY <5>2 DEF Spoken
        <5> QED BY <3>2, <5>1, <5>2
      <4> QED BY <4>1 DEF SameWord
    <3>3. CASE s \in stages /\ n = session[s]
      <4>1. wire'[s][n] = Append(w, Change(p, b)) /\ q # p
        BY <1>2, <3>3 DEF Spoken
      <4> HIDE DEF w
      <4>2. /\ \A c : LastWord(w, q, c) => LastWord(Append(w, Change(p, b)), q, c)
            /\ Mute(Append(w, Change(p, b)), q) <=> Mute(w, q)
        BY <3>1, <4>1, AppendWord
      <4> QED BY <4>1, <4>2 DEF SameWord, w
    <3> QED BY <3>2, <3>3
  <2>2. SameHistory(q, s) /\ (<<q, s>> \in lost => <<q, s>> \in lost')
    <3>1. said'[q][s] = said[q][s] /\ (<<q, s>> \in lost => <<q, s>> \in lost')
      BY <1>2 DEF Spoken
    <3>2. Holds(q, s)' <=> Holds(q, s)
      BY DEF Holds, Tracked
    <3> QED BY <3>1, <3>2 DEF SameHistory
  <2>3. said[q][s] \in BOOLEAN /\ Testimony(q, s)
    BY <1>0 DEF AllCurrent
  <2> QED BY <2>1, <2>2, <2>3, UntouchedStays
<1> QED BY <1>1, <1>2

LEMMA TruthStays ==
    ASSUME NEW q, NEW s, Truthful(q, s), said'[q][s] => said[q][s],
           RouterHolds(q, s) => RouterHolds(q, s)', ends' = 0 => ends = 0
    PROVE  Truthful(q, s)'
BY DEF Truthful

\* What the planes say they have they do, and what they were silent about they keep.
Backed(p, stages, b) ==
    \A q \in Prefixes, s \in Stages :
        /\ q # p \/ s \notin stages => (RouterHolds(q, s) => RouterHolds(q, s)')
        /\ q = p /\ s \in stages /\ b => RouterHolds(q, s)'

LEMMA RouterKeeps ==
    ASSUME Finite, RouterTypeOK, Made, RouterTypeOK', Made', AllCurrent, Router
    PROVE  AllCurrent'
<1>0. /\ {"rib-in", "fpm", "kernel"} \subseteq Stages
      /\ wire \in [Stages -> [Connections -> Seq(Message)]]
      /\ heard \in [Prefixes -> [Stages -> Connections]]
      /\ said \in [Prefixes -> [Stages -> BOOLEAN]]
      /\ adv \in [Prefixes -> SUBSET Peers] /\ intent \in [Prefixes -> SUBSET Tables]
      /\ fib \in [Prefixes -> SUBSET Tables]
      /\ ends \in Nat
      /\ \A p \in Prefixes, s \in Stages : Testimony(p, s) /\ Truthful(p, s)
      /\ \A s \in Stages : session[s] \in Nat
  <2>1. /\ ends \in 0 .. MaxEnds /\ MaxEnds \in Nat /\ session \in [Stages -> 1 .. ends + 1]
        /\ said \in [Prefixes -> [Stages -> BOOLEAN]]
    BY BoundsAssumption DEF RouterTypeOK
  <2>2. ends \in Nat /\ \A s \in Stages : session[s] \in Nat
    BY <2>1
  <2> QED BY <2>1, <2>2 DEF RouterTypeOK, AllCurrent, Stages
<1>1. ASSUME NEW p \in Prefixes, NEW stages, stages \subseteq Stages, NEW b \in BOOLEAN,
             Changing, Say(p, stages, b), UnchangedShim, Backed(p, stages, b)
      PROVE  AllCurrent'
  <2>1. Spoken(p, stages, b)
    BY <1>1, SayEffect, Zenon
  <2>2. UNCHANGED <<session, ends, heard, overtaken, routes>>
    BY <1>1 DEF Changing, UnchangedShim, lineageVars
  <2>3. \A q \in Prefixes, s \in Stages : Testimony(q, s)'
    BY <1>1, <2>1, <2>2, SayKeeps, Zenon
  <2>4. ASSUME NEW q \in Prefixes, NEW s \in Stages PROVE Truthful(q, s)'
    <3>1. said'[q][s] = IF q = p /\ s \in stages THEN b ELSE said[q][s]
      BY <2>1 DEF Spoken
    <3>2. CASE q = p /\ s \in stages
      BY <1>1, <3>1, <3>2 DEF Truthful, Backed
    <3>3. CASE ~(q = p /\ s \in stages)
      <4>1. RouterHolds(q, s) => RouterHolds(q, s)'
        BY <1>1, <3>3 DEF Backed
      <4> QED BY <1>0, <2>2, <3>1, <3>3, <4>1, TruthStays
    <3> QED BY <3>2, <3>3
  <2> QED BY <2>3, <2>4 DEF AllCurrent
<1>2. ASSUME NEW p \in Prefixes, NEW peer \in Peers, Advertise(p, peer) PROVE AllCurrent'
  <2>1. /\ Changing /\ Say(p, {"rib-in"}, TRUE) /\ UnchangedShim /\ UNCHANGED <<intent, fib>>
        /\ adv' = [adv EXCEPT ![p] = @ \union {peer}]
    BY <1>2 DEF Advertise
  <2>2. ASSUME NEW q \in Prefixes, NEW s \in Stages
        PROVE  /\ RouterHolds(q, s) => RouterHolds(q, s)'
               /\ q = p /\ s \in {"rib-in"} => RouterHolds(q, s)'
    BY <1>0, <2>1, HoldsByStage DEF Stages
  <2>3. Backed(p, {"rib-in"}, TRUE) /\ {"rib-in"} \subseteq Stages
    BY <1>0, <2>2 DEF Backed
  <2> QED BY <1>1, <2>1, <2>3, Zenon
<1>3. ASSUME NEW p \in Prefixes, NEW peer \in Peers, Withdraw(p, peer) PROVE AllCurrent'
  <2>1. /\ Changing /\ Say(p, {"rib-in"}, FALSE) /\ UnchangedShim /\ UNCHANGED <<intent, fib>>
        /\ adv' = [adv EXCEPT ![p] = @ \ {peer}]
    BY <1>3 DEF Withdraw
  <2>2. ASSUME NEW q \in Prefixes, NEW s \in Stages, q # p \/ s \notin {"rib-in"}
        PROVE  RouterHolds(q, s) => RouterHolds(q, s)'
    BY <1>0, <2>1, <2>2, HoldsByStage DEF Stages
  <2>3. Backed(p, {"rib-in"}, FALSE) /\ {"rib-in"} \subseteq Stages
    BY <1>0, <2>2 DEF Backed
  <2> QED BY <1>1, <2>1, <2>3, Zenon
<1>4. ASSUME NEW peer \in Peers, PeerDown(peer) PROVE AllCurrent'
  <2>1. /\ UNCHANGED <<fib, said, wire, session, lost, heard, overtaken, routes>>
        /\ ends' = ends + 1
    BY <1>4 DEF PeerDown, UnchangedShim, lineageVars, Ending
  <2>2. ASSUME NEW q \in Prefixes, NEW s \in Stages PROVE Testimony(q, s)' /\ Truthful(q, s)'
    <3>1. Testimony(q, s)'
      <4>1. \A n \in Connections : SameWord(q, s, n)
        BY <2>1 DEF SameWord
      <4>2. SameHistory(q, s)
        BY <2>1 DEF SameHistory, Holds, Tracked
      <4>3. said[q][s] \in BOOLEAN /\ Testimony(q, s) /\ lost' = lost
        BY <1>0, <2>1
      <4> QED BY <4>1, <4>2, <4>3, UntouchedStays
    <3>2. Truthful(q, s)'
      <4>1. ends' # 0
        BY <1>0, <2>1
      <4>2. s = "kernel" => (RouterHolds(q, s)' <=> RouterHolds(q, s))
        BY <2>1, HoldsByStage
      <4>3. Truthful(q, s)
        BY <1>0
      <4> QED BY <2>1, <4>1, <4>2, <4>3 DEF Truthful
    <3> QED BY <3>1, <3>2
  <2> QED BY <2>2 DEF AllCurrent
<1>5. ASSUME NEW p \in Prefixes, NEW table \in Tables, NEW installed \in BOOLEAN,
             Push(p, table, installed)
      PROVE  AllCurrent'
  <2> DEFINE stages == IF installed THEN {"fpm", "kernel"} ELSE {"fpm"}
  <2>1. /\ Changing /\ Say(p, stages, TRUE) /\ UnchangedShim /\ UNCHANGED adv
        /\ intent' = [intent EXCEPT ![p] = @ \union {table}]
        /\ fib' = [fib EXCEPT ![p] = IF installed THEN @ \union {table} ELSE @]
    BY <1>5 DEF Push
  <2>2. stages \subseteq Stages /\ ("kernel" \in stages => installed)
    BY <1>0
  <2> HIDE DEF stages
  <2>3. ASSUME NEW q \in Prefixes, NEW s \in Stages
        PROVE  /\ RouterHolds(q, s) => RouterHolds(q, s)'
               /\ q = p /\ s \in stages /\ s # "rib-in" => RouterHolds(q, s)'
    <3>1. /\ adv' = adv
          /\ intent[q] # {} => intent'[q] # {}
          /\ fib[q] # {} => fib'[q] # {}
          /\ q = p => intent'[q] # {} /\ (installed => fib'[q] # {})
      BY <1>0, <2>1
    <3> QED BY <2>2, <3>1, HoldsByStage DEF Stages
  <2>4. "rib-in" \notin stages
    BY DEF stages
  <2>5. Backed(p, stages, TRUE)
    BY <2>3, <2>4 DEF Backed
  <2> QED BY <1>1, <2>1, <2>2, <2>5, Zenon
<1>6. ASSUME NEW p \in Prefixes, NEW table \in Tables, Remove(p, table) PROVE AllCurrent'
  <2> DEFINE stages == IF table \in fib[p] THEN {"fpm", "kernel"} ELSE {"fpm"}
  <2>1. /\ Changing /\ Say(p, stages, FALSE) /\ UnchangedShim /\ UNCHANGED adv
        /\ intent' = [intent EXCEPT ![p] = @ \ {table}]
        /\ fib' = [fib EXCEPT ![p] = @ \ {table}]
    BY <1>6 DEF Remove
  <2>2. /\ stages \subseteq Stages /\ "fpm" \in stages
        /\ "kernel" \notin stages => table \notin fib[p]
    BY <1>0
  <2> HIDE DEF stages
  <2>3. ASSUME NEW q \in Prefixes, NEW s \in Stages, q # p \/ s \notin stages
        PROVE  RouterHolds(q, s) => RouterHolds(q, s)'
    <3>1. /\ adv' = adv
          /\ q # p => intent'[q] = intent[q] /\ fib'[q] = fib[q]
          /\ "kernel" \notin stages => fib'[p] = fib[p]
      BY <1>0, <2>1, <2>2
    <3> QED BY <2>2, <2>3, <3>1, HoldsByStage DEF Stages
  <2>4. Backed(p, stages, FALSE)
    BY <2>3 DEF Backed
  <2> QED BY <1>1, <2>1, <2>2, <2>4, Zenon
<1>7. ASSUME NEW stage \in {"rib-in", "fpm"},
             NEW kept \in 0 .. Len(wire[stage][session[stage]]), Redial(stage, kept)
      PROVE  AllCurrent'
  <2> DEFINE c == session[stage]
  <2>0. /\ stage \in Stages /\ stage # "kernel" /\ c \in Nat /\ ends' = ends + 1
        /\ c \in Connections /\ c + 1 \in Connections /\ session'[stage] = c + 1
        /\ UNCHANGED <<adv, intent, fib, heard, overtaken, routes>>
        /\ lost' = (lost \union CutOff(stage, kept))
                     \ {<<p, stage>> : p \in {p \in Prefixes : RouterHolds(p, stage)}}
    <3>1. ends + 1 \in 1 .. MaxEnds /\ MaxEnds \in Nat /\ ends' = ends + 1
      BY <1>0, <1>7, BoundsAssumption DEF Redial, Ending, RouterTypeOK
    <3>2. stage \in Stages /\ stage # "kernel"
      BY <1>0
    <3>3. session \in [Stages -> 1 .. ends + 1] /\ session' = [session EXCEPT ![stage] = @ + 1]
      BY <1>7 DEF Redial, RouterTypeOK
    <3>4. c \in 1 .. ends + 1 /\ session'[stage] = c + 1
      BY <3>2, <3>3
    <3>5. c \in Connections /\ c + 1 \in Connections /\ c \in Nat
      <4>1. ends \in Nat
        BY <1>0
      <4> HIDE DEF c
      <4> QED BY <3>1, <3>4, <4>1 DEF Connections
    <3> QED BY <1>7, <3>1, <3>2, <3>4, <3>5 DEF Redial, UnchangedShim, lineageVars
  <2>1. PICK again \in Seq(Message) :
             /\ \A i \in 1 .. Len(again) : again[i].present /\ RouterHolds(again[i].prefix, stage)
             /\ \A p \in Prefixes : RouterHolds(p, stage) => \E i \in 1 .. Len(again) : again[i].prefix = p
             /\ wire' \in [Stages -> [Connections -> Seq(Message)]]
             /\ \A s \in Stages : s # stage => wire'[s] = wire[s]
             /\ \A n \in Connections :
                  wire'[stage][n] = IF n = session[stage] THEN SubSeq(wire[stage][n], 1, kept)
                                    ELSE IF n = session[stage] + 1 THEN again
                                    ELSE wire[stage][n]
             /\ said' \in [Prefixes -> [Stages -> BOOLEAN]]
             /\ \A p \in Prefixes, s \in Stages :
                  said'[p][s] <=> said[p][s] \/ (s = stage /\ RouterHolds(p, s))
    BY <1>7, RedialEffect
  <2> DEFINE w == wire[stage][c]
  <2>2. w \in Seq(Message) /\ kept \in 0 .. Len(w)
    BY <1>0, <2>0
  <2>3. /\ wire'[stage][c] = SubSeq(w, 1, kept) /\ wire'[stage][c + 1] = again
        /\ \A n \in Connections : n # c /\ n # c + 1 => wire'[stage][n] = wire[stage][n]
    <3>1. c # c + 1
      BY <2>0
    <3> QED BY <2>0, <2>1, <3>1
  <2>4. \A n \in Connections : n > c => wire[stage][n] = <<>>
    BY <2>0 DEF Made
  <2>5. \A p \in Prefixes : <<p, stage>> \in CutOff(stage, kept)
                              <=> \E i \in kept + 1 .. Len(w) : w[i].prefix = p
    BY DEF CutOff
  <2>6. \A p \in Prefixes, s \in Stages : Holds(p, s)' <=> Holds(p, s)
    BY <2>0 DEF Holds, Tracked
  <2>7. \A p \in Prefixes, s \in Stages :
          said[p][s] \in BOOLEAN /\ said'[p][s] \in BOOLEAN /\ heard[p][s] \in Connections
    <3>1. said' \in [Prefixes -> [Stages -> BOOLEAN]]
      BY <2>1
    <3>2. /\ said \in [Prefixes -> [Stages -> BOOLEAN]]
          /\ heard \in [Prefixes -> [Stages -> Connections]]
      BY <1>0
    <3> QED BY <3>1, <3>2
  <2> HIDE DEF w, c
  <2>8. ASSUME NEW p \in Prefixes, RouterHolds(p, stage) PROVE Testimony(p, stage)'
    <3>1. ~Mute(again, p) /\ LastWord(again, p, TRUE) /\ said'[p][stage] = TRUE
      <4>1. ~Mute(again, p)
        BY <2>1, <2>8 DEF Mute
      <4>2. LastWord(again, p, TRUE)
        BY <2>1 DEF LastWord
      <4>3. said'[p][stage]
        BY <2>0, <2>1, <2>8
      <4> QED BY <2>0, <2>7, <4>1, <4>2, <4>3
    <3>2. ASSUME NEW k \in Connections, k > c + 1 PROVE Mute(wire'[stage][k], p)
      <4>1. k > c /\ k # c /\ k # c + 1
        BY <2>0, <3>2 DEF Connections
      <4>2. wire'[stage][k] = <<>>
        BY <2>3, <2>4, <4>1
      <4> QED BY <4>2 DEF Mute
    <3>3. heard'[p][stage] \in Connections /\ heard'[p][stage] <= c + 1
      BY <2>0, <2>7 DEF Made
    <3>4. ~Mute(wire'[stage][c + 1], p) /\ LastWord(wire'[stage][c + 1], p, said'[p][stage])
      BY <2>3, <3>1
    <3> QED BY <2>0, <3>2, <3>3, <3>4, SpokenStays
  <2>9. ASSUME NEW p \in Prefixes, ~RouterHolds(p, stage) PROVE Testimony(p, stage)'
    <3>1. CASE <<p, stage>> \in lost \/ <<p, stage>> \in CutOff(stage, kept)
      <4>1. <<p, stage>> \in lost'
        BY <2>0, <2>9, <3>1
      <4> QED BY <4>1, LostStays
    <3>2. CASE <<p, stage>> \notin lost /\ <<p, stage>> \notin CutOff(stage, kept)
      <4>1. \A i \in kept + 1 .. Len(w) : w[i].prefix # p
        BY <2>5, <3>2
      <4>2. SameWord(p, stage, c)
        <5>1. \A b : LastWord(w, p, b) => LastWord(SubSeq(w, 1, kept), p, b)
          BY <2>2, <4>1, CutWord
        <5>2. Mute(SubSeq(w, 1, kept), p) <=> Mute(w, p)
          BY <2>2, <4>1, CutWord
        <5> QED BY <2>3, <5>1, <5>2 DEF SameWord, w
      <4>3. SameWord(p, stage, c + 1)
        <5>1. Mute(again, p)
          BY <2>1, <2>9 DEF Mute
        <5>2. wire[stage][c + 1] = <<>>
          BY <2>0, <2>4
        <5>3. Mute(<<>>, p) /\ \A b : LastWord(again, p, b)
          BY <5>1 DEF Mute, LastWord
        <5> QED BY <2>3, <5>1, <5>2, <5>3 DEF SameWord
      <4>4. \A n \in Connections : SameWord(p, stage, n)
        <5>1. ASSUME NEW n \in Connections, n # c, n # c + 1 PROVE SameWord(p, stage, n)
          <6>1. wire'[stage][n] = wire[stage][n]
            BY <2>3, <5>1
          <6> QED BY <6>1 DEF SameWord
        <5> QED BY <4>2, <4>3, <5>1
      <4>5. SameHistory(p, stage)
        <5>1. said'[p][stage] = said[p][stage]
          <6>1. said'[p][stage] <=> said[p][stage]
            BY <2>0, <2>1, <2>9
          <6> QED BY <2>0, <2>7, <6>1
        <5> QED BY <2>0, <2>6, <5>1 DEF SameHistory
      <4> QED BY <1>0, <2>0, <2>7, <3>2, <4>4, <4>5, UntouchedStays
    <3> QED BY <3>1, <3>2
  <2>10. ASSUME NEW p \in Prefixes, NEW s \in Stages, s # stage PROVE Testimony(p, s)'
    <3>1. wire'[s] = wire[s] /\ (said'[p][s] <=> said[p][s])
      BY <2>1, <2>10
    <3>2. \A n \in Connections : SameWord(p, s, n)
      BY <3>1 DEF SameWord
    <3>3. SameHistory(p, s)
      <4>1. said'[p][s] = said[p][s]
        BY <2>7, <3>1
      <4> QED BY <2>0, <2>6, <4>1 DEF SameHistory
    <3>4. <<p, s>> \in lost => <<p, s>> \in lost'
      BY <2>0, <2>10
    <3> QED BY <1>0, <2>7, <3>2, <3>3, <3>4, UntouchedStays
  <2>11. ASSUME NEW p \in Prefixes, NEW s \in Stages PROVE Truthful(p, s)'
    <3>1. ends' # 0
      BY <1>0, <2>0
    <3>2. s = "kernel" => (RouterHolds(p, s)' <=> RouterHolds(p, s)) /\ (said'[p][s] <=> said[p][s])
      BY <2>0, <2>1, HoldsByStage
    <3> QED BY <1>0, <3>1, <3>2 DEF Truthful
  <2> QED BY <2>8, <2>9, <2>10, <2>11 DEF AllCurrent
<1>8. ASSUME NEW kept \in 0 .. Len(wire["fpm"][session["fpm"]]), ZebraRestart(kept)
      PROVE  AllCurrent'
  <2> DEFINE c == session["fpm"]
  <2>0. /\ c \in Nat /\ ends' = ends + 1 /\ c \in Connections /\ 1 \in Connections
        /\ fib' = [p \in Prefixes |-> {}]
        /\ UNCHANGED <<adv, heard, overtaken, routes>>
        /\ lost' = lost \union CutOff("fpm", kept)
    <3>1. ends + 1 \in 1 .. MaxEnds /\ MaxEnds \in Nat /\ ends' = ends + 1
      BY <1>0, <1>8, BoundsAssumption DEF ZebraRestart, Ending, RouterTypeOK
    <3>2. c \in 1 .. ends + 1
      BY <1>0 DEF RouterTypeOK
    <3>3. c \in Connections /\ 1 \in Connections /\ c \in Nat
      BY <1>0, <3>1, <3>2 DEF Connections
    <3> QED BY <1>8, <3>1, <3>3 DEF ZebraRestart, UnchangedShim, lineageVars
  <2>1. PICK sweep \in Seq(Message) :
             /\ \A i \in 1 .. Len(sweep) : ~sweep[i].present /\ fib[sweep[i].prefix] # {}
             /\ \A p \in Prefixes : fib[p] # {} => \E i \in 1 .. Len(sweep) : sweep[i].prefix = p
             /\ wire' \in [Stages -> [Connections -> Seq(Message)]]
             /\ wire'["rib-in"] = wire["rib-in"]
             /\ \A n \in Connections :
                  /\ wire'["fpm"][n] = IF n = session["fpm"] THEN SubSeq(wire["fpm"][n], 1, kept)
                                                             ELSE wire["fpm"][n]
                  /\ wire'["kernel"][n] = IF n = 1 THEN wire["kernel"][n] \o sweep
                                                   ELSE wire["kernel"][n]
             /\ said' \in [Prefixes -> [Stages -> BOOLEAN]]
             /\ \A p \in Prefixes, s \in Stages :
                  said'[p][s] <=> said[p][s] /\ (s = "kernel" => fib[p] = {})
    BY <1>8, RestartEffect
  <2> DEFINE w == wire["fpm"][c]
             v == wire["kernel"][1]
  <2>2. w \in Seq(Message) /\ v \in Seq(Message) /\ kept \in 0 .. Len(w)
    BY <1>0, <2>0
  <2>3. /\ wire'["fpm"][c] = SubSeq(w, 1, kept) /\ wire'["kernel"][1] = v \o sweep
        /\ \A n \in Connections : /\ n # c => wire'["fpm"][n] = wire["fpm"][n]
                                  /\ n # 1 => wire'["kernel"][n] = wire["kernel"][n]
    BY <2>0, <2>1
  <2>4. \A p \in Prefixes : <<p, "fpm">> \in CutOff("fpm", kept)
                              <=> \E i \in kept + 1 .. Len(w) : w[i].prefix = p
    BY DEF CutOff
  <2>5. \A p \in Prefixes, s \in Stages : Holds(p, s)' <=> Holds(p, s)
    BY <2>0 DEF Holds, Tracked
  <2>6. \A p \in Prefixes, s \in Stages :
          said[p][s] \in BOOLEAN /\ said'[p][s] \in BOOLEAN /\ heard[p][s] \in Connections
    <3>1. said' \in [Prefixes -> [Stages -> BOOLEAN]]
      BY <2>1
    <3>2. /\ said \in [Prefixes -> [Stages -> BOOLEAN]]
          /\ heard \in [Prefixes -> [Stages -> Connections]]
      BY <1>0
    <3> QED BY <3>1, <3>2
  <2>7. \A p \in Prefixes, s \in Stages : <<p, s>> \in lost => <<p, s>> \in lost'
    BY <2>0
  <2> HIDE DEF w, v, c
  <2>8. ASSUME NEW p \in Prefixes, NEW s \in Stages, s # "kernel" \/ fib[p] = {}
        PROVE  SameHistory(p, s)
    <3>1. said'[p][s] <=> said[p][s]
      BY <2>1, <2>8
    <3>2. said'[p][s] = said[p][s]
      BY <2>6, <3>1
    <3> QED BY <2>0, <2>5, <3>2 DEF SameHistory
  <2>9. ASSUME NEW p \in Prefixes PROVE Testimony(p, "rib-in")'
    <3>1. \A n \in Connections : SameWord(p, "rib-in", n)
      BY <2>1 DEF SameWord
    <3> QED BY <1>0, <2>6, <2>7, <2>8, <3>1, UntouchedStays
  <2>10. ASSUME NEW p \in Prefixes PROVE Testimony(p, "fpm")'
    <3>1. CASE <<p, "fpm">> \in lost'
      BY <3>1, LostStays
    <3>2. CASE <<p, "fpm">> \notin lost'
      <4>1. \A i \in kept + 1 .. Len(w) : w[i].prefix # p
        BY <2>0, <2>4, <3>2
      <4>2. \A b : LastWord(w, p, b) => LastWord(SubSeq(w, 1, kept), p, b)
        BY <2>2, <4>1, CutWord
      <4>3. Mute(SubSeq(w, 1, kept), p) <=> Mute(w, p)
        BY <2>2, <4>1, CutWord
      <4>4. SameWord(p, "fpm", c)
        BY <2>3, <4>2, <4>3 DEF SameWord, w
      <4>5. \A n \in Connections : n # c => SameWord(p, "fpm", n)
        BY <2>3 DEF SameWord
      <4> QED BY <1>0, <2>6, <2>7, <2>8, <4>4, <4>5, UntouchedStays
    <3> QED BY <3>1, <3>2
  <2>11. ASSUME NEW p \in Prefixes PROVE Testimony(p, "kernel")'
    <3>1. \A i \in 1 .. Len(sweep) : ~sweep[i].present
      BY <2>1
    <3>2. ~Mute(sweep, p) <=> fib[p] # {}
      BY <2>1 DEF Mute
    <3>3. \A k \in Connections : k > 1 => wire[("kernel")][k] = <<>> /\ wire'["kernel"][k] = <<>>
      <4>1. \A k \in Connections : k > 1 => wire["kernel"][k] = <<>> /\ k # 1
        <5>1. session["kernel"] = 1 /\ "kernel" \in Stages
          BY <1>0 DEF Made
        <5> QED BY <5>1 DEF Made, Connections
      <4> QED BY <2>3, <4>1
    <3>4. CASE fib[p] # {}
      <4>1. LastWord(v \o sweep, p, FALSE) /\ ~Mute(v \o sweep, p)
        BY <2>2, <3>1, <3>2, <3>4, SweepWord
      <4>2. said'[p]["kernel"] = FALSE
        <5>1. ~said'[p]["kernel"]
          BY <1>0, <2>1, <3>4
        <5> QED BY <1>0, <2>6, <5>1
      <4>3. \A k \in Connections : k > 1 => Mute(wire'["kernel"][k], p)
        BY <3>3 DEF Mute
      <4>4. heard'[p]["kernel"] \in Connections /\ heard'[p]["kernel"] <= 1
        BY <1>0, <2>0, <2>6 DEF Made
      <4>5. LastWord(wire'["kernel"][1], p, said'[p]["kernel"]) /\ ~Mute(wire'["kernel"][1], p)
        BY <2>3, <4>1, <4>2
      <4> QED BY <1>0, <2>0, <4>3, <4>4, <4>5, SpokenStays
    <3>5. CASE fib[p] = {}
      <4>1. \A b : LastWord(v, p, b) => LastWord(v \o sweep, p, b)
        BY <2>2, <3>1, <3>2, <3>5, SweepWord
      <4>2. Mute(v \o sweep, p) <=> Mute(v, p)
        BY <2>2, <3>1, <3>2, <3>5, SweepWord
      <4>3. SameWord(p, "kernel", 1)
        BY <2>3, <4>1, <4>2 DEF SameWord, v
      <4>4. \A n \in Connections : n # 1 => SameWord(p, "kernel", n)
        BY <2>3 DEF SameWord
      <4> QED BY <1>0, <2>6, <2>7, <2>8, <3>5, <4>3, <4>4, UntouchedStays
    <3> QED BY <3>4, <3>5
  <2>12. ASSUME NEW p \in Prefixes, NEW s \in Stages PROVE Truthful(p, s)'
    <3>1. ends' # 0
      BY <1>0, <2>0
    <3>2. s = "kernel" => ~said'[p][s]
      BY <1>0, <2>1, HoldsByStage DEF Truthful
    <3> QED BY <3>1, <3>2 DEF Truthful
  <2> QED BY <2>9, <2>10, <2>11, <2>12 DEF AllCurrent, Stages
<1> QED BY <1>2, <1>3, <1>4, <1>5, <1>6, <1>7, <1>8 DEF Router

----------------------------------------------------------------------------
(* The steps of the shim: a delivered word is what the tracker then says.  *)
LEMMA ObserveHolds ==
    ASSUME IInv, NEW p \in Prefixes, NEW stage \in Stages,
           NEW present \in BOOLEAN, NEW proto \in Protos,
           Observe(p, stage, present, proto)
    PROVE  \A q \in Prefixes, s \in Stages :
              Holds(q, s)' <=> IF q = p /\ s = stage THEN present ELSE Holds(q, s)
<1>1. /\ present => Witness'[p] = Witness[p] \union {stage}
      /\ ~present => Witness'[p] = Witness[p] \ {stage}
  BY ObserveMapped
<1>2. /\ Witness[p] = {s \in Stages : Holds(p, s)}
      /\ Witness'[p] = {s \in Stages : Holds(p, s)'}
  BY DEF Witness
<1>3. ASSUME NEW s \in Stages
      PROVE  Holds(p, s)' <=> IF s = stage THEN present ELSE Holds(p, s)
  BY <1>1, <1>2
<1>4. ASSUME NEW q \in Prefixes, q # p, NEW s \in Stages PROVE Holds(q, s)' <=> Holds(q, s)
  <2>1. routes'[q] = routes[q]
    BY <1>4 DEF Observe, IInv, TypeOK
  <2> QED BY <2>1 DEF Holds, Tracked
<1> QED BY <1>3, <1>4

(* Neither the scan nor the hook nor the clock changes what is held.       *)
LEMMA OwnStepsHold ==
    ASSUME IInv, Scan \/ Tick \/ \E p \in Prefixes : Emit(p)
    PROVE  \A q \in Prefixes, s \in Stages : Holds(q, s)' <=> Holds(q, s)
<1>1. ASSUME Scan, NEW q \in Prefixes, NEW s \in Stages PROVE Holds(q, s)' <=> Holds(q, s)
  <2>1. CASE q \in outbox'
    <3>1. Tracked(q) /\ routes[q] \in Entry /\ routes'[q] = [routes[q] EXCEPT !.flagged = TRUE]
      BY <1>1, <2>1 DEF Scan, IInv, TypeOK, Tracked
    <3>2. routes'[q] \in Entry /\ routes'[q].present = routes[q].present
      BY <3>1 DEF Entry
    <3> QED BY <3>1, <3>2, NoEntryAssumption DEF Holds, Tracked
  <2>2. CASE q \notin outbox'
    BY <1>1, <2>2 DEF Scan, Holds, Tracked
  <2> QED BY <2>1, <2>2
<1>2. ASSUME Tick, NEW q \in Prefixes, NEW s \in Stages PROVE Holds(q, s)' <=> Holds(q, s)
  <2>1. CASE Tracked(q)
    <3>1. routes[q] \in Entry /\ routes'[q] = [routes[q] EXCEPT !.fpmAge = Older(@)]
      BY <1>2, <2>1 DEF Tick, IInv, TypeOK, Tracked
    <3>2. Older(routes[q].fpmAge) \in 0 .. Grace + 1
      BY <3>1, GraceAssumption DEF Older, Entry
    <3>3. routes'[q] \in Entry /\ routes'[q].present = routes[q].present
      BY <3>1, <3>2 DEF Entry
    <3> QED BY <2>1, <3>3, NoEntryAssumption DEF Holds, Tracked
  <2>2. CASE ~Tracked(q)
    BY <1>2, <2>2 DEF Tick, Holds, Tracked
  <2> QED BY <2>1, <2>2
<1>3. ASSUME NEW p \in Prefixes, Emit(p), NEW q \in Prefixes, NEW s \in Stages
      PROVE  Holds(q, s)' <=> Holds(q, s)
  BY <1>3 DEF Emit, Holds, Tracked
<1> QED BY <1>1, <1>2, <1>3

LEMMA DeliverKeeps ==
    ASSUME IInv, RouterTypeOK, AllCurrent, NEW stage \in Stages, NEW n \in Connections,
           NEW proto \in Protos, Deliver(stage, n, proto)
    PROVE  AllCurrent'
<1>1. PICK p \in Prefixes, present \in BOOLEAN, w \in Seq(Message) :
        /\ wire[stage][n] = w /\ w # <<>> /\ Head(w).prefix = p /\ Head(w).present = present
        /\ wire' = [wire EXCEPT ![stage][n] = Tail(w)]
        /\ Observe(p, stage, present, proto)
        /\ heard' = IF n < heard[p][stage] THEN heard ELSE [heard EXCEPT ![p][stage] = n]
        /\ overtaken' = IF n < heard[p][stage] THEN overtaken \union {<<p, stage>>}
                                              ELSE overtaken \ {<<p, stage>>}
        /\ UNCHANGED <<adv, intent, fib, ends, said, lost>>
  <2> DEFINE w == wire[stage][n]
             m == Head(w)
  <2>1. w \in Seq(Message) /\ w # <<>>
    BY DEF Deliver, RouterTypeOK
  <2>2. m \in Message
    <3> HIDE DEF w
    <3> QED BY <2>1
  <2>3. m.prefix \in Prefixes /\ m.present \in BOOLEAN
    <3> HIDE DEF m
    <3> QED BY <2>2 DEF Message
  <2> QED BY <2>1, <2>3 DEF Deliver, routerVars
<1>2. /\ wire \in [Stages -> [Connections -> Seq(Message)]]
      /\ heard \in [Prefixes -> [Stages -> Connections]]
      /\ \A q \in Prefixes, s \in Stages : said[q][s] \in BOOLEAN
  BY DEF RouterTypeOK
<1>3. \A q \in Prefixes, s \in Stages :
        Holds(q, s)' <=> IF q = p /\ s = stage THEN present ELSE Holds(q, s)
  BY <1>1, ObserveHolds
<1>4. \A s \in Stages, k \in Connections :
        wire'[s][k] = IF s = stage /\ k = n THEN Tail(w) ELSE wire[s][k]
  BY <1>1, <1>2
<1>5. \A q \in Prefixes, s \in Stages :
        heard'[q][s] = IF q = p /\ s = stage /\ ~(n < heard[p][stage]) THEN n ELSE heard[q][s]
  BY <1>1, <1>2
<1>6. \A q \in Prefixes, s \in Stages : said[q][s] \in BOOLEAN
  BY <1>2
<1>7. \A q, b :
        /\ LastWord(w, q, b) => LastWord(Tail(w), q, b)
        /\ q # p => (Mute(Tail(w), q) <=> Mute(w, q))
        /\ ~Mute(w, p)
        /\ Mute(Tail(w), p) /\ LastWord(w, p, b) => (present <=> b)
  <2>1. \A q, b :
          /\ LastWord(w, q, b) => LastWord(Tail(w), q, b)
          /\ Mute(Tail(w), q) /\ Head(w).prefix # q => Mute(w, q)
          /\ Mute(w, q) => Mute(Tail(w), q) /\ Head(w).prefix # q
          /\ Mute(Tail(w), q) /\ Head(w).prefix = q /\ LastWord(w, q, b) => (Head(w).present <=> b)
    BY <1>1, TailWord
  <2> QED BY <1>1, <2>1
<1>8. ASSUME NEW q \in Prefixes, NEW s \in Stages, ~(q = p /\ s = stage) PROVE Testimony(q, s)'
  <2>1. ASSUME NEW k \in Connections PROVE SameWord(q, s, k)
    <3>1. CASE s = stage /\ k = n
      <4>1. wire'[s][k] = Tail(w) /\ wire[s][k] = w
        BY <1>1, <1>4, <3>1
      <4> QED BY <1>7, <1>8, <3>1, <4>1 DEF SameWord
    <3>2. CASE ~(s = stage /\ k = n)
      <4>1. wire'[s][k] = wire[s][k]
        BY <1>4, <3>2
      <4> QED BY <4>1 DEF SameWord
    <3> QED BY <3>1, <3>2
  <2>2. SameHistory(q, s)
    <3>1. <<q, s>> # <<p, stage>>
      BY <1>8
    <3>2. <<q, s>> \in overtaken' <=> <<q, s>> \in overtaken
      BY <1>1, <3>1
    <3>3. heard'[q][s] = heard[q][s] /\ (Holds(q, s)' <=> Holds(q, s))
      BY <1>3, <1>5, <1>8
    <3> QED BY <1>1, <3>2, <3>3 DEF SameHistory
  <2>3. Testimony(q, s) /\ said[q][s] \in BOOLEAN /\ lost' = lost
    BY <1>1, <1>6 DEF AllCurrent
  <2> QED BY <2>1, <2>2, <2>3, UntouchedStays
<1>9. Testimony(p, stage)'
  <2> SUFFICES ASSUME <<p, stage>> \notin lost' PROVE Testimony(p, stage)'
    BY DEF Testimony
  <2>1. PICK b \in BOOLEAN : EndsIn(p, stage, b) /\ said[p][stage] = b /\ said'[p][stage] = b
    BY <1>1, <1>6 DEF AllCurrent, Testimony
  <2>2. \A k \in Connections : k \in Int
    BY DEF Connections
  <2>3. heard[p][stage] \in Connections
    BY <1>2, <1>5
  <2>4. CASE n < heard[p][stage]
    <3>1. heard'[p][stage] = heard[p][stage] /\ n < heard[p][stage]
      BY <1>2, <1>5, <2>4
    <3>2. ASSUME NEW k \in Connections, k >= heard[p][stage]
          PROVE  wire'[stage][k] = wire[stage][k] /\ \A j \in Connections : j > k => wire'[stage][j] = wire[stage][j]
      <4>1. \A j \in Connections : j >= heard[p][stage] => j # n
        BY <2>2, <2>3, <3>1
      <4>2. \A j \in Connections : j > k => j >= heard[p][stage]
        BY <2>2, <2>3, <3>2
      <4> QED BY <1>4, <3>2, <4>1, <4>2
    <3>3. EndsIn(p, stage, b)'
      BY <2>1, <3>1, <3>2 DEF EndsIn
    <3>4. <<p, stage>> \in overtaken'
      BY <1>1, <2>4
    <3> QED BY <2>1, <3>3, <3>4 DEF Testimony
  <2>5. CASE ~(n < heard[p][stage])
    <3>1. heard'[p][stage] = n /\ n >= heard[p][stage]
      BY <1>2, <1>5, <2>2, <2>3, <2>5
    <3>2. ASSUME NEW k \in Connections, k >= n
          PROVE  /\ k >= heard[p][stage]
                 /\ \A j \in Connections : j > k => wire'[stage][j] = wire[stage][j]
      <4>1. \A j \in Connections : j > k => j # n
        BY <2>2, <3>2
      <4> QED BY <1>4, <2>2, <2>3, <3>1, <3>2, <4>1
    <3>3. EndsIn(p, stage, b)'
      <4>1. ASSUME NEW k \in Connections, k >= n, ~Mute(wire'[stage][k], p),
                   \A j \in Connections : j > k => Mute(wire'[stage][j], p)
            PROVE  LastWord(wire'[stage][k], p, b)
        <5>1. ~Mute(wire[stage][k], p)
          BY <1>1, <1>4, <1>7, <4>1
        <5>2. LastWord(wire[stage][k], p, b)
          BY <2>1, <3>2, <4>1, <5>1 DEF EndsIn
        <5> QED BY <1>1, <1>4, <1>7, <5>2
      <4> QED BY <2>1, <3>1, <4>1 DEF EndsIn
    <3>4. ASSUME Quiet(p, stage)' PROVE present <=> b
      <4>1. \A k \in Connections : k >= n => Mute(wire'[stage][k], p)
        BY <3>1, <3>4 DEF Quiet
      <4>2. n \in Int /\ Mute(Tail(w), p)
        BY <1>4, <2>2, <4>1
      <4>3. \A j \in Connections : j > n => Mute(wire[stage][j], p)
        BY <1>4, <2>2, <4>1, <4>2
      <4>4. LastWord(w, p, b)
        BY <1>1, <1>7, <2>1, <3>1, <4>2, <4>3 DEF EndsIn
      <4> QED BY <1>7, <4>2, <4>4
    <3>5. Holds(p, stage)' <=> present
      BY <1>2, <1>3
    <3> QED BY <2>1, <3>3, <3>4, <3>5 DEF Testimony
  <2> QED BY <2>4, <2>5
<1>10. ASSUME NEW q \in Prefixes, NEW s \in Stages PROVE Truthful(q, s)'
  BY <1>1 DEF AllCurrent, Truthful, RouterHolds
<1> QED BY <1>8, <1>9, <1>10 DEF AllCurrent

(* AllCurrent is inductive.                                                *)
LEMMA PlanesKeep ==
    ASSUME Finite, IInv, RouterTypeOK, Made, AllCurrent, [PlanesNext]_vars
    PROVE  AllCurrent'
<1>0. RouterTypeOK' /\ Made'
  BY RouterTypes
<1>1. CASE Router
  BY <1>0, <1>1, RouterKeeps
<1>2. ASSUME NEW stage \in Stages, NEW n \in Connections, NEW proto \in Protos,
             Deliver(stage, n, proto)
      PROVE  AllCurrent'
  BY <1>2, DeliverKeeps
<1>3. ASSUME UNCHANGED <<wire, adv, intent, fib, ends, said, lost, heard, overtaken>>,
             \A q \in Prefixes, s \in Stages : Holds(q, s)' <=> Holds(q, s)
      PROVE  AllCurrent'
  <2>1. ASSUME NEW q \in Prefixes, NEW s \in Stages PROVE Testimony(q, s)' /\ Truthful(q, s)'
    <3>1. \A n \in Connections : SameWord(q, s, n)
      BY <1>3 DEF SameWord
    <3>2. SameHistory(q, s)
      BY <1>3 DEF SameHistory
    <3>3. said[q][s] \in BOOLEAN /\ Testimony(q, s) /\ Truthful(q, s)
      BY DEF RouterTypeOK, AllCurrent
    <3>4. Testimony(q, s)'
      BY <1>3, <3>1, <3>2, <3>3, UntouchedStays
    <3>5. Truthful(q, s)'
      BY <1>3, <3>3 DEF Truthful, RouterHolds
    <3> QED BY <3>4, <3>5
  <2> QED BY <2>1 DEF AllCurrent
<1>4. CASE TrackerScan \/ Clock \/ \E p \in Prefixes : TrackerEmit(p)
  <2>1. UNCHANGED <<wire, adv, intent, fib, ends, said, lost, heard, overtaken>>
    BY <1>4 DEF TrackerScan, Clock, TrackerEmit, routerVars
  <2>2. Scan \/ Tick \/ \E p \in Prefixes : Emit(p)
    BY <1>4 DEF TrackerScan, Clock, TrackerEmit
  <2> QED BY <1>3, <2>1, <2>2, OwnStepsHold
<1>5. CASE UNCHANGED vars
  <2>1. UNCHANGED <<wire, adv, intent, fib, ends, said, lost, heard, overtaken, routes>>
    BY <1>5 DEF vars, routerVars, lineageVars
  <2>2. \A q \in Prefixes, s \in Stages : Holds(q, s)' <=> Holds(q, s)
    BY <2>1 DEF Holds, Tracked
  <2> QED BY <1>3, <2>1, <2>2
<1> QED BY <1>1, <1>2, <1>4, <1>5 DEF PlanesNext

(* Once a plane has nothing more on its way about a prefix, the tracker    *)
(* repeats the plane's last word, in whatever order planes and connections *)
(* were read, unless that word was lost or an older one read after it.     *)
THEOREM TestimonyCorrect == ASSUME Finite PROVE PlanesSpec => []TestimonyIsCurrent
<1>1. PlanesInit => AllCurrent
  <2> SUFFICES ASSUME PlanesInit PROVE AllCurrent
    OBVIOUS
  <2>1. ASSUME NEW p \in Prefixes, NEW s \in Stages PROVE Testimony(p, s) /\ Truthful(p, s)
    <3>1. said[p][s] = FALSE /\ \A n \in Connections : wire[s][n] = <<>>
      BY DEF PlanesInit
    <3>2. ~Holds(p, s)
      BY DEF PlanesInit, Init, Holds, Tracked
    <3>3. \A n \in Connections : Mute(wire[s][n], p)
      BY <3>1 DEF Mute
    <3> QED BY <3>1, <3>2, <3>3 DEF Testimony, EndsIn, Truthful
  <2> QED BY <2>1 DEF AllCurrent
<1>2. IInv /\ RouterTypeOK /\ Made /\ AllCurrent /\ [PlanesNext]_vars => AllCurrent'
  BY PlanesKeep
<1>3. AllCurrent => TestimonyIsCurrent
  <2> SUFFICES ASSUME AllCurrent, NEW p \in Prefixes, NEW s \in Stages,
                      Settled(p, s), ~Misled(p, s)
               PROVE  /\ Holds(p, s) => RouterHolds(p, s) \/ Vanished(p, s)
                      /\ RouterHolds(p, s) => Holds(p, s) \/ Eclipsed(p, s)
                      /\ Holds(p, s) /\ (s = "kernel" \/ ends = 0) => RouterHolds(p, s)
    BY DEF TestimonyIsCurrent
  <2>1. Quiet(p, s)
    BY DEF Settled, Quiet, Mute
  <2>2. <<p, s>> \notin lost /\ <<p, s>> \notin overtaken
    BY DEF Misled
  <2>3. Holds(p, s) <=> said[p][s]
    BY <2>1, <2>2 DEF AllCurrent, Testimony
  <2> QED BY <2>3 DEF AllCurrent, Truthful, Vanished, Eclipsed
<1> QED BY <1>1, <1>2, <1>3, PlanesImplementLineage, IInvariant, PTL DEF PlanesSpec
================================================================================
