------------------------------ MODULE BmpProofs -------------------------------
(***************************************************************************)
(* BmpPeers: what is shown of a peer and of a route is the last word about *)
(* it, and stands where it belongs.  Proved for any targets, peers, VRFs,  *)
(* routes and bounds.                                                      *)
(***************************************************************************)
EXTENDS BmpPeers, TLAPS

----------------------------------------------------------------------------
(* Words.  The last word of a channel about a subject is what decides;     *)
(* A is all that speaks of the subject, G is what says the right thing.    *)
Hears(s, A) == \E i \in 1 .. Len(s) : s[i] \in A

EndsIn(s, A, G) == \E i \in 1 .. Len(s) : s[i] \in G /\ \A j \in i + 1 .. Len(s) : s[j] \notin A

LEMMA AppendWord ==
    ASSUME NEW M, NEW s \in Seq(M), NEW m \in M, NEW A, NEW G
    PROVE  /\ m \in G => EndsIn(Append(s, m), A, G)
           /\ m \notin A => /\ Hears(Append(s, m), A) => Hears(s, A)
                            /\ EndsIn(s, A, G) => EndsIn(Append(s, m), A, G)
<1> DEFINE v == Append(s, m)
<1>1. /\ Len(s) \in Nat /\ Len(v) = Len(s) + 1 /\ v[Len(s) + 1] = m
      /\ \A i \in 1 .. Len(s) : v[i] = s[i]
  OBVIOUS
<1> HIDE DEF v
<1>2. \A i \in 1 .. Len(v) : i \in 1 .. Len(s) \/ i = Len(s) + 1
  BY <1>1
<1>3. ASSUME m \in G PROVE EndsIn(v, A, G)
  <2>1. Len(v) \in 1 .. Len(v) /\ v[Len(v)] \in G /\ \A j \in Len(v) + 1 .. Len(v) : v[j] \notin A
    BY <1>1, <1>3
  <2> QED BY <2>1 DEF EndsIn
<1>4. ASSUME m \notin A, EndsIn(s, A, G) PROVE EndsIn(v, A, G)
  <2>1. PICK i \in 1 .. Len(s) : s[i] \in G /\ \A j \in i + 1 .. Len(s) : s[j] \notin A
    BY <1>4 DEF EndsIn
  <2>2. ASSUME NEW j \in i + 1 .. Len(v) PROVE v[j] \notin A
    <3>1. j \in i + 1 .. Len(s) \/ j = Len(s) + 1
      BY <1>1, <2>1
    <3>2. j \in i + 1 .. Len(s) => v[j] = s[j]
      BY <1>1, <2>1
    <3> QED BY <1>1, <1>4, <2>1, <3>1, <3>2
  <2>3. i \in 1 .. Len(v) /\ v[i] \in G
    BY <1>1, <2>1
  <2> QED BY <2>2, <2>3 DEF EndsIn
<1>5. ASSUME m \notin A, Hears(v, A) PROVE Hears(s, A)
  BY <1>1, <1>2, <1>5 DEF Hears
<1> QED BY <1>3, <1>4, <1>5 DEF v

LEMMA TailWord ==
    ASSUME NEW M, NEW s \in Seq(M), s # <<>>, NEW A, NEW G
    PROVE  /\ Hears(Tail(s), A) => Hears(s, A)
           /\ Head(s) \notin A => (Hears(s, A) => Hears(Tail(s), A))
           /\ EndsIn(s, A, G) => \/ EndsIn(Tail(s), A, G)
                                 \/ Head(s) \in G /\ ~Hears(Tail(s), A)
<1> DEFINE v == Tail(s)
<1>1. /\ Len(s) \in Nat \ {0} /\ Len(v) = Len(s) - 1 /\ Head(s) = s[1]
      /\ \A i \in 1 .. Len(v) : v[i] = s[i + 1]
  OBVIOUS
<1> HIDE DEF v
<1>2. \A k \in 2 .. Len(s) : k - 1 \in 1 .. Len(v) /\ s[k] = v[k - 1]
  <2>1. ASSUME NEW k \in 2 .. Len(s) PROVE k - 1 \in 1 .. Len(v) /\ s[k] = v[k - 1]
    <3>1. k - 1 \in 1 .. Len(v) /\ (k - 1) + 1 = k
      BY <1>1
    <3> QED BY <1>1, <3>1
  <2> QED BY <2>1
<1>3. \A k \in 1 .. Len(s) : k = 1 \/ k \in 2 .. Len(s)
  BY <1>1
<1>4. ASSUME Hears(v, A) PROVE Hears(s, A)
  <2>1. PICK i \in 1 .. Len(v) : v[i] \in A
    BY <1>4 DEF Hears
  <2>2. i + 1 \in 1 .. Len(s) /\ s[i + 1] \in A
    BY <1>1, <2>1
  <2> QED BY <2>2 DEF Hears
<1>5. ASSUME Head(s) \notin A, Hears(s, A) PROVE Hears(v, A)
  <2>1. PICK k \in 1 .. Len(s) : s[k] \in A
    BY <1>5 DEF Hears
  <2> QED BY <1>1, <1>2, <1>3, <1>5, <2>1 DEF Hears
<1>6. ASSUME EndsIn(s, A, G), ~(Head(s) \in G /\ ~Hears(v, A)) PROVE EndsIn(v, A, G)
  <2>1. PICK k \in 1 .. Len(s) : s[k] \in G /\ \A j \in k + 1 .. Len(s) : s[j] \notin A
    BY <1>6 DEF EndsIn
  <2>2. CASE k = 1
    <3>1. Hears(v, A)
      BY <1>1, <1>6, <2>1, <2>2
    <3>2. PICK i \in 1 .. Len(v) : v[i] \in A
      BY <3>1 DEF Hears
    <3>3. i + 1 \in k + 1 .. Len(s) /\ s[i + 1] \in A
      BY <1>1, <2>2, <3>2
    <3> QED BY <2>1, <3>3
  <2>3. CASE k \in 2 .. Len(s)
    <3>1. k - 1 \in 1 .. Len(v) /\ v[k - 1] \in G
      BY <1>2, <2>1, <2>3
    <3>2. ASSUME NEW j \in (k - 1) + 1 .. Len(v) PROVE v[j] \notin A
      <4>1. j \in 1 .. Len(v) /\ j + 1 \in k + 1 .. Len(s)
        BY <1>1, <2>3
      <4> QED BY <1>1, <2>1, <4>1
    <3> QED BY <3>1, <3>2 DEF EndsIn
  <2> QED BY <1>3, <2>2, <2>3
<1> QED BY <1>4, <1>5, <1>6 DEF v

----------------------------------------------------------------------------
(* Connections and what goes through them                                  *)
Message == StateMsg \union VpnMsg \union EvpnMsg
Routing == VpnMsg \union EvpnMsg

\* The newest connection of a peer's target.
Line(p) == <<TargetOf[p], dials[TargetOf[p]]>>

LEMMA ConnFacts ==
    /\ \A c \in Conns : /\ c[1] \in Targets /\ c[2] \in 1 .. MaxDials[c[1]] /\ c[2] \in Nat
                        /\ c = <<c[1], c[2]>>
    /\ \A t \in Targets, i \in Nat : i > 0 /\ i <= MaxDials[t] => <<t, i>> \in Conns
<1>1. ASSUME NEW c \in Conns
      PROVE  /\ c[1] \in Targets /\ c[2] \in 1 .. MaxDials[c[1]] /\ c[2] \in Nat
             /\ c = <<c[1], c[2]>>
  <2>1. PICK t \in Targets : c \in {t} \X (1 .. MaxDials[t])
    BY DEF Conns
  <2>2. c[1] = t /\ c[2] \in 1 .. MaxDials[t] /\ c = <<c[1], c[2]>>
    BY <2>1
  <2>3. MaxDials[t] \in Nat
    BY BmpAssumption
  <2> QED BY <2>2, <2>3
<1>2. ASSUME NEW t \in Targets, NEW i \in Nat, i > 0, i <= MaxDials[t]
      PROVE  <<t, i>> \in Conns
  <2>1. i \in 1 .. MaxDials[t]
    BY <1>2, BmpAssumption
  <2>2. <<t, i>> \in {t} \X (1 .. MaxDials[t])
    BY <2>1
  <2> QED BY <2>2 DEF Conns
<1> QED BY <1>1, <1>2

LEMMA LineFacts ==
    ASSUME TypeOK, NEW p \in Peers
    PROVE  /\ TargetOf[p] \in Targets
           /\ Line(p)[1] = TargetOf[p] /\ Line(p)[2] = dials[TargetOf[p]]
           /\ dials[TargetOf[p]] > 0 => Line(p) \in Conns
<1>1. TargetOf[p] \in Targets
  BY BmpAssumption
<1>2. dials[TargetOf[p]] \in Nat /\ dials[TargetOf[p]] <= MaxDials[TargetOf[p]]
  BY <1>1 DEF TypeOK
<1> QED BY <1>1, <1>2, ConnFacts DEF Line

LEMMA StreamType == TypeOK => stream \in [Conns -> Seq(Message)]
BY DEF TypeOK, Message

LEMMA SendsEffect ==
    ASSUME TypeOK, NEW p \in Peers, NEW msg \in Message, Sends(p, msg)
    PROVE  /\ dials[TargetOf[p]] > 0 /\ Line(p) \in Conns
           /\ sends' \in 0 .. MaxSends
           /\ stream' \in [Conns -> Seq(Message)]
           /\ stream'[Line(p)] = Append(stream[Line(p)], msg)
           /\ \A c \in Conns : c # Line(p) => stream'[c] = stream[c]
<1>1. dials[TargetOf[p]] > 0 /\ Line(p) \in Conns
  BY LineFacts DEF Sends
<1>2. sends' \in 0 .. MaxSends
  BY BmpAssumption DEF Sends, TypeOK
<1>3. stream' = [stream EXCEPT ![Line(p)] = Append(@, msg)]
  BY DEF Sends, Line
<1>4. stream \in [Conns -> Seq(Message)]
  BY StreamType
<1>5. Append(stream[Line(p)], msg) \in Seq(Message)
  BY <1>1, <1>4
<1> HIDE DEF Line
<1> QED BY <1>1, <1>2, <1>3, <1>4, <1>5

(* What a connection holds is of its target's peers, and nothing is in one *)
(* that was not made yet.                                                  *)
Proper(t) == {m \in Message : /\ TargetOf[m.peer] = t
                              /\ m \in Routing => m.peer \in speakers[m.route]}
Ours(t) == {j \in Job : TargetOf[j.peer] = t}

StreamsWired == \A c \in Conns : \A i \in 1 .. Len(stream[c]) : stream[c][i] \in Proper(c[1])

JobsWired == \A c \in Conns : job[c] \in Ours(c[1]) \union {None}

Unmade == \A c \in Conns : c[2] > dials[c[1]] => stream[c] = <<>> /\ job[c] = None

Counted == \A c \in Conns : job[c] # None => newest[c[1]] >= c[2]

Wired == StreamsWired /\ JobsWired /\ Unmade /\ Counted

LEMMA TakesEffect ==
    ASSUME TypeOK, NEW c \in Conns, NEW about, Takes(c, about)
    PROVE  /\ stream[c] \in Seq(Message) /\ stream[c] # <<>> /\ job[c] = None
           /\ Head(stream[c]) \in Message /\ Head(stream[c]).about = about
           /\ Head(stream[c]) = stream[c][1] /\ 1 \in 1 .. Len(stream[c])
           /\ stream' \in [Conns -> Seq(Message)]
           /\ stream'[c] = Tail(stream[c])
           /\ \A d \in Conns : d # c => stream'[d] = stream[d]
           /\ Serves(c)
<1>1. stream \in [Conns -> Seq(Message)]
  BY StreamType
<1>2. stream[c] \in Seq(Message) /\ stream[c] # <<>> /\ Tail(stream[c]) \in Seq(Message)
  BY <1>1 DEF Takes
<1>3. /\ Head(stream[c]) \in Message /\ Head(stream[c]) = stream[c][1]
      /\ 1 \in 1 .. Len(stream[c])
  BY <1>2
<1> QED BY <1>1, <1>2, <1>3 DEF Takes

\* Whose goroutine moves has a connection, and its target has heard of it.
Alive(c) == c[2] <= dials[c[1]]

LEMMA ServesEffect ==
    ASSUME TypeOK, NEW c \in Conns, Alive(c), Serves(c)
    PROVE  /\ newest' \in [Targets -> Nat]
           /\ \A t \in Targets : newest[t] <= newest'[t] /\ newest'[t] <= dials[t]
           /\ newest'[c[1]] >= c[2]
           /\ \A t \in Targets : t # c[1] => newest'[t] = newest[t]
           /\ overtaken \subseteq overtaken' /\ overtaken' \subseteq Targets
           /\ newest[c[1]] = dials[c[1]] /\ c[2] # dials[c[1]] => c[1] \in overtaken'
<1>1. c[1] \in Targets /\ c[2] \in Nat
  BY ConnFacts
<1>2. newest \in [Targets -> Nat] /\ dials \in [Targets -> Nat] /\ overtaken \subseteq Targets
      /\ \A t \in Targets : newest[t] <= dials[t]
  BY DEF TypeOK
<1>3. newest' = [newest EXCEPT ![c[1]] = IF c[2] > newest[c[1]] THEN c[2] ELSE newest[c[1]]]
      /\ overtaken' = IF c[2] < newest[c[1]] THEN overtaken \union {c[1]} ELSE overtaken
  BY DEF Serves
<1> QED BY <1>1, <1>2, <1>3 DEF Alive

LEMMA WorkerAlive ==
    ASSUME TypeOK, Wired, NEW c \in Conns, stream[c] # <<>> \/ job[c] # None
    PROVE  Alive(c)
<1>1. c[1] \in Targets /\ c[2] \in Nat /\ dials[c[1]] \in Nat
  BY ConnFacts DEF TypeOK
<1> QED BY <1>1 DEF Wired, Unmade, Alive

(* The name a goroutine is about to learn or to write is the VRF's own,    *)
(* and so is what is learned and written, unless it was guessed.           *)
Fits(p, name, guesses) == RdOf[p] \notin guesses => name = Home(p)

JobNamed(j, guesses) ==
    /\ j.at # "write" => RdOf[j.peer] # None
    /\ j.at = "ask" \/ (j.name # None /\ Fits(j.peer, j.name, guesses))
    /\ j.at = "learn" => j.name \in Vrfs

Named ==
    /\ \A rd \in Rds \ guessed : rdVRF[rd] \in {None, VrfOf[rd]}
    /\ \A c \in Conns : job[c] # None => JobNamed(job[c], guessed)
    /\ \A i \in Instances, p \in Peers : neighbor[<<i, p>>] # None => Fits(p, i, guessed)

----------------------------------------------------------------------------
(* Types                                                                   *)
LEMMA FoundFacts ==
    ASSUME TypeOK, NEW p \in Peers, NEW state \in States
    PROVE  /\ Found(p, state).at \in {"ask", "learn", "write"}
           /\ Found(p, state).name \in Instances \union {None}
           /\ Found(p, state).at # "write" => RdOf[p] # None
           /\ Found(p, state).at = "ask" \/ Found(p, state).name # None
           /\ Found(p, state).at = "learn" => Found(p, state).name = VrfOf[RdOf[p]]
           /\ Found(p, state).at = "write" =>
                 IF RdOf[p] = None THEN Found(p, state).name = "default"
                 ELSE rdVRF[RdOf[p]] # None /\ Found(p, state).name = rdVRF[RdOf[p]]
<1>1. RdOf[p] \in Rds \union {None}
  BY BmpAssumption
<1>2. RdOf[p] # None => VrfOf[RdOf[p]] \in Vrfs /\ rdVRF[RdOf[p]] \in Vrfs \union {None}
  BY <1>1, BmpAssumption DEF TypeOK
<1>3. "default" # None /\ None \notin Vrfs
  BY NoneAssumption DEF Instances
<1> QED BY <1>1, <1>2, <1>3 DEF Found, Instances

LEMMA AskedFacts ==
    ASSUME NEW rd \in Rds, NEW names
    PROVE  /\ Asked(rd, names).at \in {"learn", "write"}
           /\ Asked(rd, names).name \in Instances /\ Asked(rd, names).name # None
           /\ Asked(rd, names).at = "learn" => Asked(rd, names).name \in Vrfs
           /\ names = {VrfOf[rd]} => Asked(rd, names).at = "learn" /\ Asked(rd, names).name = VrfOf[rd]
<1>1. CASE \E v \in Vrfs : names = {v}
  <2>1. PICK v \in Vrfs : names = {v}
    BY <1>1
  <2>2. (CHOOSE w \in Vrfs : names = {w}) = v
    BY <2>1
  <2>3. Asked(rd, names) = [at |-> "learn", name |-> v]
    BY <1>1, <2>2 DEF Asked
  <2>4. v # None
    BY NoneAssumption DEF Instances
  <2> QED BY <2>1, <2>3, <2>4 DEF Instances
<1>2. CASE ~ \E v \in Vrfs : names = {v}
  <2>1. Asked(rd, names) = [at |-> "write", name |-> rd]
    BY <1>2 DEF Asked
  <2>2. rd # None /\ VrfOf[rd] \in Vrfs
    BY BmpAssumption, NoneAssumption DEF Instances
  <2> QED BY <1>2, <2>1, <2>2 DEF Instances
<1> QED BY <1>1, <1>2

LEMMA MessageFacts ==
    /\ \A m \in Message : m.about = "state" => m \in StateMsg /\ m.peer \in Peers /\ m.state \in States
    /\ \A m \in Message : m.about = "vpn" => m \in VpnMsg /\ m.peer \in Peers /\ m.route \in Routes
    /\ \A m \in Message : m.about = "evpn" => m \in EvpnMsg /\ m.peer \in Peers /\ m.route \in Routes
    /\ \A m \in Message : m.peer \in Peers
    /\ \A m \in StateMsg : m.about = "state" /\ m \notin Routing
    /\ \A m \in Routing : m.about # "state" /\ m.withdraw \in BOOLEAN /\ m.route \in Routes
    /\ \A p \in Peers, state \in States :
          [about |-> "state", peer |-> p, state |-> state] \in StateMsg
    /\ \A p \in Peers, r \in Routes, withdraw \in BOOLEAN :
          [about |-> IF r \in VpnRoutes THEN "vpn" ELSE "evpn",
           peer |-> p, route |-> r, withdraw |-> withdraw] \in Routing
BY DEF Message, Routing, StateMsg, VpnMsg, EvpnMsg, Routes

LEMMA BoundFacts ==
    /\ MaxSends \in Nat /\ MaxFaults \in Nat /\ MaxDials \in [Targets -> Nat]
    /\ RdOf \in [Peers -> Rds \union {None}] /\ VrfOf \in [Rds -> Vrfs]
    /\ TargetOf \in [Peers -> Targets]
    /\ None \notin Job /\ None \notin States /\ None \notin Vrfs /\ None \notin Rds /\ None \notin Peers
BY BmpAssumption, NoneAssumption DEF Instances

LEMMA Types == ASSUME TypeOK, Wired, Named, [Next]_vars PROVE TypeOK'
<1>0. stream \in [Conns -> Seq(Message)]
  BY StreamType
<1>a. stream' \in [Conns -> Seq(Message)] => stream' \in [Conns -> Seq(StateMsg \union VpnMsg \union EvpnMsg)]
  BY DEF Message
<1>1. ASSUME NEW t \in Targets,
             NEW kept \in 0 .. IF dials[t] = 0 THEN 0 ELSE Len(stream[<<t, dials[t]>>]),
             Dial(t, kept)
      PROVE  TypeOK'
  <2>1. /\ dials' \in [Targets -> Nat] /\ newest' \in [Targets -> Nat]
        /\ \A u \in Targets : dials'[u] <= MaxDials[u] /\ newest'[u] <= dials'[u]
    <3>1. /\ dials[t] \in Nat /\ dials[t] < MaxDials[t] /\ dials' = [dials EXCEPT ![t] = dials[t] + 1]
          /\ UNCHANGED newest
      BY <1>1 DEF Dial, TypeOK
    <3>2. dials' \in [Targets -> Nat] /\ dials'[t] = dials[t] + 1
          /\ \A u \in Targets : u # t => dials'[u] = dials[u]
      BY <3>1 DEF TypeOK
    <3>3. MaxDials[t] \in Nat
      BY BoundFacts
    <3>4. ASSUME NEW u \in Targets PROVE dials'[u] <= MaxDials[u] /\ newest'[u] <= dials'[u]
      <4>1. newest[u] \in Nat /\ dials[u] \in Nat /\ newest[u] <= dials[u] /\ dials[u] <= MaxDials[u]
        BY DEF TypeOK
      <4> QED BY <3>1, <3>2, <3>3, <4>1
    <3> QED BY <3>1, <3>2, <3>4 DEF TypeOK
  <2>2. stream' \in [Conns -> Seq(Message)]
    <3>1. CASE dials[t] = 0
      BY <1>0, <1>1, <3>1 DEF Dial
    <3>2. CASE dials[t] # 0
      <4> DEFINE c == <<t, dials[t]>>
      <4>1. dials[t] \in Nat /\ dials[t] > 0 /\ dials[t] <= MaxDials[t]
        BY <3>2 DEF TypeOK
      <4>2. c \in Conns
        BY <4>1, ConnFacts
      <4>3. stream' = [stream EXCEPT ![c] = SubSeq(stream[c], 1, kept)] /\ kept \in 0 .. Len(stream[c])
        BY <1>1, <3>2 DEF Dial
      <4> HIDE DEF c
      <4>4. SubSeq(stream[c], 1, kept) \in Seq(Message)
        BY <1>0, <4>2, <4>3
      <4> QED BY <1>0, <4>2, <4>3, <4>4
    <3> QED BY <3>1, <3>2
  <2>3. told' \in [Peers -> States \union {None}] /\ adverts' \in [Peers -> SUBSET Routes]
    BY <1>1 DEF Dial, TypeOK
  <2>4. dropped' \in SUBSET Peers
    BY <1>1 DEF Dial, TypeOK
  <2> QED BY <1>1, <1>a, <2>1, <2>2, <2>3, <2>4 DEF Dial, cacheVars, TypeOK
<1>2. ASSUME NEW p \in Peers, NEW state \in States, PeerChanges(p, state) PROVE TypeOK'
  <2>1. stream' \in [Conns -> Seq(Message)] /\ sends' \in 0 .. MaxSends
    <3>1. [about |-> "state", peer |-> p, state |-> state] \in Message
      BY MessageFacts DEF Message
    <3> QED BY <1>2, <3>1, SendsEffect DEF PeerChanges
  <2>2. told' \in [Peers -> States \union {None}] /\ adverts' \in [Peers -> SUBSET Routes]
        /\ dropped' \in SUBSET Peers
    BY <1>2 DEF PeerChanges, TypeOK
  <2> QED BY <1>2, <1>a, <2>1, <2>2 DEF PeerChanges, cacheVars, TypeOK
<1>3. ASSUME NEW p \in Peers, NEW r \in Routes, NEW withdraw \in BOOLEAN, PeerUpdates(p, r, withdraw)
      PROVE  TypeOK'
  <2>1. stream' \in [Conns -> Seq(Message)] /\ sends' \in 0 .. MaxSends
    <3> DEFINE msg == [about |-> IF r \in VpnRoutes THEN "vpn" ELSE "evpn",
                       peer |-> p, route |-> r, withdraw |-> withdraw]
    <3>1. msg \in Message
      BY MessageFacts DEF Message, Routing
    <3>2. Sends(p, msg)
      BY <1>3 DEF PeerUpdates
    <3> HIDE DEF msg
    <3> QED BY <3>1, <3>2, SendsEffect
  <2>2. adverts' \in [Peers -> SUBSET Routes]
    BY <1>3 DEF PeerUpdates, TypeOK
  <2>3. speakers' \in [Routes -> SUBSET Peers]
    BY <1>3 DEF PeerUpdates, TypeOK
  <2> QED BY <1>3, <1>a, <2>1, <2>2, <2>3 DEF PeerUpdates, cacheVars, TypeOK
<1>4. ASSUME NEW v \in Vrfs, DeviceAppears(v) PROVE TypeOK'
  BY <1>4 DEF DeviceAppears, bgpdVars, cacheVars, bgpdHist, TypeOK
<1>5. ASSUME NEW c \in Conns, TakeState(c) PROVE TypeOK'
  <2>1. Takes(c, "state")
    BY <1>5 DEF TakeState
  <2>2. /\ stream' \in [Conns -> Seq(Message)] /\ Serves(c) /\ stream[c] # <<>>
        /\ Head(stream[c]) \in Message /\ Head(stream[c]).about = "state"
    BY <2>1, TakesEffect
  <2>3. newest' \in [Targets -> Nat] /\ (\A t \in Targets : newest'[t] <= dials[t]) /\ overtaken' \subseteq Targets
    BY <2>2, WorkerAlive, ServesEffect
  <2>4. job' \in [Conns -> Job \union {None}]
    <3> DEFINE msg == Head(stream[c])
               found == Found(msg.peer, msg.state)
               j == [peer |-> msg.peer, state |-> msg.state, at |-> found.at, name |-> found.name]
    <3>1. msg.peer \in Peers /\ msg.state \in States
      BY <2>2, MessageFacts
    <3>2. found.at \in {"ask", "learn", "write"} /\ found.name \in Instances \union {None}
      BY <3>1, FoundFacts
    <3>3. job' = [job EXCEPT ![c] = j]
      BY <1>5 DEF TakeState
    <3> HIDE DEF msg, found
    <3>4. j \in Job
      BY <3>1, <3>2 DEF Job
    <3> HIDE DEF j
    <3> QED BY <3>3, <3>4 DEF TypeOK
  <2> QED BY <1>5, <1>a, <2>2, <2>3, <2>4 DEF TakeState, bgpdVars, cacheVars, bgpdHist, TypeOK
<1>6. ASSUME NEW c \in Conns, job[c] # None, Serves(c)
      PROVE  newest' \in [Targets -> Nat] /\ (\A t \in Targets : newest'[t] <= dials[t]) /\ overtaken' \subseteq Targets
  BY <1>6, WorkerAlive, ServesEffect
<1>7. ASSUME NEW c \in Conns, job[c] # None
      PROVE  /\ job[c] \in Job /\ job[c].peer \in Peers /\ job[c].name \in Instances \union {None}
             /\ job[c].state \in States
  <2>1. job[c] \in Job
    BY <1>7 DEF TypeOK
  <2> QED BY <2>1 DEF Job
<1>8. ASSUME NEW c \in Conns, Ask(c) PROVE TypeOK'
  <2> DEFINE rd == RdOf[job[c].peer]
  <2>1. job[c] # None /\ job[c].at = "ask" /\ Serves(c)
    BY <1>8 DEF Ask
  <2>2. rd \in Rds
    BY <1>7, <2>1, BoundFacts DEF Named, JobNamed
  <2>3. PICK names \in SUBSET Vrfs :
          /\ Look(names)
          /\ job' = [job EXCEPT ![c].at = Asked(rd, names).at, ![c].name = Asked(rd, names).name]
          /\ guessed' = IF names = {VrfOf[rd]} THEN guessed ELSE guessed \union {rd}
    BY <1>8 DEF Ask
  <2>4. Asked(rd, names).at \in {"learn", "write"} /\ Asked(rd, names).name \in Instances
    BY <2>2, AskedFacts
  <2>5. guessed' \in SUBSET Rds
    BY <2>2, <2>3 DEF TypeOK
  <2>7. faults' \in 0 .. MaxFaults
    BY <2>3, BoundFacts DEF Look, TypeOK
  <2> HIDE DEF rd
  <2>6. job' \in [Conns -> Job \union {None}]
    <3>1. [[job[c] EXCEPT !.at = Asked(rd, names).at] EXCEPT !.name = Asked(rd, names).name] \in Job
      BY <1>7, <2>1, <2>4 DEF Job
    <3> QED BY <2>3, <3>1 DEF TypeOK
  <2> QED BY <1>6, <1>8, <2>1, <2>5, <2>6, <2>7 DEF Ask, bgpdVars, cacheVars, bgpdHist, TypeOK
<1>9. ASSUME NEW c \in Conns, Learn(c) PROVE TypeOK'
  <2>1. job[c] # None /\ job[c].at = "learn" /\ Serves(c)
    BY <1>9 DEF Learn
  <2>2. RdOf[job[c].peer] \in Rds /\ job[c].name \in Vrfs
    BY <1>7, <2>1, BoundFacts DEF Named, JobNamed
  <2>3. rdVRF' \in [Rds -> Vrfs \union {None}]
    BY <1>9, <2>2 DEF Learn, TypeOK
  <2>4. job' \in [Conns -> Job \union {None}]
    <3>1. [job[c] EXCEPT !.at = "write"] \in Job
      BY <1>7, <2>1 DEF Job
    <3> QED BY <1>9, <3>1 DEF Learn, TypeOK
  <2> QED BY <1>6, <1>9, <2>1, <2>3, <2>4 DEF Learn, bgpdVars, cacheVars, bgpdHist, TypeOK
<1>10. ASSUME NEW c \in Conns, WriteState(c) PROVE TypeOK'
  <2>1. job[c] # None /\ Serves(c)
    BY <1>10 DEF WriteState
  <2>2. neighbor' \in [Instances \X Peers -> States \union {None}] /\ job' \in [Conns -> Job \union {None}]
    BY <1>7, <1>10, <2>1 DEF WriteState, TypeOK
  <2> QED BY <1>6, <1>10, <2>1, <2>2 DEF WriteState, bgpdVars, bgpdHist, TypeOK
<1>11. ASSUME NEW c \in Conns, TakeVpn(c) \/ TakeEvpn(c) PROVE TypeOK'
  <2>1. Takes(c, "vpn") \/ Takes(c, "evpn")
    BY <1>11 DEF TakeVpn, TakeEvpn
  <2>2. /\ stream' \in [Conns -> Seq(Message)] /\ Serves(c) /\ stream[c] # <<>>
        /\ Head(stream[c]) \in Message
    BY <2>1, TakesEffect
  <2>3. newest' \in [Targets -> Nat] /\ (\A t \in Targets : newest'[t] <= dials[t]) /\ overtaken' \subseteq Targets
    BY <2>2, WorkerAlive, ServesEffect
  <2>4. rib' \in [Routes -> Peers \union {None}]
    <3>1. Head(stream[c]).peer \in Peers
      BY <2>2, MessageFacts
    <3> QED BY <1>11, <3>1 DEF TakeVpn, TakeEvpn, Path, TypeOK
  <2> QED BY <1>11, <1>a, <2>2, <2>3, <2>4 DEF TakeVpn, TakeEvpn, bgpdVars, bgpdHist, TypeOK
<1>12. CASE UNCHANGED vars
  BY <1>12 DEF vars, bgpdVars, cacheVars, bgpdHist, TypeOK
<1> QED BY <1>1, <1>2, <1>3, <1>4, <1>5, <1>8, <1>9, <1>10, <1>11, <1>12 DEF Next, Bgpd, Handlers

LEMMA AskEffect ==
    ASSUME TypeOK, NEW c \in Conns, Ask(c), RdOf[job[c].peer] \in Rds
    PROVE  /\ job[c] \in Job /\ job'[c] \in Job
           /\ job'[c].peer = job[c].peer /\ job'[c].state = job[c].state
           /\ job'[c].at \in {"learn", "write"} /\ job'[c].name # None
           /\ job'[c].at = "learn" => job'[c].name \in Vrfs
           /\ \/ guessed' = guessed \union {RdOf[job[c].peer]}
              \/ guessed' = guessed /\ job'[c].name = VrfOf[RdOf[job[c].peer]]
           /\ \A d \in Conns : d # c => job'[d] = job[d]
<1> DEFINE rd == RdOf[job[c].peer]
<1>0. PICK names \in SUBSET Vrfs :
        /\ job' = [job EXCEPT ![c].at = Asked(rd, names).at, ![c].name = Asked(rd, names).name]
        /\ guessed' = IF names = {VrfOf[rd]} THEN guessed ELSE guessed \union {rd}
  BY DEF Ask
<1>6. rd \in Rds
  OBVIOUS
<1> DEFINE found == Asked(rd, names)
<1>1. /\ job[c] \in Job /\ found.at \in {"learn", "write"} /\ found.name \in Instances /\ found.name # None
      /\ found.at = "learn" => found.name \in Vrfs
      /\ names = {VrfOf[rd]} => found.name = VrfOf[rd]
  <2>1. job[c] \in Job
    BY DEF Ask, TypeOK
  <2> HIDE DEF rd
  <2> QED BY <1>6, <2>1, AskedFacts
<1>2. job' = [job EXCEPT ![c].at = found.at, ![c].name = found.name]
  BY <1>0
<1> HIDE DEF found, rd
<1>3. /\ job'[c] = [[job[c] EXCEPT !.at = found.at] EXCEPT !.name = found.name]
      /\ \A d \in Conns : d # c => job'[d] = job[d]
  BY <1>2 DEF TypeOK
<1>4. /\ job'[c] \in Job
      /\ job'[c].peer = job[c].peer /\ job'[c].state = job[c].state
      /\ job'[c].at = found.at /\ job'[c].name = found.name
  BY <1>1, <1>3 DEF Job
<1>5. \/ guessed' = guessed \union {rd}
      \/ guessed' = guessed /\ found.name = VrfOf[rd]
  BY <1>0, <1>1
<1> QED BY <1>1, <1>3, <1>4, <1>5 DEF rd

LEMMA LearnEffect ==
    ASSUME TypeOK, NEW c \in Conns, Learn(c)
    PROVE  /\ job[c] \in Job /\ job'[c] \in Job
           /\ job'[c].peer = job[c].peer /\ job'[c].state = job[c].state
           /\ job'[c].at = "write" /\ job'[c].name = job[c].name
           /\ \A d \in Conns : d # c => job'[d] = job[d]
<1>1. job[c] \in Job
  BY DEF Learn, TypeOK
<1>2. job'[c] = [job[c] EXCEPT !.at = "write"] /\ \A d \in Conns : d # c => job'[d] = job[d]
  BY DEF Learn, TypeOK
<1>3. /\ job'[c] \in Job
      /\ job'[c].peer = job[c].peer /\ job'[c].state = job[c].state
      /\ job'[c].at = "write" /\ job'[c].name = job[c].name
  BY <1>1, <1>2 DEF Job
<1> QED BY <1>1, <1>2, <1>3

----------------------------------------------------------------------------
(* Wired is inductive                                                      *)
LEMMA SpeakersGrow ==
    ASSUME TypeOK, [Next]_vars
    PROVE  /\ \A r \in Routes : speakers[r] \subseteq speakers'[r]
           /\ \A t \in Targets : Proper(t) \subseteq Proper(t)'
<1>1. \A r \in Routes : speakers[r] \subseteq speakers'[r]
  <2>1. ASSUME NEW p \in Peers, NEW r \in Routes, NEW withdraw \in BOOLEAN, PeerUpdates(p, r, withdraw)
        PROVE  \A q \in Routes : speakers[q] \subseteq speakers'[q]
    BY <2>1 DEF PeerUpdates, TypeOK
  <2>2. (~ \E p \in Peers, r \in Routes, withdraw \in BOOLEAN : PeerUpdates(p, r, withdraw))
          => UNCHANGED speakers
    BY DEF Next, Bgpd, Handlers, Dial, PeerChanges, DeviceAppears, TakeState, Ask, Learn,
       WriteState, TakeVpn, TakeEvpn, bgpdHist, vars
  <2> QED BY <2>1, <2>2
<1>2. \A m \in Routing : m.route \in Routes
  BY MessageFacts
<1> QED BY <1>1, <1>2 DEF Proper

\* A step that puts nothing into a stream, and takes no connection's word away
\* but for its target to dial.
LEMMA StreamsKept ==
    ASSUME TypeOK, Wired, [Next]_vars,
           \A c \in Conns : \A i \in 1 .. Len(stream'[c]) :
               \E j \in 1 .. Len(stream[c]) : stream'[c][i] = stream[c][j]
    PROVE  StreamsWired'
<1> SUFFICES ASSUME NEW c \in Conns, NEW i \in 1 .. Len(stream'[c])
             PROVE  stream'[c][i] \in Proper(c[1])'
  BY DEF StreamsWired
<1>1. PICK j \in 1 .. Len(stream[c]) : stream'[c][i] = stream[c][j]
  OBVIOUS
<1>2. stream[c][j] \in Proper(c[1]) /\ c[1] \in Targets
  BY ConnFacts DEF Wired, StreamsWired
<1> QED BY <1>1, <1>2, SpeakersGrow

LEMMA TakenKept ==
    ASSUME TypeOK, NEW c \in Conns, NEW about, Takes(c, about)
    PROVE  \A d \in Conns : \A i \in 1 .. Len(stream'[d]) :
               \E j \in 1 .. Len(stream[d]) : stream'[d][i] = stream[d][j]
<1>1. /\ stream[c] \in Seq(Message) /\ stream[c] # <<>> /\ stream'[c] = Tail(stream[c])
      /\ \A d \in Conns : d # c => stream'[d] = stream[d]
  BY TakesEffect
<1>2. ASSUME NEW i \in 1 .. Len(stream'[c])
      PROVE  \E j \in 1 .. Len(stream[c]) : stream'[c][i] = stream[c][j]
  <2>1. Len(stream'[c]) = Len(stream[c]) - 1 /\ Len(stream[c]) \in Nat /\ stream'[c][i] = stream[c][i + 1]
    BY <1>1
  <2>2. i + 1 \in 1 .. Len(stream[c])
    BY <2>1
  <2> QED BY <2>1, <2>2
<1> QED BY <1>1, <1>2

LEMMA SentKept ==
    ASSUME TypeOK, Wired, [Next]_vars, NEW p \in Peers, NEW msg \in Message, Sends(p, msg),
           msg \in Proper(TargetOf[p])'
    PROVE  StreamsWired'
<1>1. /\ Line(p) \in Conns /\ stream'[Line(p)] = Append(stream[Line(p)], msg)
      /\ stream[Line(p)] \in Seq(Message)
      /\ \A c \in Conns : c # Line(p) => stream'[c] = stream[c]
  BY SendsEffect, StreamType
<1>2. Line(p)[1] = TargetOf[p]
  BY LineFacts
<1> SUFFICES ASSUME NEW c \in Conns, NEW i \in 1 .. Len(stream'[c])
             PROVE  stream'[c][i] \in Proper(c[1])'
  BY DEF StreamsWired
<1>3. c[1] \in Targets
  BY ConnFacts
<1>4. \/ i \in 1 .. Len(stream[c]) /\ stream'[c][i] = stream[c][i]
      \/ c = Line(p) /\ stream'[c][i] = msg
  <2>1. CASE c # Line(p)
    BY <1>1, <2>1
  <2>2. CASE c = Line(p)
    <3> DEFINE s == stream[Line(p)]
    <3>1. s \in Seq(Message) /\ i \in 1 .. Len(Append(s, msg)) /\ stream'[c] = Append(s, msg)
      BY <1>1, <2>2
    <3> HIDE DEF s
    <3>2. (i \in 1 .. Len(s) /\ Append(s, msg)[i] = s[i]) \/ Append(s, msg)[i] = msg
      BY <3>1
    <3> QED BY <2>2, <3>1, <3>2 DEF s
  <2> QED BY <2>1, <2>2
<1>5. i \in 1 .. Len(stream[c]) => stream[c][i] \in Proper(c[1])'
  BY <1>3, SpeakersGrow DEF Wired, StreamsWired
<1> QED BY <1>2, <1>4, <1>5

LEMMA WiredNext == ASSUME TypeOK, Wired, Named, [Next]_vars PROVE Wired'
<1>1. ASSUME NEW t \in Targets,
             NEW kept \in 0 .. IF dials[t] = 0 THEN 0 ELSE Len(stream[<<t, dials[t]>>]),
             Dial(t, kept)
      PROVE  Wired'
  <2>1. /\ dials' = [dials EXCEPT ![t] = @ + 1] /\ dials \in [Targets -> Nat]
        /\ UNCHANGED <<job, newest>>
    BY <1>1 DEF Dial, TypeOK
  <2>2. ASSUME NEW c \in Conns
        PROVE  /\ stream'[c] = stream[c] \/ c = <<t, dials[t]>>
               /\ \A i \in 1 .. Len(stream'[c]) :
                      \E j \in 1 .. Len(stream[c]) : stream'[c][i] = stream[c][j]
    <3>1. CASE c # <<t, dials[t]>> \/ dials[t] = 0
      BY <1>1, <3>1 DEF Dial, TypeOK
    <3>2. CASE c = <<t, dials[t]>> /\ dials[t] # 0
      <4>1. stream'[c] = SubSeq(stream[c], 1, kept) /\ kept \in 0 .. Len(stream[c])
            /\ stream[c] \in Seq(Message)
        BY <1>1, <3>2, StreamType DEF Dial
      <4>2. \A i \in 1 .. Len(stream'[c]) : i \in 1 .. Len(stream[c]) /\ stream'[c][i] = stream[c][i]
        BY <4>1
      <4> QED BY <3>2, <4>2
    <3> QED BY <3>1, <3>2
  <2>3. StreamsWired'
    BY <2>2, StreamsKept
  <2>4. ASSUME NEW c \in Conns, c[2] > dials'[c[1]] PROVE stream'[c] = <<>> /\ job'[c] = None
    <3>1. c[1] \in Targets /\ c[2] \in Nat /\ c = <<c[1], c[2]>>
      BY ConnFacts
    <3>2. c[2] > dials[c[1]] /\ c # <<t, dials[t]>>
      BY <2>1, <2>4, <3>1
    <3> QED BY <2>1, <2>2, <3>2 DEF Wired, Unmade
  <2> QED BY <2>1, <2>3, <2>4 DEF Wired, JobsWired, Unmade, Counted, Ours
<1>2. ASSUME NEW p \in Peers, NEW msg \in Message, Sends(p, msg), StreamsWired',
             UNCHANGED <<dials, job, newest>>
      PROVE  Wired'
  <2>1. Line(p)[1] = TargetOf[p] /\ Line(p)[2] = dials[TargetOf[p]] /\ TargetOf[p] \in Targets
        /\ dials[TargetOf[p]] \in Nat
    BY LineFacts DEF TypeOK
  <2>2. \A c \in Conns : c # Line(p) => stream'[c] = stream[c]
    BY <1>2, SendsEffect
  <2>3. Unmade'
    BY <1>2, <2>1, <2>2 DEF Wired, Unmade
  <2> QED BY <1>2, <2>3 DEF Wired, JobsWired, Counted, Ours
<1>3. ASSUME NEW p \in Peers, NEW state \in States, PeerChanges(p, state) PROVE Wired'
  <2> DEFINE msg == [about |-> "state", peer |-> p, state |-> state]
  <2>1. msg \in Message /\ msg \notin Routing /\ msg.peer = p
    BY MessageFacts DEF Message
  <2>2. Sends(p, msg) /\ UNCHANGED <<dials, job, newest>>
    BY <1>3 DEF PeerChanges
  <2> HIDE DEF msg
  <2>3. msg \in Proper(TargetOf[p])'
    BY <2>1 DEF Proper
  <2>4. StreamsWired'
    BY <2>1, <2>2, <2>3, SentKept
  <2> QED BY <1>2, <2>1, <2>2, <2>4
<1>4. ASSUME NEW p \in Peers, NEW r \in Routes, NEW withdraw \in BOOLEAN, PeerUpdates(p, r, withdraw)
      PROVE  Wired'
  <2> DEFINE msg == [about |-> IF r \in VpnRoutes THEN "vpn" ELSE "evpn",
                     peer |-> p, route |-> r, withdraw |-> withdraw]
  <2>1. msg \in Message /\ msg.peer = p /\ msg.route = r
    BY MessageFacts DEF Message, Routing
  <2>2. Sends(p, msg) /\ UNCHANGED <<dials, job, newest>>
    BY <1>4 DEF PeerUpdates
  <2> HIDE DEF msg
  <2>3. p \in speakers'[r]
    BY <1>4 DEF PeerUpdates, TypeOK
  <2>4. msg \in Proper(TargetOf[p])'
    BY <2>1, <2>3 DEF Proper
  <2>5. StreamsWired'
    BY <2>1, <2>2, <2>4, SentKept
  <2> QED BY <1>2, <2>1, <2>2, <2>5
<1>5. ASSUME UNCHANGED <<dials, stream, job, newest>> PROVE Wired'
  <2>1. StreamsWired'
    BY <1>5, StreamsKept
  <2> QED BY <1>5, <2>1 DEF Wired, JobsWired, Unmade, Counted, Ours
<1>6. ASSUME NEW c \in Conns, Alive(c), Serves(c), StreamsWired', UNCHANGED dials,
             \A d \in Conns : d # c => stream'[d] = stream[d] /\ job'[d] = job[d],
             job'[c] \in Ours(c[1]) \union {None}
      PROVE  Wired'
  <2>1. /\ newest'[c[1]] >= c[2] /\ newest' \in [Targets -> Nat] /\ newest \in [Targets -> Nat]
        /\ \A t \in Targets : newest[t] <= newest'[t]
    BY <1>6, ServesEffect DEF TypeOK
  <2>2. \A d \in Conns : d[1] \in Targets /\ d[2] \in Nat
    BY ConnFacts
  <2>3. Counted'
    BY <1>6, <2>1, <2>2 DEF Wired, Counted
  <2>4. Unmade'
    <3>1. ~ (c[2] > dials[c[1]])
      BY <1>6, <2>2 DEF Alive, TypeOK
    <3> QED BY <1>6, <3>1 DEF Wired, Unmade
  <2>5. JobsWired'
    BY <1>6 DEF Wired, JobsWired, Ours
  <2> QED BY <1>6, <2>3, <2>4, <2>5 DEF Wired
<1>7. ASSUME NEW c \in Conns, TakeState(c) PROVE Wired'
  <2>1. Takes(c, "state") /\ UNCHANGED dials
    BY <1>7 DEF TakeState, bgpdVars
  <2>2. /\ Serves(c) /\ stream[c] # <<>> /\ Head(stream[c]) \in Message /\ Head(stream[c]).about = "state"
        /\ Head(stream[c]) = stream[c][1] /\ 1 \in 1 .. Len(stream[c])
        /\ \A d \in Conns : d # c => stream'[d] = stream[d]
    BY <2>1, TakesEffect
  <2>3. StreamsWired'
    BY <2>1, TakenKept, StreamsKept
  <2> DEFINE msg == Head(stream[c])
             found == Found(msg.peer, msg.state)
             j == [peer |-> msg.peer, state |-> msg.state, at |-> found.at, name |-> found.name]
  <2>4. job' = [job EXCEPT ![c] = j]
    BY <1>7 DEF TakeState
  <2>5. msg.peer \in Peers /\ msg.state \in States /\ TargetOf[msg.peer] = c[1]
    BY <2>2, MessageFacts DEF Wired, StreamsWired, Proper
  <2>6. found.at \in {"ask", "learn", "write"} /\ found.name \in Instances \union {None}
    BY <2>5, FoundFacts
  <2> HIDE DEF msg, found
  <2>7. j \in Ours(c[1])
    BY <2>5, <2>6 DEF Ours, Job
  <2> HIDE DEF j
  <2>8. job'[c] = j /\ \A d \in Conns : d # c => job'[d] = job[d]
    BY <2>4 DEF TypeOK
  <2>9. Alive(c)
    BY <2>2, WorkerAlive
  <2> QED BY <1>6, <2>1, <2>2, <2>3, <2>7, <2>8, <2>9
<1>8. ASSUME NEW c \in Conns, Ask(c) \/ Learn(c) PROVE Wired'
  <2>1. job[c] # None /\ Serves(c) /\ UNCHANGED <<dials, stream>>
    BY <1>8 DEF Ask, Learn, bgpdVars
  <2>2. Alive(c) /\ StreamsWired'
    BY <2>1, WorkerAlive, StreamsKept
  <2>3. job[c] \in Ours(c[1])
    BY <2>1 DEF Wired, JobsWired
  <2>4. /\ job'[c] \in Job /\ job'[c].peer = job[c].peer
        /\ \A d \in Conns : d # c => job'[d] = job[d]
    <3>1. CASE Ask(c)
      <4>1. job[c].peer \in Peers /\ RdOf[job[c].peer] # None
        BY <2>3, <3>1 DEF Ask, Named, JobNamed, Ours, Job
      <4> QED BY <3>1, <4>1, AskEffect, BoundFacts
    <3>2. CASE Learn(c)
      BY <3>2, LearnEffect
    <3> QED BY <1>8, <3>1, <3>2
  <2>5. job'[c] \in Ours(c[1])
    BY <2>3, <2>4 DEF Ours
  <2> QED BY <1>6, <2>1, <2>2, <2>4, <2>5
<1>9. ASSUME NEW c \in Conns, WriteState(c) PROVE Wired'
  <2>1. job[c] # None /\ Serves(c) /\ UNCHANGED <<dials, stream>> /\ job' = [job EXCEPT ![c] = None]
    BY <1>9 DEF WriteState, bgpdVars
  <2>2. Alive(c) /\ StreamsWired'
    BY <2>1, WorkerAlive, StreamsKept
  <2> QED BY <1>6, <2>1, <2>2 DEF TypeOK
<1>10. ASSUME NEW c \in Conns, TakeVpn(c) \/ TakeEvpn(c) PROVE Wired'
  <2>1. (Takes(c, "vpn") \/ Takes(c, "evpn")) /\ UNCHANGED <<dials, job>>
    BY <1>10 DEF TakeVpn, TakeEvpn, bgpdVars
  <2>2. /\ Serves(c) /\ stream[c] # <<>>
        /\ \A d \in Conns : d # c => stream'[d] = stream[d]
    BY <2>1, TakesEffect
  <2>3. StreamsWired' /\ Alive(c)
    BY <2>1, <2>2, TakenKept, StreamsKept, WorkerAlive
  <2> QED BY <1>6, <2>1, <2>2, <2>3 DEF Wired, JobsWired
<1>11. ASSUME NEW v \in Vrfs, DeviceAppears(v) PROVE Wired'
  BY <1>5, <1>11 DEF DeviceAppears, bgpdVars
<1>12. CASE UNCHANGED vars
  BY <1>5, <1>12 DEF vars, bgpdVars
<1> QED BY <1>1, <1>3, <1>4, <1>7, <1>8, <1>9, <1>10, <1>11, <1>12 DEF Next, Bgpd, Handlers

----------------------------------------------------------------------------
(* Named is inductive                                                      *)
LEMMA GuessedGrows == ASSUME [Next]_vars PROVE guessed \subseteq guessed'
BY DEF Next, Bgpd, Handlers, Dial, PeerChanges, PeerUpdates, DeviceAppears, TakeState, Ask, Learn,
   WriteState, TakeVpn, TakeEvpn, vars

LEMMA FitsKept ==
    ASSUME [Next]_vars
    PROVE  /\ \A p, name : Fits(p, name, guessed) => Fits(p, name, guessed')
           /\ \A j : JobNamed(j, guessed) => JobNamed(j, guessed')
BY GuessedGrows DEF Fits, JobNamed

LEMMA NamedNext == ASSUME TypeOK, Wired, Named, [Next]_vars PROVE Named'
<1>1. \A c \in Conns : job[c] # None => JobNamed(job[c], guessed)
  BY DEF Named, JobNamed
<1>2. (/\ \A rd \in Rds \ guessed' : rdVRF'[rd] \in {None, VrfOf[rd]}
       /\ \A c \in Conns : job'[c] # None => JobNamed(job'[c], guessed')
       /\ \A i \in Instances, p \in Peers : neighbor'[<<i, p>>] # None => Fits(p, i, guessed')) => Named'
  BY DEF Named, JobNamed
<1>3. \A j : JobNamed(j, guessed) => JobNamed(j, guessed')
  BY FitsKept
<1>4. \A rd \in Rds \ guessed' : rdVRF[rd] \in {None, VrfOf[rd]}
  BY GuessedGrows DEF Named
<1>5. \A i \in Instances, p \in Peers : neighbor[<<i, p>>] # None => Fits(p, i, guessed')
  BY FitsKept DEF Named
<1>6. ASSUME UNCHANGED <<rdVRF, job, neighbor>> PROVE Named'
  BY <1>1, <1>2, <1>3, <1>4, <1>5, <1>6
<1>7. ASSUME NEW c \in Conns, TakeState(c) PROVE Named'
  <2> DEFINE msg == Head(stream[c])
             found == Found(msg.peer, msg.state)
             j == [peer |-> msg.peer, state |-> msg.state, at |-> found.at, name |-> found.name]
  <2>1. msg.peer \in Peers /\ msg.state \in States
    <3>1. msg \in Message /\ msg.about = "state"
      BY <1>7, TakesEffect DEF TakeState
    <3> HIDE DEF msg
    <3> QED BY <3>1, MessageFacts
  <2>2. job' = [job EXCEPT ![c] = j] /\ UNCHANGED <<rdVRF, neighbor>>
    BY <1>7 DEF TakeState, cacheVars
  <2>3. JobNamed(j, guessed)
    <3> HIDE DEF msg
    <3>1. RdOf[msg.peer] \in Rds \union {None}
      BY <2>1, BoundFacts
    <3>2. j.at = found.at /\ j.name = found.name /\ j.peer = msg.peer
      OBVIOUS
    <3>3. /\ found.at \in {"ask", "learn", "write"}
          /\ found.at # "write" => RdOf[msg.peer] # None
          /\ found.at = "ask" \/ found.name # None
          /\ found.at = "learn" => found.name = VrfOf[RdOf[msg.peer]]
          /\ found.at = "write" =>
                IF RdOf[msg.peer] = None THEN found.name = "default"
                ELSE rdVRF[RdOf[msg.peer]] # None /\ found.name = rdVRF[RdOf[msg.peer]]
      BY <2>1, FoundFacts
    <3> HIDE DEF j, found
    <3>4. found.at = "learn" => found.name = Home(msg.peer) /\ found.name \in Vrfs
      BY <3>1, <3>3, BoundFacts DEF Home
    <3>5. found.at = "write" => Fits(msg.peer, found.name, guessed)
      BY <3>1, <3>3 DEF Named, Fits, Home
    <3> QED BY <3>2, <3>3, <3>4, <3>5 DEF JobNamed, Fits
  <2> HIDE DEF j
  <2>4. job'[c] = j /\ \A d \in Conns : d # c => job'[d] = job[d]
    BY <2>2 DEF TypeOK
  <2> QED BY <1>1, <1>2, <1>3, <1>4, <1>5, <2>2, <2>3, <2>4
<1>8. ASSUME NEW c \in Conns, Ask(c) PROVE Named'
  <2> DEFINE rd == RdOf[job[c].peer]
             p == job[c].peer
  <2>1. job[c] # None /\ job[c].at = "ask" /\ UNCHANGED <<rdVRF, neighbor>> /\ job[c] \in Job
    BY <1>8 DEF Ask, cacheVars, TypeOK
  <2>2. p \in Peers /\ rd \in Rds /\ rd # None
    BY <1>1, <2>1, BoundFacts DEF JobNamed, Job
  <2>3. /\ job'[c] \in Job /\ job'[c].peer = p
        /\ job'[c].at \in {"learn", "write"} /\ job'[c].name # None
        /\ job'[c].at = "learn" => job'[c].name \in Vrfs
        /\ guessed' = guessed \union {rd} \/ job'[c].name = VrfOf[rd]
        /\ \A d \in Conns : d # c => job'[d] = job[d]
    BY <1>8, <2>2, AskEffect
  <2>4. RdOf[p] = rd /\ Home(p) = VrfOf[rd]
    BY <2>2 DEF Home
  <2> HIDE DEF p, rd
  <2>5. Fits(p, job'[c].name, guessed')
    BY <2>3, <2>4 DEF Fits
  <2>6. JobNamed(job'[c], guessed')
    BY <2>2, <2>3, <2>4, <2>5 DEF JobNamed
  <2> QED BY <1>1, <1>2, <1>3, <1>4, <1>5, <2>1, <2>3, <2>6
<1>9. ASSUME NEW c \in Conns, Learn(c) PROVE Named'
  <2>1. job[c] # None /\ job[c].at = "learn" /\ UNCHANGED <<neighbor, guessed>>
        /\ rdVRF' = [rdVRF EXCEPT ![RdOf[job[c].peer]] = job[c].name]
    BY <1>9 DEF Learn, cacheVars
  <2>2. /\ job[c] \in Job /\ job'[c] \in Job /\ job'[c].peer = job[c].peer
        /\ job'[c].at = "write" /\ job'[c].name = job[c].name
        /\ \A d \in Conns : d # c => job'[d] = job[d]
    BY <1>9, LearnEffect
  <2>3. job[c].name # None /\ Fits(job[c].peer, job[c].name, guessed) /\ RdOf[job[c].peer] # None
    BY <1>1, <2>1 DEF JobNamed
  <2>4. JobNamed(job'[c], guessed')
    BY <2>2, <2>3, FitsKept DEF JobNamed
  <2>5. \A rd \in Rds \ guessed' : rdVRF'[rd] \in {None, VrfOf[rd]}
    BY <1>4, <2>1, <2>3 DEF Fits, Home, TypeOK
  <2> QED BY <1>1, <1>2, <1>3, <1>5, <2>1, <2>2, <2>4, <2>5
<1>10. ASSUME NEW c \in Conns, WriteState(c) PROVE Named'
  <2>1. /\ job[c] # None /\ job[c].at = "write" /\ UNCHANGED rdVRF
        /\ neighbor' = [neighbor EXCEPT ![<<job[c].name, job[c].peer>>] = job[c].state]
        /\ job' = [job EXCEPT ![c] = None]
    BY <1>10 DEF WriteState
  <2>2. Fits(job[c].peer, job[c].name, guessed')
    BY <1>1, <2>1, FitsKept DEF JobNamed
  <2>3. \A i \in Instances, p \in Peers : neighbor'[<<i, p>>] # None => Fits(p, i, guessed')
    BY <1>5, <2>1, <2>2 DEF TypeOK
  <2> QED BY <1>1, <1>2, <1>3, <1>4, <2>1, <2>3 DEF TypeOK
<1>11. ASSUME NEW c \in Conns, TakeVpn(c) \/ TakeEvpn(c) PROVE Named'
  BY <1>6, <1>11 DEF TakeVpn, TakeEvpn
<1>12. ASSUME Bgpd PROVE Named'
  BY <1>6, <1>12 DEF Bgpd, Dial, PeerChanges, PeerUpdates, cacheVars
<1>13. ASSUME NEW v \in Vrfs, DeviceAppears(v) PROVE Named'
  BY <1>6, <1>13 DEF DeviceAppears, cacheVars
<1>14. CASE UNCHANGED vars
  BY <1>6, <1>14 DEF vars, cacheVars
<1> QED BY <1>7, <1>8, <1>9, <1>10, <1>11, <1>12, <1>13, <1>14 DEF Next, Handlers

----------------------------------------------------------------------------
(* The last word about a peer is on its way to the leaf, or is there       *)
About(p) == {m \in StateMsg : m.peer = p}

Saying(p, state) == {m \in StateMsg : m.peer = p /\ m.state = state}

AtWork(p) == job[Line(p)] # None /\ job[Line(p)].peer = p

\* The leaf that shows it: in the peer's own instance, unless that was guessed.
Stands(p) ==
    \E i \in Instances : neighbor[<<i, p>>] = told[p] /\ (RdOf[p] \notin guessed => i = Home(p))

Latest(p) ==
    told[p] # None /\ TargetOf[p] \notin overtaken =>
      \/ EndsIn(stream[Line(p)], About(p), Saying(p, told[p]))
      \/ /\ ~Hears(stream[Line(p)], About(p))
         /\ AtWork(p) /\ job[Line(p)].state = told[p]
      \/ /\ ~Hears(stream[Line(p)], About(p)) /\ ~AtWork(p)
         /\ newest[TargetOf[p]] = dials[TargetOf[p]]
         /\ Stands(p)

\* Of whom bgpd has spoken has a target that dialled in.
Reported == \A p \in Peers : told[p] # None => dials[TargetOf[p]] > 0

LEMMA LatestKept ==
    ASSUME NEW p \in Peers, Latest(p), told'[p] = told[p], Line(p)' = Line(p),
           dials'[TargetOf[p]] = dials[TargetOf[p]],
           overtaken \subseteq overtaken', guessed \subseteq guessed',
           told[p] # None =>
              /\ EndsIn(stream[Line(p)], About(p), Saying(p, told[p]))
                    => EndsIn(stream'[Line(p)], About(p), Saying(p, told[p]))
              /\ Hears(stream'[Line(p)], About(p)) => Hears(stream[Line(p)], About(p))
              /\ AtWork(p)' <=> AtWork(p)
              /\ AtWork(p) => job'[Line(p)].state = job[Line(p)].state
              /\ newest[TargetOf[p]] = dials[TargetOf[p]] => newest'[TargetOf[p]] = dials[TargetOf[p]]
              /\ \A i \in Instances : neighbor'[<<i, p>>] = neighbor[<<i, p>>]
    PROVE  Latest(p)'
<1> HIDE DEF Line, AtWork
<1>1. About(p)' = About(p) /\ Saying(p, told[p])' = Saying(p, told[p])
  BY DEF About, Saying
<1>2. told[p] # None /\ Stands(p) => Stands(p)'
  BY DEF Stands, Home
<1> SUFFICES ASSUME told[p] # None, TargetOf[p] \notin overtaken'
             PROVE  \/ EndsIn(stream'[Line(p)], About(p), Saying(p, told[p]))
                    \/ /\ ~Hears(stream'[Line(p)], About(p))
                       /\ AtWork(p)' /\ job'[Line(p)].state = told[p]
                    \/ /\ ~Hears(stream'[Line(p)], About(p)) /\ ~AtWork(p)'
                       /\ newest'[TargetOf[p]] = dials[TargetOf[p]]
                       /\ Stands(p)'
  BY <1>1 DEF Latest
<1> QED BY <1>2 DEF Latest

LEMMA LineKept ==
    ASSUME UNCHANGED dials, NEW p PROVE Line(p)' = Line(p)
BY DEF Line

LEMMA SentOther ==
    ASSUME TypeOK, NEW p \in Peers, NEW q \in Peers, NEW msg \in Message, Sends(q, msg),
           Line(p) \in Conns, NEW A, NEW G, msg \notin A
    PROVE  /\ EndsIn(stream[Line(p)], A, G) => EndsIn(stream'[Line(p)], A, G)
           /\ Hears(stream'[Line(p)], A) => Hears(stream[Line(p)], A)
<1>1. /\ stream'[Line(q)] = Append(stream[Line(q)], msg) /\ stream[Line(q)] \in Seq(Message)
      /\ \A c \in Conns : c # Line(q) => stream'[c] = stream[c]
  BY SendsEffect, StreamType
<1>2. CASE Line(p) # Line(q)
  BY <1>1, <1>2
<1>3. CASE Line(p) = Line(q)
  <2> DEFINE s == stream[Line(q)]
  <2>1. s \in Seq(Message) /\ stream'[Line(p)] = Append(s, msg) /\ stream[Line(p)] = s
    BY <1>1, <1>3
  <2> HIDE DEF s
  <2>2. /\ EndsIn(s, A, G) => EndsIn(Append(s, msg), A, G)
        /\ Hears(Append(s, msg), A) => Hears(s, A)
    BY <2>1, AppendWord
  <2> QED BY <2>1, <2>2
<1> QED BY <1>2, <1>3

LEMMA TakenOther ==
    ASSUME TypeOK, NEW c \in Conns, NEW about, Takes(c, about), NEW d \in Conns, NEW A, NEW G,
           c = d => Head(stream[c]) \notin G
    PROVE  /\ EndsIn(stream[d], A, G) => EndsIn(stream'[d], A, G)
           /\ Hears(stream'[d], A) => Hears(stream[d], A)
<1>1. /\ stream[c] \in Seq(Message) /\ stream[c] # <<>> /\ stream'[c] = Tail(stream[c])
      /\ c # d => stream'[d] = stream[d]
  BY TakesEffect
<1>2. CASE c # d
  BY <1>1, <1>2
<1>3. CASE c = d
  <2>1. Head(stream[c]) \notin G
    BY <1>3
  <2>2. /\ Hears(Tail(stream[c]), A) => Hears(stream[c], A)
        /\ EndsIn(stream[c], A, G) => \/ EndsIn(Tail(stream[c]), A, G)
                                      \/ Head(stream[c]) \in G
    BY <1>1, TailWord
  <2> QED BY <1>1, <1>3, <2>1, <2>2
<1> QED BY <1>2, <1>3

LEMMA ServesMore ==
    ASSUME TypeOK, NEW c \in Conns, Alive(c), Serves(c), NEW t \in Targets
    PROVE  /\ newest[t] = dials[t] => newest'[t] = dials[t]
           /\ c = <<t, dials[t]>> => newest'[t] = dials[t]
           /\ newest[t] = dials[t] /\ c[1] = t /\ c # <<t, dials[t]>> => t \in overtaken'
           /\ overtaken \subseteq overtaken'
<1>1. /\ newest[t] \in Nat /\ newest'[t] \in Nat /\ dials[t] \in Nat
      /\ newest[t] <= newest'[t] /\ newest'[t] <= dials[t] /\ newest'[c[1]] >= c[2]
      /\ newest[c[1]] = dials[c[1]] /\ c[2] # dials[c[1]] => c[1] \in overtaken'
      /\ overtaken \subseteq overtaken'
  BY ServesEffect DEF TypeOK
<1>2. c = <<c[1], c[2]>>
  BY ConnFacts
<1> QED BY <1>1, <1>2

LEMMA LatestNext ==
    ASSUME TypeOK, Wired, Named, Reported, [Next]_vars, NEW p \in Peers, Latest(p)
    PROVE  Latest(p)'
<1> DEFINE t == TargetOf[p]
           L == Line(p)
<1>1. t \in Targets /\ L[1] = t /\ L[2] = dials[t] /\ L = <<t, dials[t]>>
      /\ (told[p] # None => L \in Conns)
  BY LineFacts DEF Reported, Line
<1>2. guessed \subseteq guessed'
  BY GuessedGrows
<1>3. ASSUME NEW u \in Targets,
             NEW kept \in 0 .. IF dials[u] = 0 THEN 0 ELSE Len(stream[<<u, dials[u]>>]),
             Dial(u, kept)
      PROVE  Latest(p)'
  <2>1. CASE u = t
    <3>1. told'[p] = None
      BY <1>3, <2>1 DEF Dial
    <3> QED BY <3>1 DEF Latest
  <2>2. CASE u # t
    <3>1. told'[p] = told[p] /\ dials'[t] = dials[t] /\ stream'[L] = stream[L]
          /\ UNCHANGED <<overtaken, job, newest, neighbor>>
      BY <1>1, <1>3, <2>2 DEF Dial, cacheVars, TypeOK
    <3>2. Line(p)' = Line(p)
      BY <3>1 DEF Line
    <3>3. AtWork(p)' <=> AtWork(p)
      BY <3>1, <3>2 DEF AtWork
    <3> QED BY <1>2, <3>1, <3>2, <3>3, LatestKept
  <2> QED BY <2>1, <2>2
<1>4. ASSUME NEW q \in Peers, NEW msg \in Message, Sends(q, msg), msg \notin About(p), told'[p] = told[p],
             UNCHANGED <<dials, overtaken, job, newest, neighbor>>
      PROVE  Latest(p)'
  <2>1. Line(p)' = Line(p)
    BY <1>4, LineKept
  <2>2. AtWork(p)' <=> AtWork(p)
    BY <1>4, <2>1 DEF AtWork
  <2>3. told[p] # None =>
          /\ EndsIn(stream[L], About(p), Saying(p, told[p])) => EndsIn(stream'[L], About(p), Saying(p, told[p]))
          /\ Hears(stream'[L], About(p)) => Hears(stream[L], About(p))
    BY <1>1, <1>4, SentOther
  <2> QED BY <1>2, <1>4, <2>1, <2>2, <2>3, LatestKept
<1>5. ASSUME NEW q \in Peers, NEW state \in States, PeerChanges(q, state) PROVE Latest(p)'
  <2> DEFINE msg == [about |-> "state", peer |-> q, state |-> state]
  <2>1. msg \in Message /\ msg \in StateMsg /\ msg.peer = q /\ msg.state = state
    BY MessageFacts DEF Message
  <2>2. Sends(q, msg) /\ told' = [told EXCEPT ![q] = state]
        /\ UNCHANGED <<dials, overtaken, job, newest, neighbor>>
    BY <1>5 DEF PeerChanges, cacheVars
  <2> HIDE DEF msg
  <2>3. CASE q # p
    <3>1. msg \notin About(p) /\ told'[p] = told[p]
      BY <2>1, <2>2, <2>3 DEF About, TypeOK
    <3> QED BY <1>4, <2>1, <2>2, <3>1
  <2>4. CASE q = p
    <3>1. stream'[L] = Append(stream[L], msg) /\ stream[L] \in Seq(Message)
      BY <2>1, <2>2, <2>4, SendsEffect, StreamType
    <3>2. told'[p] = state /\ msg \in Saying(p, state)
      BY <2>1, <2>2, <2>4 DEF Saying, TypeOK
    <3>3. EndsIn(stream'[L], About(p), Saying(p, told'[p]))
      BY <2>1, <3>1, <3>2, AppendWord
    <3>4. Line(p)' = Line(p) /\ About(p)' = About(p) /\ Saying(p, told[p])' = Saying(p, told'[p])
      BY <2>2, LineKept DEF About, Saying
    <3> QED BY <3>3, <3>4 DEF Latest
  <2> QED BY <2>3, <2>4
<1>6. ASSUME NEW q \in Peers, NEW r \in Routes, NEW withdraw \in BOOLEAN, PeerUpdates(q, r, withdraw)
      PROVE  Latest(p)'
  <2> DEFINE msg == [about |-> IF r \in VpnRoutes THEN "vpn" ELSE "evpn",
                     peer |-> q, route |-> r, withdraw |-> withdraw]
  <2>1. msg \in Message /\ msg \in Routing
    BY MessageFacts DEF Message, Routing
  <2>2. Sends(q, msg) /\ UNCHANGED told /\ UNCHANGED <<dials, overtaken, job, newest, neighbor>>
    BY <1>6 DEF PeerUpdates, cacheVars
  <2> HIDE DEF msg
  <2>3. msg \notin About(p)
    BY <2>1, MessageFacts DEF About
  <2> QED BY <1>4, <2>1, <2>2, <2>3
<1>7. ASSUME NEW c \in Conns, TakeState(c) PROVE Latest(p)'
  <2> DEFINE msg == Head(stream[c])
  <2>1. Takes(c, "state") /\ UNCHANGED <<told, dials, neighbor, guessed>>
    BY <1>7 DEF TakeState, bgpdVars, cacheVars
  <2>2. /\ stream[c] # <<>> /\ stream[c] \in Seq(Message) /\ Serves(c) /\ job[c] = None
        /\ msg \in Message /\ msg.about = "state" /\ stream'[c] = Tail(stream[c])
        /\ \A d \in Conns : d # c => stream'[d] = stream[d]
    BY <2>1, TakesEffect
  <2>3. /\ newest[t] = dials[t] => newest'[t] = dials[t]
        /\ overtaken \subseteq overtaken'
    BY <1>1, <2>2, WorkerAlive, ServesMore
  <2>4. Line(p)' = Line(p)
    BY <2>1, LineKept
  <2>5. \A d \in Conns : d # c => job'[d] = job[d]
    BY <1>7 DEF TakeState, TypeOK
  <2>6. /\ job'[c] # None /\ job'[c].peer = msg.peer /\ job'[c].state = msg.state
    <3>1. job'[c] = [peer |-> msg.peer, state |-> msg.state,
                     at |-> Found(msg.peer, msg.state).at, name |-> Found(msg.peer, msg.state).name]
      BY <1>7 DEF TakeState, TypeOK
    <3>2. msg.peer \in Peers /\ msg.state \in States
      BY <2>2, MessageFacts
    <3>3. Found(msg.peer, msg.state).at \in {"ask", "learn", "write"}
          /\ Found(msg.peer, msg.state).name \in Instances \union {None}
      BY <3>2, FoundFacts
    <3> HIDE DEF msg
    <3>4. job'[c] \in Job
      BY <3>1, <3>2, <3>3 DEF Job
    <3> QED BY <3>1, <3>4, BoundFacts
  <2>7. CASE told[p] # None /\ c = L /\ msg \in Saying(p, told[p]) /\ ~Hears(Tail(stream[c]), About(p))
    <3>1. AtWork(p)' /\ job'[L].state = told[p] /\ ~Hears(stream'[L], About(p))
      BY <2>2, <2>4, <2>6, <2>7 DEF AtWork, Saying
    <3>2. About(p)' = About(p)
      BY DEF About
    <3> QED BY <2>1, <2>4, <3>1, <3>2 DEF Latest
  <2>8. CASE told[p] # None /\ c = L /\ ~(msg \in Saying(p, told[p]) /\ ~Hears(Tail(stream[c]), About(p)))
    <3>1. ~AtWork(p)
      BY <2>2, <2>8 DEF AtWork
    <3>2. /\ EndsIn(stream[c], About(p), Saying(p, told[p])) =>
                EndsIn(Tail(stream[c]), About(p), Saying(p, told[p]))
          /\ Hears(Tail(stream[c]), About(p)) => Hears(stream[c], About(p))
      BY <2>2, <2>8, TailWord
    <3>3. msg \in About(p) \/ ~AtWork(p)'
      BY <2>2, <2>4, <2>6, <2>8, MessageFacts DEF AtWork, About
    <3>4. msg \in About(p) => Hears(stream[c], About(p))
      BY <2>2 DEF Hears
    <3>5. About(p)' = About(p) /\ Saying(p, told[p])' = Saying(p, told[p])
      BY <2>1 DEF About, Saying
    <3>6. SUFFICES ASSUME t \notin overtaken'
                   PROVE  Latest(p)'
      BY DEF Latest
    <3>7. \/ EndsIn(stream[c], About(p), Saying(p, told[p]))
          \/ /\ ~Hears(stream[c], About(p))
             /\ newest[t] = dials[t]
             /\ Stands(p)
      BY <2>3, <2>8, <3>1, <3>6 DEF Latest
    <3>8. CASE EndsIn(stream[c], About(p), Saying(p, told[p]))
      BY <2>1, <2>2, <2>4, <2>8, <3>2, <3>5, <3>8 DEF Latest
    <3>9. CASE ~EndsIn(stream[c], About(p), Saying(p, told[p]))
      <4>1. ~Hears(stream'[c], About(p)) /\ ~AtWork(p)' /\ newest'[t] = dials[t]
            /\ Stands(p)
        BY <2>2, <2>3, <3>2, <3>3, <3>4, <3>7, <3>9
      <4>2. Stands(p)'
        BY <2>1, <4>1 DEF Stands, Home
      <4> QED BY <2>1, <2>4, <2>8, <3>5, <4>1, <4>2 DEF Latest
    <3> QED BY <3>8, <3>9
  <2>9. CASE told[p] # None /\ c # L
    <3>1. stream'[L] = stream[L] /\ job'[L] = job[L]
      BY <1>1, <2>2, <2>5, <2>9
    <3>2. AtWork(p)' <=> AtWork(p)
      BY <2>4, <3>1 DEF AtWork
    <3> QED BY <1>2, <2>1, <2>3, <2>4, <3>1, <3>2, LatestKept
  <2>10. CASE told[p] = None
    BY <2>1, <2>10 DEF Latest
  <2> QED BY <2>7, <2>8, <2>9, <2>10
<1>8. ASSUME NEW c \in Conns, Ask(c) \/ Learn(c) PROVE Latest(p)'
  <2>1. job[c] # None /\ Serves(c) /\ UNCHANGED <<told, dials, stream, neighbor>>
    BY <1>8 DEF Ask, Learn, bgpdVars, cacheVars
  <2>2. /\ newest[t] = dials[t] => newest'[t] = dials[t]
        /\ overtaken \subseteq overtaken'
    BY <1>1, <2>1, WorkerAlive, ServesMore
  <2>3. /\ job'[c] # None /\ job'[c].peer = job[c].peer /\ job'[c].state = job[c].state
        /\ \A d \in Conns : d # c => job'[d] = job[d]
    <3>1. CASE Ask(c)
      <4>1. job[c].peer \in Peers /\ RdOf[job[c].peer] # None
        BY <2>1, <3>1 DEF Ask, Wired, JobsWired, Named, JobNamed, Ours, Job
      <4> QED BY <3>1, <4>1, AskEffect, BoundFacts
    <3>2. CASE Learn(c)
      BY <3>2, LearnEffect, BoundFacts
    <3> QED BY <1>8, <3>1, <3>2
  <2>4. Line(p)' = Line(p)
    BY <2>1, LineKept
  <2>5. told[p] # None => (AtWork(p)' <=> AtWork(p)) /\ (AtWork(p) => job'[L].state = job[L].state)
    BY <1>1, <2>1, <2>3, <2>4 DEF AtWork
  <2> QED BY <1>2, <2>1, <2>2, <2>4, <2>5, LatestKept
<1>9. ASSUME NEW c \in Conns, WriteState(c) PROVE Latest(p)'
  <2>1. /\ job[c] # None /\ job[c].at = "write" /\ Serves(c)
        /\ neighbor' = [neighbor EXCEPT ![<<job[c].name, job[c].peer>>] = job[c].state]
        /\ job' = [job EXCEPT ![c] = None]
        /\ UNCHANGED <<told, dials, stream, guessed>>
    BY <1>9 DEF WriteState, bgpdVars
  <2>2. /\ newest[t] = dials[t] => newest'[t] = dials[t]
        /\ c = L => newest'[t] = dials[t]
        /\ newest[t] = dials[t] /\ c[1] = t /\ c # L => t \in overtaken'
        /\ overtaken \subseteq overtaken'
    BY <1>1, <2>1, WorkerAlive, ServesMore
  <2>3. Line(p)' = Line(p)
    BY <2>1, LineKept
  <2>4. job[c] \in Job /\ job[c].name \in Instances \union {None} /\ TargetOf[job[c].peer] = c[1]
        /\ job[c].peer \in Peers
    BY <2>1 DEF Wired, JobsWired, Ours, Job
  <2>5. job[c].name # None /\ Fits(job[c].peer, job[c].name, guessed)
    BY <2>1 DEF Named, JobNamed
  <2>6. <<job[c].name, job[c].peer>> \in Instances \X Peers
    BY <2>4, <2>5
  <2>7. CASE told[p] # None /\ c = L /\ job[c].peer = p
    <3>1. ~AtWork(p)' /\ AtWork(p)
      BY <2>1, <2>3, <2>4, <2>7 DEF AtWork, TypeOK
    <3>2. job[c].state = told[p] => Stands(p)'
      <4>1. neighbor'[<<job[c].name, p>>] = job[c].state /\ job[c].name \in Instances
        BY <2>1, <2>4, <2>5, <2>6, <2>7 DEF TypeOK
      <4> QED BY <2>1, <2>5, <2>7, <4>1 DEF Stands, Fits, Home
    <3>3. About(p)' = About(p) /\ Saying(p, told[p])' = Saying(p, told[p])
      BY <2>1 DEF About, Saying
    <3>4. SUFFICES ASSUME t \notin overtaken'
                   PROVE  Latest(p)'
      BY DEF Latest
    <3>5. \/ EndsIn(stream[L], About(p), Saying(p, told[p]))
          \/ ~Hears(stream[L], About(p)) /\ job[L].state = told[p]
      BY <2>2, <2>7, <3>1, <3>4 DEF Latest
    <3> QED BY <2>1, <2>2, <2>3, <2>7, <3>1, <3>2, <3>3, <3>5 DEF Latest
  <2>8. CASE told[p] # None /\ job[c].peer # p
    <3>1. \A i \in Instances : neighbor'[<<i, p>>] = neighbor[<<i, p>>]
      BY <2>1, <2>8 DEF TypeOK
    <3>2. (AtWork(p)' <=> AtWork(p)) /\ (AtWork(p) => job'[L].state = job[L].state)
      BY <1>1, <2>1, <2>3, <2>8 DEF AtWork, TypeOK
    <3> QED BY <1>2, <2>1, <2>2, <2>3, <3>1, <3>2, LatestKept
  <2>9. CASE told[p] # None /\ c # L /\ job[c].peer = p
    <3>1. newest[t] = dials[t] => t \in overtaken'
      BY <2>2, <2>4, <2>9
    <3>2. job'[L] = job[L]
      BY <1>1, <2>1, <2>9 DEF TypeOK
    <3>3. (AtWork(p)' <=> AtWork(p)) /\ stream'[L] = stream[L]
      BY <2>1, <2>3, <3>2 DEF AtWork
    <3>4. About(p)' = About(p) /\ Saying(p, told[p])' = Saying(p, told[p])
      BY <2>1 DEF About, Saying
    <3> QED BY <2>1, <2>2, <2>3, <2>9, <3>1, <3>2, <3>3, <3>4 DEF Latest
  <2>10. CASE told[p] = None
    BY <2>1, <2>10 DEF Latest
  <2> QED BY <2>7, <2>8, <2>9, <2>10
<1>10. ASSUME NEW c \in Conns, TakeVpn(c) \/ TakeEvpn(c) PROVE Latest(p)'
  <2>1. UNCHANGED <<told, dials, job, neighbor, guessed>>
    BY <1>10 DEF TakeVpn, TakeEvpn, bgpdVars
  <2>2. PICK about \in {"vpn", "evpn"} : Takes(c, about)
    BY <1>10 DEF TakeVpn, TakeEvpn
  <2>3. stream[c] # <<>> /\ Serves(c) /\ Head(stream[c]).about # "state"
    BY <2>2, TakesEffect
  <2>4. Head(stream[c]) \notin Saying(p, told[p])
    BY <2>3, MessageFacts DEF Saying
  <2>5. /\ newest[t] = dials[t] => newest'[t] = dials[t]
        /\ overtaken \subseteq overtaken'
    BY <1>1, <2>3, WorkerAlive, ServesMore
  <2>6. Line(p)' = Line(p)
    BY <2>1, LineKept
  <2>7. told[p] # None =>
          /\ EndsIn(stream[L], About(p), Saying(p, told[p])) => EndsIn(stream'[L], About(p), Saying(p, told[p]))
          /\ Hears(stream'[L], About(p)) => Hears(stream[L], About(p))
    BY <1>1, <2>2, <2>4, TakenOther
  <2>8. AtWork(p)' <=> AtWork(p)
    BY <2>1, <2>6 DEF AtWork
  <2> QED BY <1>2, <2>1, <2>5, <2>6, <2>7, <2>8, LatestKept
<1>11. ASSUME UNCHANGED <<told, dials, stream, job, neighbor, newest, overtaken>> PROVE Latest(p)'
  <2>1. Line(p)' = Line(p)
    BY <1>11, LineKept
  <2>2. AtWork(p)' <=> AtWork(p)
    BY <1>11, <2>1 DEF AtWork
  <2> QED BY <1>2, <1>11, <2>1, <2>2, LatestKept
<1>12. ASSUME NEW v \in Vrfs, DeviceAppears(v) PROVE Latest(p)'
  BY <1>11, <1>12 DEF DeviceAppears, bgpdVars, cacheVars
<1>13. CASE UNCHANGED vars
  BY <1>11, <1>13 DEF vars, bgpdVars, cacheVars
<1> QED BY <1>3, <1>5, <1>6, <1>7, <1>8, <1>9, <1>10, <1>12, <1>13 DEF Next, Bgpd, Handlers

LEMMA ReportedNext == ASSUME TypeOK, Reported, [Next]_vars PROVE Reported'
<1>1. ASSUME NEW t \in Targets,
             NEW kept \in 0 .. IF dials[t] = 0 THEN 0 ELSE Len(stream[<<t, dials[t]>>]),
             Dial(t, kept)
      PROVE  Reported'
  <2>1. \A u \in Targets : dials[u] > 0 => dials'[u] > 0
    BY <1>1 DEF Dial, TypeOK
  <2>2. \A p \in Peers : told'[p] # None => told[p] # None
    BY <1>1 DEF Dial
  <2> QED BY <2>1, <2>2, BoundFacts DEF Reported
<1>2. ASSUME NEW p \in Peers, NEW state \in States, PeerChanges(p, state) PROVE Reported'
  <2>1. dials[TargetOf[p]] > 0 /\ UNCHANGED dials /\ \A q \in Peers : q # p => told'[q] = told[q]
    BY <1>2 DEF PeerChanges, Sends, TypeOK
  <2> QED BY <2>1 DEF Reported
<1>3. ASSUME UNCHANGED <<told, dials>> PROVE Reported'
  BY <1>3 DEF Reported
<1>4. (\/ \E p \in Peers, r \in Routes, withdraw \in BOOLEAN : PeerUpdates(p, r, withdraw)
       \/ \E v \in Vrfs : DeviceAppears(v)
       \/ Handlers \/ UNCHANGED vars) => UNCHANGED <<told, dials>>
  BY DEF PeerUpdates, DeviceAppears, Handlers, TakeState, Ask, Learn, WriteState, TakeVpn, TakeEvpn,
     bgpdVars, vars
<1> QED BY <1>1, <1>2, <1>3, <1>4 DEF Next, Bgpd

----------------------------------------------------------------------------
(* The last word about a route that one peer alone spoke of                *)
Naming(r) == {m \in Routing : m.route = r}

Truly(r, p) == {m \in Routing : m.route = r /\ (m.withdraw <=> r \notin adverts[p])}

\* A peer that was not dropped has had one connection, and who advertises spoke.
Spoken ==
    /\ \A r \in Routes, p \in Peers :
          /\ r \in adverts[p] => p \in speakers[r]
          /\ p \in speakers[r] => dials[TargetOf[p]] > 0
    /\ \A p \in Peers : p \notin dropped => dials[TargetOf[p]] <= 1

RightPath(r, p) == IF r \in adverts[p] THEN p ELSE None

LastSaid(r, p) ==
    p \notin dropped =>
       /\ speakers[r] = {} => rib[r] = None
       /\ speakers[r] = {p} => \/ EndsIn(stream[Line(p)], Naming(r), Truly(r, p))
                               \/ /\ ~Hears(stream[Line(p)], Naming(r))
                                  /\ rib[r] = RightPath(r, p)

LEMMA SpokenNext == ASSUME TypeOK, Spoken, [Next]_vars PROVE Spoken'
<1>1. ASSUME NEW t \in Targets,
             NEW kept \in 0 .. IF dials[t] = 0 THEN 0 ELSE Len(stream[<<t, dials[t]>>]),
             Dial(t, kept)
      PROVE  Spoken'
  <2>1. /\ dials' = [dials EXCEPT ![t] = @ + 1] /\ dials \in [Targets -> Nat]
        /\ UNCHANGED speakers
        /\ \A p \in Peers : adverts'[p] \subseteq adverts[p]
        /\ \A p \in Peers : p \notin dropped' => p \notin dropped /\ (dials[t] = 0 \/ TargetOf[p] # t)
    BY <1>1 DEF Dial, TypeOK
  <2> QED BY <2>1, BoundFacts DEF Spoken
<1>2. ASSUME NEW p \in Peers, NEW state \in States, PeerChanges(p, state) PROVE Spoken'
  BY <1>2 DEF PeerChanges, Spoken, TypeOK
<1>3. ASSUME NEW p \in Peers, NEW r \in Routes, NEW withdraw \in BOOLEAN, PeerUpdates(p, r, withdraw)
      PROVE  Spoken'
  <2>1. /\ dials[TargetOf[p]] > 0 /\ UNCHANGED <<dials, dropped>>
        /\ adverts' = [adverts EXCEPT ![p] = IF withdraw THEN @ \ {r} ELSE @ \union {r}]
        /\ speakers' = [speakers EXCEPT ![r] = @ \union {p}]
    BY <1>3 DEF PeerUpdates, Sends
  <2>2. /\ \A q \in Peers : q # p => adverts'[q] = adverts[q]
        /\ adverts'[p] \subseteq adverts[p] \union {r}
        /\ \A s \in Routes : s # r => speakers'[s] = speakers[s]
        /\ speakers'[r] = speakers[r] \union {p}
    BY <2>1 DEF TypeOK
  <2> QED BY <2>1, <2>2 DEF Spoken
<1>4. (\/ \E v \in Vrfs : DeviceAppears(v)
       \/ Handlers \/ UNCHANGED vars) => UNCHANGED <<adverts, dials, speakers, dropped>>
  BY DEF DeviceAppears, Handlers, TakeState, Ask, Learn, WriteState, TakeVpn, TakeEvpn,
     bgpdVars, bgpdHist, vars
<1>5. UNCHANGED <<adverts, dials, speakers, dropped>> => Spoken'
  BY DEF Spoken
<1> QED BY <1>1, <1>2, <1>3, <1>4, <1>5 DEF Next, Bgpd

LEMMA LastSaidKept ==
    ASSUME NEW r \in Routes, NEW p \in Peers, LastSaid(r, p), UNCHANGED dropped,
           speakers'[r] = speakers[r], adverts'[p] = adverts[p], Line(p)' = Line(p),
           rib'[r] = rib[r],
           speakers[r] = {p} =>
              /\ EndsIn(stream[Line(p)], Naming(r), Truly(r, p))
                    => EndsIn(stream'[Line(p)], Naming(r), Truly(r, p))
              /\ Hears(stream'[Line(p)], Naming(r)) => Hears(stream[Line(p)], Naming(r))
    PROVE  LastSaid(r, p)'
<1>1. Naming(r)' = Naming(r) /\ Truly(r, p)' = Truly(r, p) /\ RightPath(r, p)' = RightPath(r, p)
  BY DEF Naming, Truly, RightPath
<1> QED BY <1>1 DEF LastSaid

\* A route's message is taken off the connection of a peer that spoke of it.
LEMMA TakenFrom ==
    ASSUME TypeOK, Wired, Spoken, NEW c \in Conns, NEW about, about # "state", Takes(c, about),
           NEW p \in Peers, p \notin dropped
    PROVE  /\ Head(stream[c]) \in Routing /\ Head(stream[c]).peer \in speakers[Head(stream[c]).route]
           /\ Head(stream[c]).peer = p => c = Line(p)
<1>1. /\ Head(stream[c]) \in Message /\ Head(stream[c]).about = about
      /\ Head(stream[c]) = stream[c][1] /\ 1 \in 1 .. Len(stream[c]) /\ stream[c] # <<>>
  BY TakesEffect
<1>2. Head(stream[c]) \in Routing
  BY <1>1, MessageFacts DEF Message, Routing
<1>3. Head(stream[c]).peer \in speakers[Head(stream[c]).route] /\ TargetOf[Head(stream[c]).peer] = c[1]
  BY <1>1, <1>2 DEF Wired, StreamsWired, Proper
<1>4. c[2] <= dials[c[1]] /\ c[2] \in Nat /\ c[2] >= 1 /\ c = <<c[1], c[2]>> /\ c[1] \in Targets
  <2>1. c[2] \in 1 .. MaxDials[c[1]] /\ MaxDials[c[1]] \in Nat
    BY ConnFacts, BoundFacts
  <2> QED BY <1>1, <2>1, WorkerAlive, ConnFacts DEF Alive
<1>5. Head(stream[c]).peer = p => c = Line(p)
  BY <1>3, <1>4 DEF Spoken, Line, TypeOK
<1> QED BY <1>2, <1>3, <1>5

LEMMA LastSaidNext ==
    ASSUME TypeOK, Wired, Spoken, [Next]_vars, NEW r \in Routes, NEW p \in Peers, LastSaid(r, p)
    PROVE  LastSaid(r, p)'
<1> DEFINE t == TargetOf[p]
           L == Line(p)
<1>1. /\ t \in Targets /\ L = <<t, dials[t]>> /\ dials[t] \in Nat
      /\ speakers[r] = {p} => L \in Conns
  BY LineFacts DEF Spoken, Line, TypeOK
<1>2. ASSUME NEW u \in Targets,
             NEW kept \in 0 .. IF dials[u] = 0 THEN 0 ELSE Len(stream[<<u, dials[u]>>]),
             Dial(u, kept)
      PROVE  LastSaid(r, p)'
  <2>1. UNCHANGED <<speakers, rib>> /\ dropped \subseteq dropped'
    BY <1>2 DEF Dial, cacheVars
  <2>2. CASE u = t /\ speakers[r] = {p}
    <3>1. dials[t] # 0
      BY <2>2 DEF Spoken
    <3>2. p \in dropped'
      BY <1>2, <2>2, <3>1 DEF Dial
    <3> QED BY <3>2 DEF LastSaid
  <2>3. CASE u # t /\ speakers[r] = {p}
    <3>1. adverts'[p] = adverts[p] /\ dials'[t] = dials[t] /\ stream'[L] = stream[L]
          /\ (p \in dropped' <=> p \in dropped)
      BY <1>1, <1>2, <2>3 DEF Dial, TypeOK
    <3>2. Line(p)' = L
      BY <3>1 DEF Line
    <3>3. Naming(r)' = Naming(r) /\ Truly(r, p)' = Truly(r, p) /\ RightPath(r, p)' = RightPath(r, p)
      BY <3>1 DEF Naming, Truly, RightPath
    <3> QED BY <2>1, <3>1, <3>2, <3>3 DEF LastSaid
  <2>4. CASE speakers[r] # {p}
    BY <2>1, <2>4 DEF LastSaid
  <2> QED BY <2>2, <2>3, <2>4
<1>3. ASSUME NEW q \in Peers, NEW state \in States, PeerChanges(q, state) PROVE LastSaid(r, p)'
  <2> DEFINE msg == [about |-> "state", peer |-> q, state |-> state]
  <2>1. msg \in Message /\ msg \notin Routing
    BY MessageFacts DEF Message
  <2>2. Sends(q, msg) /\ UNCHANGED <<dials, rib, speakers>>
        /\ adverts' = [adverts EXCEPT ![q] = {}]
        /\ dropped' = IF adverts[q] = {} THEN dropped ELSE dropped \union {q}
    BY <1>3 DEF PeerChanges, cacheVars
  <2> HIDE DEF msg
  <2>3. msg \notin Naming(r)
    BY <2>1 DEF Naming
  <2>4. CASE p \in dropped'
    BY <2>4 DEF LastSaid
  <2>5. CASE p \notin dropped'
    <3>1. p \notin dropped /\ adverts'[p] = adverts[p]
      BY <2>2, <2>5 DEF TypeOK
    <3>2. Line(p)' = L
      BY <2>2, LineKept
    <3>3. speakers[r] = {p} =>
            /\ EndsIn(stream[L], Naming(r), Truly(r, p)) => EndsIn(stream'[L], Naming(r), Truly(r, p))
            /\ Hears(stream'[L], Naming(r)) => Hears(stream[L], Naming(r))
      BY <1>1, <2>1, <2>2, <2>3, SentOther
    <3>4. Naming(r)' = Naming(r) /\ Truly(r, p)' = Truly(r, p) /\ RightPath(r, p)' = RightPath(r, p)
      BY <3>1 DEF Naming, Truly, RightPath
    <3> QED BY <2>2, <2>5, <3>1, <3>2, <3>3, <3>4 DEF LastSaid
  <2> QED BY <2>4, <2>5
<1>4. ASSUME NEW q \in Peers, NEW s \in Routes, NEW withdraw \in BOOLEAN, PeerUpdates(q, s, withdraw)
      PROVE  LastSaid(r, p)'
  <2> DEFINE msg == [about |-> IF s \in VpnRoutes THEN "vpn" ELSE "evpn",
                     peer |-> q, route |-> s, withdraw |-> withdraw]
  <2>1. msg \in Message /\ msg \in Routing /\ msg.route = s /\ msg.withdraw = withdraw
    BY MessageFacts DEF Message, Routing
  <2>2. Sends(q, msg) /\ UNCHANGED <<dials, rib, dropped>>
        /\ adverts' = [adverts EXCEPT ![q] = IF withdraw THEN @ \ {s} ELSE @ \union {s}]
        /\ speakers' = [speakers EXCEPT ![s] = @ \union {q}]
    BY <1>4 DEF PeerUpdates, cacheVars
  <2> HIDE DEF msg
  <2>3. Line(p)' = L
    BY <2>2, LineKept
  <2>4. CASE s # r
    <3>1. msg \notin Naming(r) /\ speakers'[r] = speakers[r] /\ adverts'[q] \ {s} = adverts[q] \ {s}
      BY <2>1, <2>2, <2>4 DEF Naming, TypeOK
    <3>2. speakers[r] = {p} =>
            /\ EndsIn(stream[L], Naming(r), Truly(r, p)) => EndsIn(stream'[L], Naming(r), Truly(r, p))
            /\ Hears(stream'[L], Naming(r)) => Hears(stream[L], Naming(r))
      BY <1>1, <2>1, <2>2, <3>1, SentOther
    <3>3. r \in adverts'[p] <=> r \in adverts[p]
      BY <2>2, <2>4, <3>1 DEF TypeOK
    <3>4. Naming(r)' = Naming(r) /\ Truly(r, p)' = Truly(r, p) /\ RightPath(r, p)' = RightPath(r, p)
      BY <3>3 DEF Naming, Truly, RightPath
    <3> QED BY <2>2, <2>3, <3>1, <3>2, <3>4 DEF LastSaid
  <2>5. CASE s = r /\ q = p
    <3>1. speakers'[r] # {} /\ (withdraw <=> r \notin adverts'[p])
      BY <2>2, <2>5 DEF TypeOK
    <3>2. msg \in Truly(r, p)'
      BY <2>1, <2>5, <3>1 DEF Truly
    <3>3. stream'[L] = Append(stream[L], msg) /\ stream[L] \in Seq(Message)
      BY <2>1, <2>2, <2>5, SendsEffect, StreamType
    <3>4. EndsIn(stream'[L], Naming(r)', Truly(r, p)')
      BY <2>1, <3>2, <3>3, AppendWord
    <3> QED BY <2>3, <3>1, <3>4 DEF LastSaid
  <2>6. CASE s = r /\ q # p
    <3>1. q \in speakers'[r]
      BY <2>2, <2>6 DEF TypeOK
    <3> QED BY <2>6, <3>1 DEF LastSaid
  <2> QED BY <2>4, <2>5, <2>6
<1>5. ASSUME NEW c \in Conns, NEW about \in {"vpn", "evpn"}, Takes(c, about),
             rib' = [rib EXCEPT ![Head(stream[c]).route] =
                         Path(@, Head(stream[c]).peer, Head(stream[c]).withdraw)],
             UNCHANGED <<dials, adverts, speakers, dropped>>
      PROVE  LastSaid(r, p)'
  <2> DEFINE msg == Head(stream[c])
  <2>1. CASE p \in dropped
    BY <1>5, <2>1 DEF LastSaid
  <2>2. CASE p \notin dropped
    <3>1. msg \in Routing /\ msg.peer \in speakers[msg.route] /\ (msg.peer = p => c = L)
      BY <1>5, <2>2, TakenFrom
    <3>2. msg.withdraw \in BOOLEAN /\ msg.route \in Routes
      BY <3>1, MessageFacts
    <3>3. /\ stream[c] \in Seq(Message) /\ stream[c] # <<>> /\ stream'[c] = Tail(stream[c])
          /\ \A d \in Conns : d # c => stream'[d] = stream[d]
      BY <1>5, TakesEffect
    <3>4. Line(p)' = L
      BY <1>5, LineKept
    <3>5. CASE msg.route # r
      <4>1. rib'[r] = rib[r] /\ msg \notin Truly(r, p)
        BY <1>5, <3>5 DEF Truly, TypeOK
      <4>2. speakers[r] = {p} =>
              /\ EndsIn(stream[L], Naming(r), Truly(r, p)) => EndsIn(stream'[L], Naming(r), Truly(r, p))
              /\ Hears(stream'[L], Naming(r)) => Hears(stream[L], Naming(r))
        BY <1>1, <1>5, <4>1, TakenOther
      <4> QED BY <1>5, <3>4, <4>1, <4>2, LastSaidKept
    <3>6. CASE msg.route = r /\ speakers[r] = {p}
      <4>1. c = L /\ msg.peer = p /\ msg \in Naming(r)
        BY <3>1, <3>6 DEF Naming
      <4>2. Hears(stream[L], Naming(r))
        BY <1>5, <4>1, TakesEffect DEF Hears
      <4>3. EndsIn(stream[L], Naming(r), Truly(r, p))
        BY <2>2, <3>6, <4>2 DEF LastSaid
      <4>4. \/ EndsIn(Tail(stream[L]), Naming(r), Truly(r, p))
            \/ msg \in Truly(r, p) /\ ~Hears(Tail(stream[L]), Naming(r))
        BY <3>3, <4>1, <4>3, TailWord
      <4>5. msg \in Truly(r, p) => rib'[r] = RightPath(r, p)
        <5>1. rib'[r] = Path(rib[r], p, msg.withdraw)
          BY <1>5, <3>6, <4>1 DEF TypeOK
        <5> QED BY <3>2, <5>1 DEF Path, Truly, RightPath
      <4>6. Naming(r)' = Naming(r) /\ Truly(r, p)' = Truly(r, p) /\ RightPath(r, p)' = RightPath(r, p)
        BY <1>5 DEF Naming, Truly, RightPath
      <4>7. stream'[L] = Tail(stream[L])
        BY <3>3, <4>1
      <4> QED BY <1>5, <3>4, <3>6, <4>4, <4>5, <4>6, <4>7 DEF LastSaid
    <3>7. CASE msg.route = r /\ speakers[r] # {p}
      <4>1. speakers'[r] # {} /\ speakers'[r] # {p}
        BY <1>5, <3>1, <3>7
      <4> QED BY <4>1 DEF LastSaid
    <3> QED BY <3>5, <3>6, <3>7
  <2> QED BY <2>1, <2>2
<1>6. ASSUME NEW c \in Conns, TakeVpn(c) \/ TakeEvpn(c) PROVE LastSaid(r, p)'
  BY <1>5, <1>6 DEF TakeVpn, TakeEvpn, bgpdVars, bgpdHist
<1>7. ASSUME NEW c \in Conns, TakeState(c) PROVE LastSaid(r, p)'
  <2>1. Takes(c, "state") /\ UNCHANGED <<dials, adverts, speakers, dropped, rib>>
    BY <1>7 DEF TakeState, bgpdVars, bgpdHist, cacheVars
  <2>2. Head(stream[c]) \notin Truly(r, p)
    BY <2>1, TakesEffect, MessageFacts DEF Truly
  <2>3. speakers[r] = {p} =>
          /\ EndsIn(stream[L], Naming(r), Truly(r, p)) => EndsIn(stream'[L], Naming(r), Truly(r, p))
          /\ Hears(stream'[L], Naming(r)) => Hears(stream[L], Naming(r))
    BY <1>1, <2>1, <2>2, TakenOther
  <2> QED BY <2>1, <2>3, LineKept, LastSaidKept
<1>8. (\/ \E v \in Vrfs : DeviceAppears(v)
       \/ \E c \in Conns : Ask(c) \/ Learn(c) \/ WriteState(c)
       \/ UNCHANGED vars) => UNCHANGED <<adverts, dials, speakers, dropped, rib, stream>>
  BY DEF DeviceAppears, Ask, Learn, WriteState, bgpdVars, bgpdHist, cacheVars, vars
<1>9. UNCHANGED <<adverts, dials, speakers, dropped, rib, stream>> => LastSaid(r, p)'
  BY LineKept, LastSaidKept
<1> QED BY <1>2, <1>3, <1>4, <1>6, <1>7, <1>8, <1>9 DEF Next, Bgpd, Handlers

----------------------------------------------------------------------------
(* The theorems                                                            *)
\* The inductive invariant.
BmpInv ==
    /\ TypeOK /\ Wired /\ Named /\ Reported /\ Spoken
    /\ \A p \in Peers : Latest(p)
    /\ \A r \in Routes, p \in Peers : LastSaid(r, p)

LEMMA BmpInvInit == ASSUME Init PROVE BmpInv
<1>1. TypeOK
  <2>1. \A t \in Targets : MaxDials[t] \in Nat
    BY BoundFacts
  <2>2. stream \in [Conns -> Seq(StateMsg \union VpnMsg \union EvpnMsg)]
    BY DEF Init
  <2> QED BY <2>1, <2>2, BoundFacts DEF Init, TypeOK
<1>2. Wired
  <2>1. \A c \in Conns : stream[c] = <<>> /\ job[c] = None
    BY DEF Init
  <2> QED BY <2>1 DEF Wired, StreamsWired, JobsWired, Unmade, Counted
<1>3. Named
  BY DEF Init, Named
<1>4. Reported /\ \A p \in Peers : Latest(p)
  BY DEF Init, Reported, Latest
<1>5. Spoken
  BY BoundFacts DEF Init, Spoken
<1>6. \A r \in Routes, p \in Peers : LastSaid(r, p)
  BY DEF Init, LastSaid
<1> QED BY <1>1, <1>2, <1>3, <1>4, <1>5, <1>6 DEF BmpInv

LEMMA BmpInvNext == ASSUME BmpInv, [Next]_vars PROVE BmpInv'
<1>1. TypeOK' /\ Wired' /\ Named' /\ Reported' /\ Spoken'
  BY Types, WiredNext, NamedNext, ReportedNext, SpokenNext DEF BmpInv
<1>2. \A p \in Peers : Latest(p)'
  BY LatestNext DEF BmpInv
<1>3. \A r \in Routes, p \in Peers : LastSaid(r, p)'
  BY LastSaidNext DEF BmpInv
<1> QED BY <1>1, <1>2, <1>3 DEF BmpInv

THEOREM BmpInvariant == Spec => []BmpInv
<1>1. Init => BmpInv
  BY BmpInvInit
<1>2. BmpInv /\ [Next]_vars => BmpInv'
  BY BmpInvNext
<1> QED BY <1>1, <1>2, PTL DEF Spec

\* Streams, jobs, leaves and histories keep their types; a connection is only
\* counted when its target has made it.
THEOREM BmpTypeCorrect == Spec => []TypeOK
<1>1. BmpInv => TypeOK
  BY DEF BmpInv
<1> QED BY <1>1, BmpInvariant, PTL

\* bmp.go, peerState: when a target's messages are handled, the last state that
\* was reported of a peer stands, in the instance of its VRF and in no other unless
\* the name had to be guessed, for a failed or late list of the devices too.
THEOREM NeighborsCorrect == Spec => []NeighborWhereItBelongs
<1>1. BmpInv => NeighborWhereItBelongs
  <2> SUFFICES ASSUME BmpInv, NEW p \in Peers,
                      Drained(TargetOf[p]), TargetOf[p] \notin overtaken
               PROVE  /\ told[p] # None => Stands(p)
                      /\ RdOf[p] \notin guessed =>
                            \A i \in Instances \ {Home(p)} : neighbor[<<i, p>>] = None
    BY DEF NeighborWhereItBelongs, Stands
  <2>1. RdOf[p] \notin guessed => \A i \in Instances \ {Home(p)} : neighbor[<<i, p>>] = None
    BY DEF BmpInv, Named, Fits
  <2>2. ASSUME told[p] # None PROVE Stands(p)
    <3>1. Line(p) \in Conns /\ Line(p)[1] = TargetOf[p]
      BY <2>2, LineFacts DEF BmpInv, Reported
    <3>2. stream[Line(p)] = <<>> /\ job[Line(p)] = None
      BY <3>1 DEF Drained
    <3>3. ~EndsIn(stream[Line(p)], About(p), Saying(p, told[p])) /\ ~AtWork(p)
      BY <3>2 DEF EndsIn, AtWork
    <3> QED BY <2>2, <3>3 DEF BmpInv, Latest
  <2> QED BY <2>1, <2>2
<1> QED BY <1>1, BmpInvariant, PTL

\* A route that one peer alone spoke of is shown while that peer advertises it,
\* and not a moment longer than its messages are on their way.
THEOREM RoutesCorrect == Spec => []ShownWhileAdvertised
<1>1. BmpInv => ShownWhileAdvertised
  <2> SUFFICES ASSUME BmpInv, NEW r \in Routes, NEW p \in Peers, speakers[r] = {p}, p \notin dropped,
                      Drained(TargetOf[p])
               PROVE  rib[r] = IF r \in adverts[p] THEN p ELSE None
    BY DEF ShownWhileAdvertised
  <2>1. Line(p) \in Conns /\ Line(p)[1] = TargetOf[p]
    BY LineFacts DEF BmpInv, Spoken
  <2>2. stream[Line(p)] = <<>>
    BY <2>1 DEF Drained
  <2>3. ~EndsIn(stream[Line(p)], Naming(r), Truly(r, p))
    BY <2>2 DEF EndsIn
  <2> QED BY <2>3 DEF BmpInv, LastSaid, RightPath
<1> QED BY <1>1, BmpInvariant, PTL

===============================================================================
