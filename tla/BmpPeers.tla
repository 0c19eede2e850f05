------------------------------- MODULE BmpPeers -------------------------------
(***************************************************************************)
(* internal/ingest/bmp.go: what bgpd's BMP targets report.  A target dials *)
(* in for itself ("default + per-VRF targets dial in concurrently") and a  *)
(* goroutine per connection writes two tables:                             *)
(*   - the session state of every peer, filed under the name of its VRF,   *)
(*     which has to be found for the route distinguisher on the wire and   *)
(*     is kept in rdVRF, the one thing the goroutines share;               *)
(*   - the VPN and EVPN routes, one entry per NLRI with the peer it came   *)
(*     from.                                                               *)
(*                                                                         *)
(* An UPDATE with several NLRIs is several messages in a row here, and a   *)
(* route's label, next hop and targets go with its peer.                   *)
(***************************************************************************)
EXTENDS Naturals, Sequences

CONSTANTS
    Targets,        \* BMP targets of bgpd
    Peers,
    Rds,            \* route distinguishers of the VRFs
    Vrfs,           \* names of the VRFs
    VpnRoutes,      \* VPN NLRIs, their distinguisher included
    EvpnRoutes,     \* EVPN NLRIs, with their route type
    TargetOf,       \* the target that reports a peer
    RdOf,           \* the distinguisher a peer is reported with, or None
    VrfOf,          \* the VRF of a distinguisher
    MaxDials,       \* bound on the connections of each target
    MaxSends,       \* bound on bgpd's messages
    MaxFaults,      \* bound on looks at the devices that go wrong
    None

ASSUME BmpAssumption ==
    /\ TargetOf \in [Peers -> Targets]
    /\ RdOf \in [Peers -> Rds \union {None}]
    /\ VrfOf \in [Rds -> Vrfs]
    /\ MaxDials \in [Targets -> Nat] /\ {MaxSends, MaxFaults} \subseteq Nat
    /\ None \notin Peers

States == {"ESTABLISHED", "IDLE"}
Instances == {"default"} \union Vrfs \union Rds
Routes == VpnRoutes \union EvpnRoutes
Conns == UNION {{t} \X (1 .. MaxDials[t]) : t \in Targets}

StateMsg == [about : {"state"}, peer : Peers, state : States]
VpnMsg == [about : {"vpn"}, peer : Peers, route : VpnRoutes, withdraw : BOOLEAN]
EvpnMsg == [about : {"evpn"}, peer : Peers, route : EvpnRoutes, withdraw : BOOLEAN]

\* A peer's new state on its way to the cache: "ask" the kernel for a name,
\* "learn" the one that was found, "write" the leaf.
Job == [peer : Peers, state : States, at : {"ask", "learn", "write"},
        name : Instances \union {None}]

\* What is not there looks like nothing that is.
ASSUME NoneAssumption == None \notin Instances \union States \union Job

VARIABLES
    tlvs,       \* FRR puts the VRF's name into a Peer Up
    dials,      \* connections target t has made
    sends,      \* messages sent
    told,       \* the state last sent of a peer, by the bgpd that runs now
    adverts,    \* adverts[p]: the routes p advertises
    stream,     \* stream[c]: what connection c holds for its goroutine
    devices,    \* the VRF devices of the node
    faults,     \* looks at the devices that went wrong
    rdVRF,      \* BMP.rdVRF
    job,        \* job[c]: the peer state goroutine c is working on
    neighbor,   \* the session-state leaves
    rib,        \* the peer leaf of each route
    newest,     \* history: newest connection of t a message was taken from
    overtaken,  \* history: targets whose older connection was served last
    guessed,    \* history: distinguishers named by anything but the TLV or
                \*   the only device that was seen being their own
    speakers,   \* history: the peers that ever spoke of a route
    dropped     \* history: peers that took routes with them

bgpdVars == <<dials, sends, told, adverts>>
cacheVars == <<neighbor, rib>>
bgpdHist == <<speakers, dropped>>
vars == <<tlvs, bgpdVars, stream, devices, faults, rdVRF, job, cacheVars,
          newest, overtaken, guessed, bgpdHist>>

TypeOK ==
    /\ tlvs \in BOOLEAN
    /\ dials \in [Targets -> Nat] /\ newest \in [Targets -> Nat]
    /\ \A t \in Targets : dials[t] <= MaxDials[t] /\ newest[t] <= dials[t]
    /\ sends \in 0 .. MaxSends
    /\ told \in [Peers -> States \union {None}]
    /\ adverts \in [Peers -> SUBSET Routes]
    /\ stream \in [Conns -> Seq(StateMsg \union VpnMsg \union EvpnMsg)]
    /\ devices \in SUBSET Vrfs
    /\ faults \in 0 .. MaxFaults
    /\ rdVRF \in [Rds -> Vrfs \union {None}]
    /\ job \in [Conns -> Job \union {None}]
    /\ neighbor \in [Instances \X Peers -> States \union {None}]
    /\ rib \in [Routes -> Peers \union {None}]
    /\ overtaken \in SUBSET Targets /\ guessed \in SUBSET Rds
    /\ speakers \in [Routes -> SUBSET Peers] /\ dropped \in SUBSET Peers

Init ==
    /\ tlvs \in BOOLEAN
    /\ dials = [t \in Targets |-> 0]
    /\ sends = 0
    /\ told = [p \in Peers |-> None]
    /\ adverts = [p \in Peers |-> {}]
    /\ stream = [c \in Conns |-> <<>>]
    /\ devices \in SUBSET Vrfs
    /\ faults = 0
    /\ rdVRF = [rd \in Rds |-> None]
    /\ job = [c \in Conns |-> None]
    /\ neighbor = [n \in Instances \X Peers |-> None]
    /\ rib = [r \in Routes |-> None]
    /\ newest = [t \in Targets |-> 0]
    /\ overtaken = {} /\ guessed = {}
    /\ speakers = [r \in Routes |-> {}] /\ dropped = {}

(***************************************************************************)
(* bgpd and the kernel                                                     *)
(***************************************************************************)
\* A target dials in, for the first time or again after bgpd's restart, when the
\* peers have to come up anew and the end of the old stream is lost.
Dial(t, kept) ==
    /\ dials[t] < MaxDials[t]
    /\ dials' = [dials EXCEPT ![t] = @ + 1]
    /\ LET mine == {p \in Peers : TargetOf[p] = t}
       IN  /\ told' = [p \in Peers |-> IF p \in mine THEN None ELSE told[p]]
           /\ adverts' = [p \in Peers |-> IF p \in mine THEN {} ELSE adverts[p]]
           /\ dropped' = IF dials[t] = 0 THEN dropped ELSE dropped \union mine
    /\ stream' = IF dials[t] = 0 THEN stream
                 ELSE [stream EXCEPT ![<<t, dials[t]>>] = SubSeq(@, 1, kept)]
    /\ UNCHANGED <<tlvs, sends, devices, faults, rdVRF, job, cacheVars,
                   newest, overtaken, guessed, speakers>>

Sends(p, msg) ==
    LET t == TargetOf[p]
    IN  /\ dials[t] > 0 /\ sends < MaxSends
        /\ sends' = sends + 1
        /\ stream' = [stream EXCEPT ![<<t, dials[t]>>] = Append(@, msg)]

\* A peer that is down is reported as well: bgpd says IDLE of it first.  A
\* session that ends takes its routes along without a word.
PeerChanges(p, state) ==
    /\ told[p] # state
    /\ Sends(p, [about |-> "state", peer |-> p, state |-> state])
    /\ told' = [told EXCEPT ![p] = state]
    /\ adverts' = [adverts EXCEPT ![p] = {}]
    /\ dropped' = IF adverts[p] = {} THEN dropped ELSE dropped \union {p}
    /\ UNCHANGED <<tlvs, dials, devices, faults, rdVRF, job, cacheVars,
                   newest, overtaken, guessed, speakers>>

PeerUpdates(p, r, withdraw) ==
    /\ told[p] = "ESTABLISHED"
    /\ withdraw => r \in adverts[p]
    /\ Sends(p, [about |-> IF r \in VpnRoutes THEN "vpn" ELSE "evpn",
                 peer |-> p, route |-> r, withdraw |-> withdraw])
    /\ adverts' = [adverts EXCEPT ![p] = IF withdraw THEN @ \ {r} ELSE @ \union {r}]
    /\ speakers' = [speakers EXCEPT ![r] = @ \union {p}]
    /\ UNCHANGED <<tlvs, dials, told, devices, faults, rdVRF, job, cacheVars,
                   newest, overtaken, guessed, dropped>>

DeviceAppears(v) ==
    /\ v \notin devices
    /\ devices' = devices \union {v}
    /\ UNCHANGED <<tlvs, bgpdVars, stream, faults, rdVRF, job, cacheVars,
                   newest, overtaken, guessed, bgpdHist>>

(***************************************************************************)
(* The goroutine of a connection                                           *)
(***************************************************************************)
Serves(c) ==
    LET t == c[1]
    IN  /\ newest' = [newest EXCEPT ![t] = IF c[2] > @ THEN c[2] ELSE @]
        /\ overtaken' = IF c[2] < newest[t] THEN overtaken \union {t} ELSE overtaken

Takes(c, about) ==
    /\ job[c] = None
    /\ stream[c] # <<>> /\ Head(stream[c]).about = about
    /\ stream' = [stream EXCEPT ![c] = Tail(@)]
    /\ Serves(c)

\* A name that was learned before is not used.
FoundInDefault(p, state) ==
    LET rd == RdOf[p]
    IN  IF rd = None \/ rdVRF[rd] # None THEN [at |-> "write", name |-> "default"]
        ELSE IF tlvs /\ state = "ESTABLISHED" THEN [at |-> "learn", name |-> VrfOf[rd]]
        ELSE [at |-> "ask", name |-> None]

\* What peerState does next about the name, and the name if it has one: a peer
\* of the default instance, a distinguisher that is known, a Peer Up with a TLV.
Found(p, state) ==
    LET rd == RdOf[p]
    IN  IF rd = None THEN [at |-> "write", name |-> "default"]
        ELSE IF rdVRF[rd] # None THEN [at |-> "write", name |-> rdVRF[rd]]
        ELSE IF tlvs /\ state = "ESTABLISHED" THEN [at |-> "learn", name |-> VrfOf[rd]]
        ELSE [at |-> "ask", name |-> None]

\* Peer Up and Peer Down: the distinguisher is looked up, under the lock.
TakeState(c) ==
    /\ Takes(c, "state")
    /\ LET msg == Head(stream[c])
           found == Found(msg.peer, msg.state)
       IN  job' = [job EXCEPT ![c] = [peer |-> msg.peer, state |-> msg.state,
                                      at |-> found.at, name |-> found.name]]
    /\ UNCHANGED <<tlvs, bgpdVars, devices, faults, rdVRF, cacheVars, guessed, bgpdHist>>

\* The distinguisher itself is learned as the name.
AskedAnyway(rd, names) == [at |-> "learn", name |-> rd]

\* The name of the only VRF device, or for this time the distinguisher itself.
Asked(rd, names) ==
    IF \E v \in Vrfs : names = {v}
    THEN [at |-> "learn", name |-> CHOOSE v \in Vrfs : names = {v}]
    ELSE [at |-> "write", name |-> rd]

\* NonDefaultNames lists the devices.  When that fails the names of the last
\* look that did not fail are used; when another target's look overlaps, maybe
\* the list that one read earlier.  Devices only come: either is a part of them.
Look(names) ==
    \/ names = devices /\ UNCHANGED faults
    \/ names \subseteq devices /\ faults < MaxFaults /\ faults' = faults + 1

Ask(c) ==
    /\ job[c] # None /\ job[c].at = "ask"
    /\ \E names \in SUBSET Vrfs :
        LET rd == RdOf[job[c].peer]
            found == Asked(rd, names)
        IN  /\ Look(names)
            /\ job' = [job EXCEPT ![c].at = found.at, ![c].name = found.name]
            /\ guessed' = IF names = {VrfOf[rd]} THEN guessed ELSE guessed \union {rd}
    /\ Serves(c)
    /\ UNCHANGED <<tlvs, bgpdVars, stream, devices, rdVRF, cacheVars, bgpdHist>>

\* The lock is taken again: another goroutine may have learned the name since.
Learn(c) ==
    /\ job[c] # None /\ job[c].at = "learn"
    /\ rdVRF' = [rdVRF EXCEPT ![RdOf[job[c].peer]] = job[c].name]
    /\ job' = [job EXCEPT ![c].at = "write"]
    /\ Serves(c)
    /\ UNCHANGED <<tlvs, bgpdVars, stream, devices, faults, cacheVars, guessed, bgpdHist>>

WriteState(c) ==
    /\ job[c] # None /\ job[c].at = "write"
    /\ neighbor' = [neighbor EXCEPT ![<<job[c].name, job[c].peer>>] = job[c].state]
    /\ job' = [job EXCEPT ![c] = None]
    /\ Serves(c)
    /\ UNCHANGED <<tlvs, bgpdVars, stream, devices, faults, rdVRF, rib, guessed, bgpdHist>>

\* The withdrawal of a route is passed on but its entry is left.
PathKept(old, p, withdraw) == IF withdraw THEN old ELSE p

\* What is shown of a route, whoever it was shown of before.
Path(old, p, withdraw) == IF withdraw THEN None ELSE p

\* writeVPNRoute.
TakeVpn(c) ==
    /\ Takes(c, "vpn")
    /\ LET msg == Head(stream[c])
       IN  rib' = [rib EXCEPT ![msg.route] = Path(@, msg.peer, msg.withdraw)]
    /\ UNCHANGED <<tlvs, bgpdVars, devices, faults, rdVRF, job, neighbor, guessed, bgpdHist>>

\* writeEVPN does the same for MACs, multicast tags and IP prefixes.
TakeEvpn(c) ==
    /\ Takes(c, "evpn")
    /\ LET msg == Head(stream[c])
       IN  rib' = [rib EXCEPT ![msg.route] = Path(@, msg.peer, msg.withdraw)]
    /\ UNCHANGED <<tlvs, bgpdVars, devices, faults, rdVRF, job, neighbor, guessed, bgpdHist>>

(***************************************************************************)
(* The specification                                                       *)
(***************************************************************************)
Bgpd ==
    \/ \E t \in Targets :
         \E kept \in 0 .. IF dials[t] = 0 THEN 0 ELSE Len(stream[<<t, dials[t]>>]) :
            Dial(t, kept)
    \/ \E p \in Peers, state \in States : PeerChanges(p, state)
    \/ \E p \in Peers, r \in Routes, withdraw \in BOOLEAN : PeerUpdates(p, r, withdraw)

Handlers ==
    \E c \in Conns :
        TakeState(c) \/ Ask(c) \/ Learn(c) \/ WriteState(c) \/ TakeVpn(c) \/ TakeEvpn(c)

Next == Bgpd \/ (\E v \in Vrfs : DeviceAppears(v)) \/ Handlers

Spec == Init /\ [][Next]_vars

(***************************************************************************)
(* Properties                                                              *)
(***************************************************************************)
Drained(t) ==
    \A c \in Conns : c[1] = t => stream[c] = <<>> /\ job[c] = None

Home(p) == IF RdOf[p] = None THEN "default" ELSE VrfOf[RdOf[p]]

\* When a target's messages have been handled, the state bgpd reported last of a
\* peer stands in some instance, whatever the other targets' goroutines do with
\* rdVRF meanwhile, unless an old connection was served after a newer one.  It is
\* the instance of the peer's VRF, and the peer stands in no other, unless the
\* name of the VRF had to be guessed when its device was not the only one seen.
NeighborWhereItBelongs ==
    \A p \in Peers :
        Drained(TargetOf[p]) /\ TargetOf[p] \notin overtaken =>
            /\ told[p] # None =>
                  \E i \in Instances : /\ neighbor[<<i, p>>] = told[p]
                                       /\ RdOf[p] \notin guessed => i = Home(p)
            /\ RdOf[p] \notin guessed =>
                  \A i \in Instances \ {Home(p)} : neighbor[<<i, p>>] = None

\* A route that one peer alone has spoken of is shown exactly while that peer
\* advertises it, as long as the peer's session and its bgpd last.
ShownWhileAdvertised ==
    \A r \in Routes, p \in Peers :
        /\ speakers[r] = {p} /\ p \notin dropped /\ Drained(TargetOf[p])
        => rib[r] = IF r \in adverts[p] THEN p ELSE None
===============================================================================
