----------------------------- MODULE NetlinkPlane -----------------------------
(***************************************************************************)
(* internal/ingest/netlink.go writing through internal/state/cache.go: the *)
(* kernel's tables in the gNMI cache.  Links, MACs (the bridge FDB) and    *)
(* routes are notified, one goroutine per table; Run dumps the tables once *)
(* after it has subscribed, and the counters, the LFIB and the addresses   *)
(* every poll.  A dump is read first and written afterwards, beside the    *)
(* goroutines that write the same leaves.                                  *)
(*                                                                         *)
(* Cache.Update stamps a notification with the time and then enters the    *)
(* openconfig cache, which refuses a leaf that is older than the one it    *)
(* has, deletes only leaves older than the deletion and keeps no trace of  *)
(* what it deleted.  The leaves of an object are one leaf here.            *)
(***************************************************************************)
EXTENDS Naturals, Sequences, FiniteSets

CONSTANTS
    Links, Macs, Routes, Labels, Addrs,     \* the objects of the kernel
    LinkOf,         \* the link of an address
    Says,           \* Says[t]: what can be said of an object of table t
    MaxChanges,     \* bound on the kernel's changes
    MaxPolls,       \* bound on the ticks of counterLoop
    None

Notified == {"link", "mac", "route"}
Sampled == {"counters", "label", "addr"}
Tables == Notified \union Sampled

\* Every link has counters.
Counters == {"counters"} \X Links
Table(t) ==
    CASE t = "link" -> Links [] t = "mac" -> Macs [] t = "route" -> Routes
      [] t = "label" -> Labels [] t = "addr" -> Addrs [] t = "counters" -> Counters
Objects == UNION {Table(t) : t \in Tables}
TableOf(o) == CHOOSE t \in Tables : o \in Table(t)

Values == UNION {Says[t] : t \in Tables}
Said == Values \union {None}

\* No leaf belongs to two tables.
ASSUME NetlinkAssumption ==
    /\ \A s, t \in Tables : s # t => Table(s) \intersect Table(t) = {}
    /\ IsFiniteSet(Routes)
    /\ LinkOf \in [Addrs -> Links]
    /\ MaxChanges \in Nat /\ MaxPolls \in Nat
    /\ DOMAIN Says = Tables /\ Says["counters"] = Says["link"]

Shown == [val : Values, at : Nat]
Update == [obj : Objects, val : Said, at : Nat]

\* What is not there looks like nothing that is.
ASSUME NoneAssumption == None \notin Values \union Shown \union Update

\* An object and, with a link, what belongs to it.
Under(o) ==
    {o} \union IF o \in Links
               THEN {<<"counters", o>>} \union {a \in Addrs : LinkOf[a] = o} ELSE {}

Does(what, t) == [does |-> what, table |-> t]

\* The tables are dumped before the subscriptions.
RunStepsDumpFirst ==
    <<Does("dump", "link"), Does("dump", "counters"), Does("dump", "mac"),
      Does("subscribe", "link"), Does("subscribe", "mac"), Does("subscribe", "route"),
      Does("dump", "label"), Does("dump", "addr")>>

\* Run: the subscriptions, then snapshot.
RunSteps ==
    <<Does("subscribe", "link"), Does("subscribe", "mac"), Does("subscribe", "route"),
      Does("dump", "link"), Does("dump", "counters"), Does("dump", "mac"),
      Does("dump", "label"), Does("dump", "addr")>>
PollSteps == <<Does("dump", "counters"), Does("dump", "label"), Does("dump", "addr")>>

VARIABLES
    kern,       \* the kernel: what there is to say of an object, or None
    changes,    \* changes of the kernel
    todo,       \* what the dumping goroutine has left to do
    polls,      \* ticks of counterLoop
    subscribed, \* tables whose goroutine runs
    chan,       \* chan[t]: notifications on their way to t's goroutine
    list,       \* the rest of the dump that is being written
    update,     \* update[w]: the notification w has stamped and not entered
    leaf,       \* the cache
    clock,      \* time.Now()
    raced,      \* history: objects that changed between their dump and its write
    unseen,     \* history: objects that were not dumped since they changed, with
                \*   linkLoop idle
    failed      \* history: tables that could not be subscribed to or dumped

Writers == Notified \union {"dump"}
kernVars == <<kern, changes>>
taskVars == <<todo, polls, subscribed>>
vars == <<kernVars, taskVars, chan, list, update, leaf, clock, raced, unseen, failed>>

Init ==
    /\ kern \in {k \in [Objects -> Said] :
                    \A o \in Objects : k[o] \in Says[TableOf(o)] \union {None}}
    /\ \A l \in Links : kern[l] = None <=> kern[<<"counters", l>>] = None
    /\ \A a \in Addrs : kern[a] # None => kern[LinkOf[a]] # None
    /\ changes = 0
    /\ todo = RunSteps
    /\ polls = 0
    /\ subscribed = {}
    /\ chan = [t \in Notified |-> <<>>]
    /\ list = {}
    /\ update = [w \in Writers |-> None]
    /\ leaf = [o \in Objects |-> None]
    /\ clock = 0
    /\ raced = {} /\ unseen = Objects /\ failed = {}

(***************************************************************************)
(* The kernel                                                              *)
(***************************************************************************)
\* An object comes, changes or goes.  A link's counters come and go with it, and
\* its addresses go with it.
Change(o, v) ==
    /\ changes < MaxChanges /\ changes' = changes + 1
    /\ o \notin Counters /\ kern[o] # v
    /\ o \in Addrs => kern[LinkOf[o]] # None
    /\ LET goes == IF v = None THEN Under(o) ELSE {o}
           comes == IF o \in Links /\ kern[o] = None THEN {o, <<"counters", o>>} ELSE {o}
           touched == goes \union comes
       IN  /\ kern' = [x \in Objects |-> IF x \in touched THEN v ELSE kern[x]]
           /\ raced' = raced \union {x \in touched :
                  \/ \E entry \in list : entry[1] = x
                  \/ update["dump"] # None /\ update["dump"].obj = x}
           /\ unseen' = unseen \union touched
    /\ LET t == TableOf(o)
       IN  chan' = IF t \in subscribed THEN [chan EXCEPT ![t] = Append(@, <<o, v>>)] ELSE chan
    /\ UNCHANGED <<taskVars, list, update, leaf, clock, failed>>

(***************************************************************************)
(* state.Cache                                                             *)
(***************************************************************************)
\* Update takes the time.
Stamp(w, o, v) ==
    /\ update[w] = None
    /\ clock' = clock + 1
    /\ update' = [update EXCEPT ![w] = [obj |-> o, val |-> v, at |-> clock + 1]]

\* The leaves of the object alone.
DeletedAlone(o) == {o}

\* The deletion of an object is that of its subtree.
Deleted(o) == Under(o)

Older(o, at) == leaf[o] = None \/ leaf[o].at < at

\* GnmiUpdate.
Enter(w) ==
    /\ update[w] # None
    /\ LET u == update[w]
       IN  leaf' = [o \in Objects |->
              IF u.val = None /\ o \in Deleted(u.obj) /\ Older(o, u.at) THEN None
              ELSE IF u.val # None /\ o = u.obj /\ Older(o, u.at)
                   THEN [val |-> u.val, at |-> u.at]
              ELSE leaf[o]]
    /\ update' = [update EXCEPT ![w] = None]
    /\ UNCHANGED <<kernVars, taskVars, chan, list, clock, raced, unseen, failed>>

(***************************************************************************)
(* linkLoop, neighLoop and routeLoop                                       *)
(***************************************************************************)
Notify(t) ==
    /\ chan[t] # <<>>
    /\ Stamp(t, Head(chan[t])[1], Head(chan[t])[2])
    /\ chan' = [chan EXCEPT ![t] = Tail(@)]
    /\ UNCHANGED <<kernVars, taskVars, list, leaf, raced, unseen, failed>>

LinkLoop == Notify("link")
NeighLoop == Notify("mac")
RouteLoop == Notify("route")

(***************************************************************************)
(* Run, snapshot and counterLoop                                           *)
(***************************************************************************)
\* The next step begins when the dump before it is written.
Begins(does) ==
    /\ todo # <<>> /\ Head(todo).does = does
    /\ list = {} /\ update["dump"] = None

\* Entries that are shown already are passed over.
ExistingUnshown(t) == {o \in Table(t) : kern[o] # None /\ leaf[o] = None}

Existing(t) == {o \in Table(t) : kern[o] # None}

\* Subscribing to the routes delivers those that exist, in some order.
Subscribe ==
    /\ Begins("subscribe")
    /\ todo' = Tail(todo)
    /\ LET t == Head(todo).table
           first == IF t = "route" THEN Existing(t) ELSE {}
       IN  /\ subscribed' = subscribed \union {t}
           /\ \E order \in [1 .. Cardinality(first) -> first] :
                /\ {order[i] : i \in DOMAIN order} = first
                /\ chan' = [chan EXCEPT ![t] = [i \in DOMAIN order |-> <<order[i], kern[order[i]]>>]]
    /\ UNCHANGED <<kernVars, polls, list, update, leaf, clock, raced, unseen, failed>>

\* Without the links Run gives up, without the others it goes on.
SubscribeFails ==
    /\ Begins("subscribe")
    /\ LET t == Head(todo).table
       IN  /\ todo' = IF t = "link" THEN <<Does("return", t)>> ELSE Tail(todo)
           /\ failed' = failed \union IF t = "link" THEN Notified ELSE {t}
    /\ UNCHANGED <<kernVars, polls, subscribed, chan, list, update, leaf, clock, raced, unseen>>

Dump ==
    /\ Begins("dump")
    /\ todo' = Tail(todo)
    /\ LET t == Head(todo).table
       IN  /\ list' = {<<o, kern[o]>> : o \in Existing(t)}
           /\ unseen' = IF chan["link"] = <<>> /\ update["link"] = None
                        THEN unseen \ Table(t) ELSE unseen
    /\ UNCHANGED <<kernVars, polls, subscribed, chan, update, leaf, clock, raced, failed>>

\* Without the links snapshot returns, without the others it goes on.
DumpFails ==
    /\ Begins("dump")
    /\ LET t == Head(todo).table
       IN  /\ todo' = IF t = "link" THEN <<>> ELSE Tail(todo)
           /\ failed' = failed \union IF t = "link" THEN {"link", "mac"} ELSE {t} \ Sampled
    /\ UNCHANGED <<kernVars, polls, subscribed, chan, list, update, leaf, clock, raced, unseen>>

WriteDump ==
    /\ \E entry \in list :
        /\ Stamp("dump", entry[1], entry[2])
        /\ list' = list \ {entry}
    /\ UNCHANGED <<kernVars, taskVars, chan, leaf, raced, unseen, failed>>

Poll ==
    /\ polls < MaxPolls /\ polls' = polls + 1
    /\ todo = <<>> /\ list = {} /\ update["dump"] = None
    /\ todo' = PollSteps
    /\ UNCHANGED <<kernVars, subscribed, chan, list, update, leaf, clock, raced, unseen, failed>>

(***************************************************************************)
(* The specification                                                       *)
(***************************************************************************)
Next ==
    \/ \E o \in Objects : \E v \in Says[TableOf(o)] \union {None} : Change(o, v)
    \/ LinkLoop \/ NeighLoop \/ RouteLoop
    \/ \E w \in Writers : Enter(w)
    \/ Subscribe \/ SubscribeFails \/ Dump \/ DumpFails \/ WriteDump \/ Poll

Spec == Init /\ [][Next]_vars

(***************************************************************************)
(* Properties                                                              *)
(***************************************************************************)
Settled ==
    /\ todo = <<>> /\ list = {}
    /\ \A t \in Notified : chan[t] = <<>>
    /\ \A w \in Writers : update[w] = None

Followed == UNION {Table(t) : t \in Notified \ failed}

\* Nothing is missed between the dump and the notifications: when all of it has
\* been handled, every link, MAC and route of the kernel has its leaves.
NothingMissed ==
    Settled => \A o \in Followed : kern[o] # None => leaf[o] # None

\* And the leaves say what the kernel says, those of what is gone are gone, and
\* with a link everything below its interface, although a notification may be
\* stamped before and entered after the dump's; except where the kernel changed
\* between the reading and the writing of the dump.
CurrentUnlessRaced ==
    Settled =>
        \A o \in Followed \ raced :
            /\ kern[o] # None => leaf[o] # None /\ leaf[o].val = kern[o]
            /\ kern[o] = None => \A x \in Under(o) \ raced : leaf[x] = None

\* What is only polled is shown as it is once a poll has read it, linkLoop being
\* idle then: a link that went and came back before takes what was polled of it
\* along when its removal is handled late, until the next poll.
PolledIsShown ==
    Settled =>
        \A o \in (UNION {Table(t) : t \in Sampled}) \ unseen :
            kern[o] # None => leaf[o] # None /\ leaf[o].val = kern[o]
===============================================================================
