---------------------------- MODULE MC_NetlinkPlane ----------------------------
(* One object of each kind, each with two things to say of it.               *)
EXTENDS NetlinkPlane, TLC

CONSTANTS eth0, mac1, route1, up, down

MCLinks == {eth0}
MCMacs == {mac1}
MCRoutes == {route1}
MCLabels == {}
MCAddrs == {}
MCLinkOf == <<>>
MCSays == [t \in {"link", "counters", "mac", "route", "label", "addr"} |->
            IF t \in {"link", "counters"} THEN {up, down} ELSE {up}]
\* Times are compared with those of the updates that are not entered yet, and
\* with nothing else: what is older than what is all that tells states apart.
Pending == {w \in Writers : update[w] # None}
MCView ==
    <<kernVars, taskVars, chan, list, raced, unseen, failed,
      [w \in Pending |-> [obj |-> update[w].obj, val |-> update[w].val,
                          before |-> {v \in Pending : update[v].at < update[w].at}]],
      [o \in Objects |-> IF leaf[o] = None THEN None
                         ELSE <<leaf[o].val, {w \in Pending : update[w].at < leaf[o].at}>>]>>
MCSymmetry == Permutations({up, down})
===============================================================================
