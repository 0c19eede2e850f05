------------------------------ MODULE PrefixLife ------------------------------
(***************************************************************************)
(* What the lineage tracker promises about a prefix, with no map, clock,   *)
(* lock or goroutine: who currently witnesses the prefix, and whether its  *)
(* install gap has been raised since it was last confirmed or forgotten.   *)
(* A gap that was raised is reported once.                                 *)
(***************************************************************************)
CONSTANTS Prefixes, Stages, Fpm, Kernel

VARIABLES
    witness,    \* witness[p]: the stages that hold prefix p
    raised,     \* raised[p]: the gap of p has been raised and not re-armed
    due         \* the prefixes whose gap was raised and not reported yet

vars == <<witness, raised, due>>

TypeOK ==
    /\ witness \in [Prefixes -> SUBSET Stages]
    /\ raised \in [Prefixes -> BOOLEAN]
    /\ due \in SUBSET Prefixes

Init ==
    /\ witness = [p \in Prefixes |-> {}]
    /\ raised = [p \in Prefixes |-> FALSE]
    /\ due = {}

\* A stage says that it holds p.  Only the kernel re-arms the trigger.
Hold(p, s) ==
    /\ witness' = [witness EXCEPT ![p] = @ \union {s}]
    /\ raised' = [raised EXCEPT ![p] = @ /\ s # Kernel]
    /\ UNCHANGED due

\* A stage says that it lost p.  A prefix nobody holds is forgotten.
Lose(p, s) ==
    /\ witness' = [witness EXCEPT ![p] = @ \ {s}]
    /\ raised' = [raised EXCEPT ![p] = @ /\ witness[p] \ {s} # {}]
    /\ UNCHANGED due

\* Gaps are raised for a set of prefixes at once: each is pushed by zebra,
\* not confirmed by the kernel, and not raised before.
Raise(P) ==
    /\ \A p \in P : Fpm \in witness[p] /\ Kernel \notin witness[p] /\ ~raised[p]
    /\ raised' = [p \in Prefixes |-> raised[p] \/ p \in P]
    /\ due' = due \union P
    /\ UNCHANGED witness

Report(p) ==
    /\ p \in due
    /\ due' = due \ {p}
    /\ UNCHANGED <<witness, raised>>

Next ==
    \/ \E p \in Prefixes, s \in Stages : Hold(p, s) \/ Lose(p, s)
    \/ \E P \in SUBSET Prefixes : Raise(P)
    \/ \E p \in Prefixes : Report(p)

Spec == Init /\ [][Next]_vars
===============================================================================
