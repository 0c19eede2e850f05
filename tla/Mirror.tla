-------------------------------- MODULE Mirror --------------------------------
(***************************************************************************)
(* What a reconciling ingester promises: the view it publishes goes entry  *)
(* by entry from one sample of the truth to the next, and shows all of a   *)
(* sample before another is taken.  While it is on the way a reader finds  *)
(* entries of two samples side by side, never of three, and never an entry *)
(* older than what it showed before.  A sample may come out blank (the     *)
(* source answered with nothing the ingester can read).                    *)
(***************************************************************************)
CONSTANTS Keys, Values, Absent, NoSample

Tables == [Keys -> Values \union {Absent}]
Blank == [k \in Keys |-> Absent]

VARIABLES
    truth,      \* what the source holds
    sample,     \* what the ingester is publishing
    view        \* what the cache shows

vars == <<truth, sample, view>>

Init == /\ truth \in Tables
        /\ sample = NoSample
        /\ view = Blank

Change ==
    /\ truth' \in Tables
    /\ UNCHANGED <<sample, view>>

Take ==
    /\ sample = NoSample
    /\ sample' \in {truth, Blank}
    /\ UNCHANGED <<truth, view>>

Move(k) ==
    /\ sample # NoSample
    /\ view' = [view EXCEPT ![k] = sample[k]]
    /\ UNCHANGED <<truth, sample>>

Finish ==
    /\ view = sample
    /\ sample' = NoSample
    /\ UNCHANGED <<truth, view>>

Next == Change \/ Take \/ (\E k \in Keys : Move(k)) \/ Finish

Spec == Init /\ [][Next]_vars
===============================================================================
