------------------------- MODULE MC_TraceAggregator -------------------------
EXTENDS TraceAggregator

CONSTANTS n1, n2, t1, t2, t3, x1, A, B

MCNodeOf == t1 :> n1 @@ t2 :> n2 @@ t3 :> n2
MCStartOf == t1 :> 0 @@ t2 :> 1 @@ t3 :> 2
MCEarliestOf == t1 :> 0 @@ t2 :> 0 @@ t3 :> 2
MCLinkOf == t1 :> A @@ t2 :> A @@ t3 :> B
MCCommitOf == x1 :> 1
============================================================================
