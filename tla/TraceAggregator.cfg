SPECIFICATION AggFairSpec
CONSTANTS
    n1 = n1
    n2 = n2
    t1 = t1
    t2 = t2
    t3 = t3
    x1 = x1
    A = A
    B = B
    Polled = {n1, n2}
    Trace = {t1, t2, t3}
    NodeOf <- MCNodeOf
    StartOf <- MCStartOf
    EarliestOf <- MCEarliestOf
    LinkOf <- MCLinkOf
    Txn = {x1}
    CommitOf <- MCCommitOf
    OurLab = {x1}
    LokiOn = TRUE
    Window = 1
    TxnWindow = 1
    TxnSkew = 1
    Hold = 1
    Retention = 2
    Limit = 1
    MaxTime = 3
    MaxFailures = 1
    Unknown = Unknown
INVARIANTS
    TypeOK
    OncePerId
    SameGroupSameId
PROPERTIES
    SettledIsExported
