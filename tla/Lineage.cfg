SPECIFICATION FairSpec
CONSTANTS
    p1 = p1
    p2 = p2
    Prefixes <- MCPrefixes
    Protos <- MCProtos
    Grace = 1
    NoEntry = NoEntry
INVARIANTS NoGhostEntries FlaggedIsUnconfirmed
PROPERTIES OverdueIsFlagged ImplementsPrefixLife
