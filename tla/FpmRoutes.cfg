SPECIFICATION Spec
CONSTANTS
    n1 = n1
    n2 = n2
    gw = gw
    lsp = lsp
    cust = cust
    p1 = p1
    Ids <- MCIds
    Gateways <- MCGateways
    Labelled <- MCLabelled
    Tables <- MCTables
    VrfTables <- MCTables
    Prefixes <- MCPrefixes
    MaxDepth = 4
    MaxSends = 4
    MaxSessions = 2
    MaxFaults = 1
    None = None
CHECK_DEADLOCK FALSE
INVARIANTS TypeOK ShowsLastPush NothingLeftOver
