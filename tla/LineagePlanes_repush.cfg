SPECIFICATION FairPlanesSpec
CONSTANTS
    p1 = p1
    p2 = p2
    r1 = r1
    r2 = r2
    main = main
    vrf = vrf
    Prefixes <- OnePrefix
    Peers <- OnePeer
    Tables <- OneTable
    Protos <- MCProtos
    MaxChanges = 4
    MaxEnds = 0
    Grace = 1
    NoEntry = NoEntry
PROPERTIES StuckRouteIsReported
