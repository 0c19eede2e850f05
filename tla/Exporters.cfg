CHECK_DEADLOCK FALSE
SPECIFICATION MCSpec
CONSTANTS
    pe1 = pe1
    p1 = p1
    pe2 = pe2
    ce = ce
    aPe1 = aPe1
    aP1 = aP1
    aPe2 = aPe2
    aCe = aCe
    cust = cust
    main = main
    site = site
    default = default
    stranger = stranger
    vlan1 = vlan1
    vlan10 = vlan10
    mac = mac
    Inventory = {pe1, p1, ce}
    Reports <- MCReports
    Untagged = {vlan1}
    Default = main
    MaxSilent = 1
    Nobody = None
    Node = {pe1, p1, pe2, ce}
    Vrf = {cust, main}
    Prefix = {site, default}
    Addr = {aPe1, aP1, aPe2, aCe}
    Networks <- MCNetworks
    Covers = {site, default}
    Length <- MCLength
    MaxHops = 5
    MaxChanges = 2
    MaxFaults = 1
    None = None
INVARIANTS
    VerdictIsRight
    GraphIsUnion
PROPERTIES
    DropIsReal
    WalkEnds
