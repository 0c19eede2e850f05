SPECIFICATION Spec
CONSTANTS
    dflt = dflt
    own = own
    pe = pe
    ce1 = ce1
    ce2 = ce2
    rd1 = rd1
    cust = cust
    blue = blue
    r1 = r1
    m1 = m1
    Targets <- MCTargets
    Peers <- MCPeers
    Rds <- MCRds
    Vrfs <- MCVrfs
    VpnRoutes <- MCVpnRoutes
    EvpnRoutes <- MCEvpnRoutes
    TargetOf <- MCTargetOf
    RdOf <- MCRdOf
    VrfOf <- MCVrfOf
    MaxDials <- MCMaxDials
    MaxSends = 4
    MaxFaults = 1
    None = None
CHECK_DEADLOCK FALSE
INVARIANTS TypeOK NeighborWhereItBelongs ShownWhileAdvertised
