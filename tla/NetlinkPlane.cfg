SPECIFICATION Spec
CONSTANTS
    eth0 = eth0
    mac1 = mac1
    route1 = route1
    up = up
    down = down
    Links <- MCLinks
    Macs <- MCMacs
    Routes <- MCRoutes
    Labels <- MCLabels
    Addrs <- MCAddrs
    LinkOf <- MCLinkOf
    Says <- MCSays
    MaxChanges = 2
    MaxPolls = 1
    None = None
VIEW MCView
SYMMETRY MCSymmetry
CHECK_DEADLOCK FALSE
INVARIANTS NothingMissed CurrentUnlessRaced PolledIsShown
