SPECIFICATION SyslogSpec
CONSTANTS
    n1 = n1
    n2 = n2
    eth0 = eth0
    eth1 = eth1
    Rids <- TwoRids
    Ifaces <- TwoIfaces
    Wired <- ApartLinks
    SockCap = 1
    Parallel = FALSE
    Fallback = TRUE
    MaxChanges = 2
    MaxLost = 1
    MaxFaults = 1
    Absent = Absent
    NoAnswer = NoAnswer
INVARIANTS TypeOK WakeupPending BookkeepingAgrees
PROPERTIES AlarmIffVisible MirrorsNeighbours SyslogNeverBlocks EventuallyCorrect
