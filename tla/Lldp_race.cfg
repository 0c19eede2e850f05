SPECIFICATION FairSpec
CONSTANTS
    eth0 = eth0
    eth1 = eth1
    c1 = c1
    c2 = c2
    Ifaces <- OneIface
    Chassis <- OneChassis
    Pluggable <- FixedOne
    NoChassis = NoChassis
    WatchWorks = TRUE
    MaxChanges = 3
    MaxFaults = 0
PROPERTIES Converges
