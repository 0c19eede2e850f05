SPECIFICATION FairSpec
CONSTANTS
    eth0 = eth0
    eth1 = eth1
    c1 = c1
    c2 = c2
    Ifaces <- TwoIfaces
    Chassis <- TwoChassis
    Pluggable <- Replaced
    NoChassis = NoChassis
    WatchWorks = TRUE
    MaxChanges = 2
    MaxFaults = 1
PROPERTIES SeenIsCached EventuallyComplete ConvergesIfAlone
