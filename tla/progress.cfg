CONSTANTS
    k1 = k1
    k2 = k2
    w1 = w1
    w2 = w2
    s1 = s1
    s2 = s2
    None = None
    Keys = {k1}
    Sites = {s1}
    NameOf <- SplitNames
    SiteOf <- OneSite
    SiteIds <- EachSiteOnce
    DownSites = {}
    Workers = {w1, w2}
    MaxRev = 2
    MaxDay = 1
    MaxVersion = 5
    MaxMsgs = 5
    MaxDeliveries = 2
    MaxFaults = 1
    TimerOverlaps = FALSE
SPECIFICATION FairSpec
PROPERTIES
    EveryRevisionAnnounced
    EveryEventRecorded
