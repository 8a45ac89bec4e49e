CONSTANTS
    k1 = k1
    k2 = k2
    w1 = w1
    w2 = w2
    s1 = s1
    s2 = s2
    None = None
    Keys = {k1}
    Sites = {s1}
    NameOf <- SplitNames
    SiteOf <- OneSite
    SiteIds <- EachSiteOnce
    DownSites = {}
    Workers = {w1}
    MaxRev = 2
    MaxDay = 1
    MaxVersion = 4
    MaxMsgs = 2
    MaxDeliveries = 2
    MaxFaults = 0
    TimerOverlaps = FALSE
SPECIFICATION Spec
INVARIANT
    NoContentTwice
