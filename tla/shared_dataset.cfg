CONSTANTS
    k1 = k1
    k2 = k2
    w1 = w1
    w2 = w2
    s1 = s1
    s2 = s2
    None = None
    Keys = {k1, k2}
    Sites = {s1}
    NameOf <- SplitNames
    SiteOf <- OneSite
    SiteIds <- EachSiteOnce
    DownSites = {}
    Workers = {w1, w2}
    MaxRev = 1
    MaxDay = 2
    MaxVersion = 4
    MaxMsgs = 2
    MaxDeliveries = 2
    MaxFaults = 1
    TimerOverlaps = FALSE
SPECIFICATION Spec
SYMMETRY FullSymmetry
INVARIANTS
    EventPointsToOwnFile
    SidecarDescribesOwnFile
PROPERTY
    ImplementsCatalogue
