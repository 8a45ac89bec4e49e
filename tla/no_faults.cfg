CONSTANTS
    k1 = k1
    k2 = k2
    w1 = w1
    w2 = w2
    s1 = s1
    s2 = s2
    None = None
    Keys = {k1, k2}
    Sites = {s1, s2}
    NameOf <- SplitNames
    SiteOf <- TwoSites
    SiteIds <- EachSiteOnce
    DownSites = {}
    Workers = {w1, w2}
    MaxRev = 2
    MaxDay = 1
    MaxVersion = 4
    MaxMsgs = 4
    MaxDeliveries = 2
    MaxFaults = 0
    TimerOverlaps = FALSE
SPECIFICATION Spec
INVARIANTS
    OneEventPerId
    EventMatchesBytes
PROPERTIES
    RecordsImmutable
    ImplementsOrderly
