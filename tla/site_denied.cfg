CONSTANTS
    kd = kd
    ka = ka
    kb = kb
    sd = sd
    su = su
    None = None
    Keys = {kd, ka, kb}
    Sites = {sd, su}
    NameOf <- Names
    SiteOf <- SiteOfKey
    SiteIds <- DownFirst
    DownSites = {sd}
    ObjectsOf <- S3Order
    PageSize = 1
    MaxRetries = 3
    Files <- ShortFiles
    OutageAnswers = {"clientError"}
    Workers = {}
    MaxRev = 1
    MaxDay = 1
    MaxVersion = 1
    MaxMsgs = 5
    MaxDeliveries = 1
    MaxFaults = 0
    TimerOverlaps = FALSE
SPECIFICATION FairSpec
PROPERTY
    OutageContained
