CONSTANTS
    kd = kd
    ka = ka
    kb = kb
    sd = sd
    su = su
    None = None
    Keys = {kd, ka, kb}
    Sites = {sd, su}
    NameOf <- Names
    SiteOf <- SiteOfKey
    SiteIds <- DownFirst
    DownSites = {sd}
    ObjectsOf <- S3Order
    PageSize = 1
    MaxRetries = 3
    Files <- ShortFiles
    OutageAnswers = {"serverError", "unreachable"}
    Workers = {}
    MaxRev = 1
    MaxDay = 1
    MaxVersion = 1
    MaxMsgs = 7
    MaxDeliveries = 1
    MaxFaults = 2
    TimerOverlaps = FALSE
SPECIFICATION FairSpec
INVARIANTS
    TypeOK
    EveryRowGiven
    RepeatsAreRetries
    RowsFromTheTop
PROPERTIES
    ImplementsDispatcher
    RunEnds
    OutageContained
    StreamEnds
