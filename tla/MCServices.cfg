SPECIFICATION ServicesSpec
CONSTANTS
    r1 = r1
    r2 = r2
    r3 = r3
    k1 = k1
    k2 = k2
    Requests = {r1, r2, r3}
    Keys = {k1, k2}
    KeyOf <- MCKeyOf
    MaxRequests = 2
    WindowSec = 2
    PerSec = 2
    MaxLag = 1
    MaxBuckets = 1
    i1 = i1
    c1 = c1
    Instances = {i1}
    Callers = {c1}
    HomeOf <- MCHomeOf
    Ranks = {1, 2}
    Retention = 2
    AutoSync = TRUE
    s1 = s1
    t1 = t1
    t2 = t2
    Servers = {s1}
    Trackers = {t1, t2}
    ServerOf <- MCServerOf
    PerHour = 2
    LastTick = 3
    MaxEvents = 3
    SummaryHours = 1
    SummaryLimit = 1
    KeptFailures = 2
    m1 = m1
    m2 = m2
    MatchIds = {m1, m2}
    Period = 3
    CacheLasts = 2
    MaxVersion = 2
SYMMETRY MCSymmetry
INVARIANTS
    ServicesTypeOK
    WindowBound
    RetryAfterHonest
    LockedByWorker
    OneSyncADay
    ValidIsServed
    SummaryMatchesEvents
    RetentionKept
PROPERTIES
    NothingIsEvicted
