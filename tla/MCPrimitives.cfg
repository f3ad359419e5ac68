SPECIFICATION PrimitivesSpec
CONSTANTS
    d1 = d1
    d2 = d2
    p1 = p1
    p2 = p2
    Fetchers = {d1, d2}
    SizeOf <- MCSizeOf
    BatchSize = 2
    PoolWorkers = {p1, p2}
    w1 = w1
    w2 = w2
    w3 = w3
    c1 = c1
    c2 = c2
    Workers = {w1, w2, w3}
    Clients = {c1, c2}
    ClientOf <- MCClientOf
    Redis = redis
    NoToken = NoToken
    TTL = 2
    MaxAsks = 1
    t1 = t1
    t2 = t2
    t3 = t3
    i1 = i1
    i2 = i2
    redis = redis
    Threads = {t1, t2, t3}
    Instances = {i1}
    InstanceOf <- OneInstance
    Caches = {redis}
    StoreOf <- OneStore
    Slots = 1
    Interval = 2
    Retries = 2
    Unit429 = 1
    Unit5xx = 1
    RetryAfter = {0}
    Window = 3
INVARIANTS
    PrimitivesTypeOK
    MutualExclusion
    SplitNeedsOutage
    NothingRunsOn
    SlotsConserved
    PaceKept
    CooldownLeakBound
PROPERTIES
    StoresAreLeaseLocks
    GrantsRunOut
    EveryRequestLeaves
    SlotsComeBack
