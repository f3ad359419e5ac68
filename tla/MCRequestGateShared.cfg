SPECIFICATION GateSpec
CONSTANTS
    t1 = t1
    t2 = t2
    t3 = t3
    i1 = i1
    i2 = i2
    redis = redis
    Threads = {t1, t3}
    Instances = {i1, i2}
    InstanceOf <- TwoInstances
    Caches = {redis}
    StoreOf <- OneStore
    Slots = 2
    Interval = 2
    Retries = 2
    Unit429 = 1
    Unit5xx = 1
    RetryAfter = {0, 3}
    Window = 3
INVARIANTS
    CommonWaitCovers
