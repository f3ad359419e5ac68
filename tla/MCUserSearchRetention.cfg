\* One thread and the defaults of the code: 30 days of retention and of cache.
CONSTANTS
    w1 = w1
    w2 = w2
    w3 = w3
    i1 = i1
    i2 = i2
    Workers = {w1}
    Instances = {i1}
    InstanceOf <- MCAlone
    NoOne = NoOne
    Gone = Gone
    Retention = 30
    CacheTtl = 30
    MaxAge = 61
    MaxLocks = 1
SPECIFICATION Spec
INVARIANT ServedInTime
