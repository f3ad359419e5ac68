CONSTANTS
    w1 = w1
    w2 = w2
    w3 = w3
    i1 = i1
    i2 = i2
    Workers = {w1, w2, w3}
    Instances = {i1, i2}
    InstanceOf <- MCInstanceOf
    NoOne = NoOne
    Gone = Gone
    Retention = 0
    CacheTtl = 1
    MaxAge = 1
    MaxLocks = 2
SPECIFICATION Spec
INVARIANTS
    TypeOK
    AskedOnce
    LocksReleased
PROPERTIES
    LockComesBack
