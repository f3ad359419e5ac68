SPECIFICATION RankerSpec
CONSTANTS
    i1 = i1
    c1 = c1
    Instances = {i1}
    Callers = {c1}
    HomeOf <- MCHomeOf
    Ranks = {1, 2}
    Retention = 2
    AutoSync = TRUE
INVARIANTS
    SnapshotInTime
