SPECIFICATION Spec
CONSTANTS
    w1 = w1
    w2 = w2
    w3 = w3
    r1 = r1
    k1 = k1
    k2 = k2
    i1 = i1
    i2 = i2
    f1 = f1
    f2 = f2
    Workers = {w1}
    Readers = {r1}
    Keys = {k1}
    KeyOf <- MCOneKey
    Instances = {i1}
    InstanceOf <- MCInstanceOf
    Prints = {f1, f2}
    PrintOf <- MCPrintOf
    NoPrint = NoPrint
    NoOne = NoOne
    MaxRuns = 2
PROPERTIES
    CacheNeverGoesBack
