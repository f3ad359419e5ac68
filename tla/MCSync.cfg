SPECIFICATION SyncSpec
CONSTANTS
    w1 = w1
    w2 = w2
    i1 = i1
    i2 = i2
    Workers = {w1, w2}
    Instances = {i1}
    InstanceOf <- MCTogether
    WindowOf <- MCWindowOf
    ForfeitsOf <- MCForfeitsOf
    MaxMatches = 5
    Forfeits <- MCForfeits
    PageMin = 2
    PageMax = 4
    CacheCap = 2
INVARIANTS
    TypeOK
    EnoughRows
    HeadServed
    FetchedServed
    GapNeedsShortFillAlone
