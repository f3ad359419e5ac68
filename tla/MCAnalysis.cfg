SPECIFICATION AnalysisSpec
CONSTANTS
    w1 = w1
    w2 = w2
    w3 = w3
    r1 = r1
    k1 = k1
    k2 = k2
    i1 = i1
    i2 = i2
    f1 = f1
    f2 = f2
    Workers = {w1, w2, w3}
    Readers = {r1}
    Keys = {k1}
    KeyOf <- MCOneKey
    Instances = {i1, i2}
    InstanceOf <- MCInstanceOf
    Prints = {f1, f2}
    PrintOf <- MCPrintOf
    NoPrint = NoPrint
    NoOne = NoOne
    MaxRuns = 2
    Nodes = {i1, i2}
    RunNode = i1
    a1 = a1
    a2 = a2
    v1 = v1
    Runs = {a1, a2}
    Viewers = {v1}
    MaxEditions = 2
    MaxLists = 1
    Points = 2
    Window = 2
    HistoryLimit = 2
    MaxMatches = 4
    Families = {"creation", "passing", "defense", "performance"}
    Planned = {"creation", "passing", "defense"}
    Limit = 2
    Levels = {0, 4, 5}
    Middle = 2
    Quartile = 1
    Margin = 1
    MaxFound = 3
    e1 = e1
    e2 = e2
    Evaluators = {e1, e2}
    Windows = {1, 2}
    MaxPlayed = 3
    MaxExperiments = 2
    MaxEvaluations = 2
    q1 = q1
    q2 = q2
    g1 = g1
    g2 = g2
    n1 = n1
    n2 = n2
    n3 = n3
    l1 = l1
    l2 = l2
    Askers = {q1, q2}
    Tiers = {1, 2}
    WholeLasts = 2
    PartLasts = 1
    MaxOfficial = 2
    Managers = {g1, g2}
    Ranked = {g1}
    Nicknames = {n1, n2, n3}
    FirstName <- MCFirstName
    Lookups = {l1, l2}
    About <- MCAbout
    ProfileLasts = 2
    MissLasts = 1
    Reference = 2
    Scores = {1, 3}
    Shares = {0, 2}
    AreaAdvice = 2
    AllAdvice = 3
INVARIANTS
    AnalysisTypeOK
    OverlapPastLease
    BusyAnswersOwn
    ShownWasSaved
    CardsOfLatestUnderLock
    OutsideDataIsTrue
    AnswersMatchReference
    ShownComparesOwnStart
PROPERTIES
    StagesGoForward
CHECK_DEADLOCK FALSE
