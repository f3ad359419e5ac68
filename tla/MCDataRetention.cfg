SPECIFICATION RetentionSpec
CONSTANTS
    m1 = m1
    m2 = m2
    m3 = m3
    MatchIds = {m1, m2, m3}
    Period = 2
    CacheLasts = 2
    MaxVersion = 1
INVARIANT
    ReviewedInTime
