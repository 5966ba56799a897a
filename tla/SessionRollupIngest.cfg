\* The event path: two racing ingests of up to three messages, finalizes.
CONSTANTS
    m1 = m1
    m2 = m2
    m3 = m3
    Null = Null
    Sessions = {s1}
    Workspaces = {w1}
    Messages = {m1, m2, m3}
    Ingests = {i1, i2}
    Deletes = {}
    Timestamp <- MCTimestamp
    MaxTimestamp = 1530000
    TotalTokens <- MCTotalTokens
    GapMs <- MCGapMs
    Chunk = 2
    Ends <- MCEnds
    Notes = {}
    Summaries = {}
SPECIFICATION EventSpec
INVARIANTS
    AckedCounted
    RowIsFunctionOfFacts
    FreshRowIsExact
PROPERTIES
    StaleRecomputeNeverWins
    LedgerSpec
CHECK_DEADLOCK FALSE
