\* A transcript that outgrows one payload, with the same hooks and failures.
CONSTANTS
    m1 = m1
    m2 = m2
    Null = Null
    Sessions = {s1}
    Workspaces = {w1}
    Session = s1
    Workspace = w1
    Messages = {m1, m2}
    Ingests = {i1, i2}
    Deletes = {}
    Timestamp <- MCTimestamp
    MaxTimestamp = 330000
    TotalTokens <- MCTotalTokens
    GapMs <- MCGapMs
    Chunk = 1
    MaxEvents = 1
    Ends <- MCEnds
    Notes = {}
    Summaries = {}
SPECIFICATION SyncSpec
PROPERTY TurnsAreCounted
CHECK_DEADLOCK FALSE
