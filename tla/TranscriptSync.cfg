\* Two turns, their Stop workers, SessionEnd and resumes, failures anywhere.
CONSTANTS
    m1 = m1
    m2 = m2
    Null = Null
    Sessions = {s1}
    Workspaces = {w1}
    Session = s1
    Workspace = w1
    Messages = {m1, m2}
    Ingests = {i1, i2}
    Deletes = {}
    Timestamp <- MCTimestamp
    MaxTimestamp = 330000
    TotalTokens <- MCTotalTokens
    GapMs <- MCGapMs
    Chunk = 1
    MaxEvents = 2
    Ends <- MCEnds
    Notes = {}
    Summaries = {}
SPECIFICATION SyncSpec
INVARIANTS
    ClosedIsCounted
    ClosingFactsArrive
PROPERTIES
    TurnsAreCounted
    SessionEnds
CHECK_DEADLOCK FALSE
