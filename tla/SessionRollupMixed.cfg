\* A session fed by the summary path first and by events afterwards.
CONSTANTS
    m1 = m1
    m2 = m2
    m3 = m3
    Null = Null
    Sessions = {s1}
    Workspaces = {w1}
    Messages = {m1, m2}
    Ingests = {i1}
    Deletes = {}
    Timestamp <- MCTimestamp
    MaxTimestamp = 1530000
    TotalTokens <- MCTotalTokens
    GapMs <- MCGapMs
    Chunk = 2
    Ends = {}
    Notes = {}
    Summaries <- MCSummaries
SPECIFICATION MixedSpec
INVARIANT IngestRetakesRow
CHECK_DEADLOCK FALSE
