\* A delete races an ingest that already read its aggregates.
CONSTANTS
    m1 = m1
    m2 = m2
    m3 = m3
    Null = Null
    Sessions = {s1}
    Workspaces = {w1}
    Messages = {m1, m2}
    Ingests = {i1}
    Deletes = {d1}
    Timestamp <- MCTimestamp
    MaxTimestamp = 1530000
    TotalTokens <- MCTotalTokens
    GapMs <- MCGapMs
    Chunk = 2
    Ends = {}
    Notes = {}
    Summaries = {}
SPECIFICATION DeleteSpec
INVARIANT DeletedHistoryStaysGone
CHECK_DEADLOCK FALSE
