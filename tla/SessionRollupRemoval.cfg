\* Everything at once: two sessions sharing messages, two workspaces that can
\* be deleted, a bulk delete, finalizes and the summary path.
CONSTANTS
    m1 = m1
    m2 = m2
    m3 = m3
    Null = Null
    Sessions = {s1, s2}
    Workspaces = {w1, w2}
    Messages = {m1, m2}
    Ingests = {i1}
    Deletes = {d1}
    Timestamp <- EqualTimestamp
    MaxTimestamp = 1530000
    TotalTokens <- EqualTokens
    GapMs <- EqualGapMs
    Chunk = 2
    Ends = {}
    Notes = {}
    Summaries <- OneSummary
SPECIFICATION Spec
INVARIANTS
    MessageCountedOnce
    RemovalForgets
CONSTRAINT FewLosses
SYMMETRY Swaps
CHECK_DEADLOCK FALSE
