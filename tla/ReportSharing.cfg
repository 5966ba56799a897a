\* Two requests at a time over one report of at most two versions.
CONSTANTS
    w1 = w1
    Users = {o, u1}
    Owner = o
    Workspaces = {w1}
    Projects = {p1}
    Home <- MCHome
    Links = {l1}
    MaxVersion = 2
    Requests = {r1, r2}
    None = None
SPECIFICATION Spec
INVARIANTS
    HeaderIsLatest
    OpenedToReaders
    ResharesWhatWasReceived
PROPERTIES
    DeadLinksStayDead
    BookSpec
SYMMETRY Swaps
CONSTRAINT Telling
CHECK_DEADLOCK FALSE
