\* Two requests at a time; an import of one line that has an externalId, and one of
\* three lines in two requests.
CONSTANTS
    ann = ann
    bob = bob
    w1 = w1
    w2 = w2
    p1 = p1
    p2 = p2
    s1 = s1
    x = x
    Files <- MCFiles
    Importer = bob
    Target = w1
    MaxEntries = 2
    MaxProjects = 1
    Users = {ann, bob}
    InstanceAdmins = {bob}
    Workspaces = {w1, w2}
    Projects = {p1, p2}
    Home <- MCHome
    External = {x}
    MaxIssued = 2
    Sessions = {s1}
    SessionOwner <- MCSessionOwner
    SessionHome <- MCSessionHome
    Requests = {r1, r2}
    None = None
SPECIFICATION ImportSpec
INVARIANTS
    OnlyTheAuthorWrites
    ProjectOfItsWorkspace
    LinksAreOwn
    ReportIsHonest
PROPERTIES
    EntriesKeepTheirOwner
CONSTRAINT Telling
SYMMETRY Swaps
CHECK_DEADLOCK FALSE
