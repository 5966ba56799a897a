CONSTANTS
    g1 = g1
    Repos = {a, b}
    Names = {n1, n2}
    Comments = {c1, c2}
    Author <- MCAuthor
    GithubUsers = {g1}
    Users = {u1}
    Projects = {p1}
    Mappings = {m1, m2}
    MaxEntries = 2
    Handlers = {h1, h2}
    None = None
SPECIFICATION Spec
INVARIANTS
    OneEntryPerComment
    RefsFollowMapping
    NoImpostor
CONSTRAINT Telling
SYMMETRY Swaps
CHECK_DEADLOCK FALSE
