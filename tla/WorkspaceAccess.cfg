\* Two requests at a time on one workspace and one project.
CONSTANTS
    Users = {a1, a2}
    InstanceAdmins = {a1, a2}
    Workspaces = {w1}
    Projects = {p1}
    Home <- MCHome
    Requests = {r1, r2}
    None = None
SPECIFICATION Spec
INVARIANTS
    MembershipHolds
    OneOwner
PROPERTIES
    ArchivedIsReadOnly
    OwnerStays
SYMMETRY Swaps
CHECK_DEADLOCK FALSE
