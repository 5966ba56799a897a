\* Removing a member while the same user is added to a project.
CONSTANTS
    Users = {a1, a2, u1}
    InstanceAdmins = {a1, a2}
    Workspaces = {w1}
    Projects = {p1}
    Home <- MCHome
    Requests = {r1, r2}
    None = None
SPECIFICATION Spec
INVARIANT ProjectMembersBelong
SYMMETRY Swaps
CHECK_DEADLOCK FALSE
