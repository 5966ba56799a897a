\* A send against an edit, same bounds as ReportSharing.cfg.
CONSTANTS
    w1 = w1
    Users = {o, u1}
    Owner = o
    Workspaces = {w1}
    Projects = {p1}
    Home <- MCHome
    Links = {l1}
    MaxVersion = 2
    Requests = {r1, r2}
    None = None
SPECIFICATION Spec
PROPERTY SendNeverWidens
CHECK_DEADLOCK FALSE
