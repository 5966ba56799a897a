\* An account with one agent, which may come with two tokens; two requests at a time.
CONSTANTS
    ann = ann
    Users = {ann}
    Agents = {a1}
    OwnerOf <- MCOwnerOf
    Secrets = {s1, s2, s3, s4}
    MaxRows = 2
    Requests = {r1, r2}
    None = None
SPECIFICATION Spec
INVARIANTS
    AdmittedWasLive
    OldSecretsStop
    AgentsKeepTheirToken
CONSTRAINT Telling
SYMMETRY Swaps
CHECK_DEADLOCK FALSE
