\* Two requests at a time, a founder, a guest, one invitation.
CONSTANTS
    a1 = a1
    e1 = e1
    e2 = e2
    Accounts = {a1, a2}
    Emails = {e1, e2}
    Email <- MCEmail
    SelfJoin = {e2}
    Invitations = {i1}
    Requests = {r1, r2}
    Patches <- MCPatches
    None = None
SPECIFICATION Spec
INVARIANTS
    EnabledAdminRemains
    DisabledLockedOut
    OneFounder
    AcceptedIsGranted
CONSTRAINT Guarded
SYMMETRY Swaps
CHECK_DEADLOCK FALSE
