\* Two admins demote each other.
CONSTANTS
    a1 = a1
    e1 = e1
    e2 = e2
    Accounts = {a1, a2}
    Emails = {e1, e2}
    Email <- MCEmail
    SelfJoin = {}
    Invitations = {}
    Requests = {r1, r2}
    Patches <- MCPatches
    None = None
SPECIFICATION Spec
INVARIANT AdminAlwaysRemains
SYMMETRY Swaps
CHECK_DEADLOCK FALSE
