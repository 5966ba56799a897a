\* Two starters, a created template, two handlers at a time.
CONSTANTS
    daily = daily
    weekly = weekly
    Starters <- MCStarters
    Daily = daily
    Created = {c1}
    Requests = {r1, r2}
    Absent = Absent
SPECIFICATION Spec
SYMMETRY MCSymmetry
INVARIANTS
    DefaultIsUsable
PROPERTIES
    DefaultEndures
    ReferencedStays
CHECK_DEADLOCK FALSE
