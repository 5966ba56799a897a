\* One tab, two changes: streams and fetches of different tabs share nothing.
CONSTANTS
    u1 = u1
    Users = {u1}
    Tabs = {t1}
    UserOf <- MCUserOf
    MaxWrites = 2
SPECIFICATION HubSpec
INVARIANTS
    SettledIsCurrent
PROPERTIES
    OpenTabsCatchUp
CHECK_DEADLOCK FALSE
