\* A change signalled while the tab's stream is being opened for the first time.
CONSTANTS
    u1 = u1
    Users = {u1}
    Tabs = {t1}
    UserOf <- MCUserOf
    MaxWrites = 1
SPECIFICATION HubSpec
INVARIANTS
    OpenTabsReceiveChanges
CHECK_DEADLOCK FALSE
