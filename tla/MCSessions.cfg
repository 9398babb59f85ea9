SPECIFICATION Spec
CONSTANTS
    t1 = t1
    t2 = t2
    u1 = u1
    u2 = u2
    Tab = {t1, t2}
    User = {u1, u2}
    Nobody = Nobody
    NoTab = NoTab
    MaxTokens = 4
    MaxFlight = 2
    MaxLost = 1
SYMMETRY Symmetry
INVARIANTS TypeOK PostsActAsShown SignOutHolds
PROPERTY BootedPageIsCurrent
CHECK_DEADLOCK FALSE
