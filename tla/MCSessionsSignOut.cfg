SPECIFICATION Spec
CONSTANTS
    t1 = t1
    t2 = t2
    u1 = u1
    u2 = u2
    Tab = {t1, t2}
    User = {u1, u2}
    Nobody = Nobody
    NoTab = NoTab
    MaxTokens = 4
    MaxFlight = 2
    MaxLost = 0
SYMMETRY Symmetry
INVARIANT SessionGoesAway
CHECK_DEADLOCK FALSE
