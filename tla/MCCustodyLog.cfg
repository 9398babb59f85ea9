SPECIFICATION FairSpec
CONSTANTS
    w1 = w1
    w2 = w2
    w3 = w3
    c1 = c1
    c2 = c2
    c3 = c3
    NoWriter = NoWriter
    NoCall = NoCall
    Writer = {w1, w2, w3}
    Call = {c1, c2, c3}
    RowCall = {c1, c2}
    MaxFaults = 2
INVARIANTS TypeOK ChainIntact RowIffEntry
PROPERTIES ImplementsLedger EveryCallEnds LockReleased
CHECK_DEADLOCK FALSE
