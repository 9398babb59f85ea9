SPECIFICATION Spec
CONSTANTS
    kim = kim
    raj = raj
    ana = ana
    s1 = s1
    s2 = s2
    i1 = i1
    Item = {i1}
    Examiner = {kim, raj, ana}
    Session = {s1, s2}
    Nobody = Nobody
    MaxEntries = 5
INVARIANT PendingIsLatestUnaccepted
CHECK_DEADLOCK FALSE
