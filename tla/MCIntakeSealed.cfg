SPECIFICATION Spec
CONSTANTS
    p1 = p1
    p2 = p2
    c1 = c1
    c2 = c2
    k1 = k1
    k2 = k2
    Process = {p1, p2}
    Content = {c1}
    Altered = Altered
    Absent = Absent
    NoContent = NoContent
    MaxFaults = 1
    MaxChanges = 0
    Case = {k1}
    NoNumber = NoNumber
    MaxItemNumber = 1
    MaxEntries = 2
INVARIANT RecordedIsSealed
SYMMETRY Symmetry
CHECK_DEADLOCK FALSE
