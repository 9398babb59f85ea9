SPECIFICATION Spec
CONSTANTS
    p1 = p1
    p2 = p2
    c1 = c1
    c2 = c2
    k1 = k1
    k2 = k2
    Process = {p1, p2}
    Content = {c1, c2}
    Altered = Altered
    Absent = Absent
    NoContent = NoContent
    MaxFaults = 1
    MaxChanges = 1
    Case = {k1, k2}
    NoNumber = NoNumber
    MaxItemNumber = 0
    MaxEntries = 2
SYMMETRY Symmetry
INVARIANTS TypeOK AddressIsContent SealedUnlessInFlight LeftoverOnlyByFault RowHasFile AssignedNumbersContiguous
PROPERTY VerdictTrue
CHECK_DEADLOCK FALSE
