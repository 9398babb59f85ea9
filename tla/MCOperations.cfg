SPECIFICATION Spec
CONSTANTS
    p1 = p1
    p2 = p2
    c1 = c1
    c2 = c2
    Process = {p1, p2}
    Content = {c1, c2}
    Case = {"case"}
    NoCase = NoCase
    NoContent = NoContent
    Damaged = Damaged
    Absent = Absent
    Files = 2
    MaxEntries = 4
    MaxSignIns = 1
    MaxCommands = 2
    MaxFaults = 1
SYMMETRY Symmetry
INVARIANTS TypeOK EndedImportIsComplete ReportAgreesWithItself HolderIsNotOutdated QuietReportIsSnapshot VerifiedBackupIsWhole FaithfulIsSame 
PROPERTY OneItemPerContent
CHECK_DEADLOCK FALSE
