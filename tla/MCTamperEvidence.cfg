SPECIFICATION Spec
CONSTANTS
    Body = {"a", "b"}
    MaxEntries = 4
    MaxEdits = 2
    MaxReports = 1
INVARIANTS TypeOK VerifiedRowsAreOriginal ReportPinsHistory
PROPERTIES EditNamedExactly DeletionNamed DamageStays
CHECK_DEADLOCK FALSE
