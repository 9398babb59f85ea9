SPECIFICATION Spec
CONSTANTS
    Body = {"a", "b"}
    MaxEntries = 3
    MaxEdits = 1
    MaxReports = 0
PROPERTY AlterationInvalidatesLater
CHECK_DEADLOCK FALSE
