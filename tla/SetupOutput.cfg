SPECIFICATION Spec
CONSTANTS
    MaxStream = 3
    MaxRecord = 32
    MaxRead = 2
CHECK_DEADLOCK FALSE
INVARIANTS
    RecordsOutcome
