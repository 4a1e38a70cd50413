SPECIFICATION Spec
CONSTANTS
    MaxRecords = 4
    MaxActs = 5
    MaxWork = 2
INVARIANTS
    QuietPageIsAccurate
    SavingFormStays
CHECK_DEADLOCK FALSE
