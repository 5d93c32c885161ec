SPECIFICATION Spec
CONSTANTS
    MaxBytes = 1
    MaxFiles = 2
    Daily = TRUE
    DeleteFails = FALSE
    MaxRecords = 6
    MaxDays = 2
    MaxRestarts = 1
INVARIANT RetentionAcrossRestarts
CHECK_DEADLOCK FALSE
