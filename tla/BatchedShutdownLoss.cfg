SPECIFICATION Spec
CONSTANTS
    MaxItems = 3
    Setups <- Plain
INVARIANTS
    NothingPendingAfterTerminate
CHECK_DEADLOCK FALSE
