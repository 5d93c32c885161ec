SPECIFICATION Spec
CONSTANTS
    MaxItems = 3
    Setups <- HookThrows
INVARIANTS
    OnlyRejectedBatchesRetained
CHECK_DEADLOCK FALSE
