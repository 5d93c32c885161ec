SPECIFICATION FairSpec
CONSTANTS
    MaxItems = 5
    Setups <- AllSetups
INVARIANTS
    DeliveredInOrder
    EveryItemAccounted
PROPERTIES
    EveryItemSettles
CHECK_DEADLOCK FALSE
