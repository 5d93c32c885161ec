SPECIFICATION FairSpec
CONSTANTS
    Callers = {c1, c2, c3, c4}
    NoCaller = none
PROPERTIES
    NestedCallNeverReturns
    EveryWaiterServed
    ImplementsFifoMutex
CHECK_DEADLOCK FALSE
