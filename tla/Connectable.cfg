SPECIFICATION FairSpec
CONSTANTS
    Subscribers = {s1, s2}
    MaxEpochs = 2
INVARIANTS
    AtMostOncePerTransition
    LastHeardIsTrue
PROPERTIES
    EverySubscriberHears
CHECK_DEADLOCK FALSE
