SPECIFICATION MCSpec
CONSTANTS
    MaxTimers = 6
    MaxRunning = 3
    Keys = {k1, k2}
    Callers = {c1, c2}
    MaxVersion = 2
    MaxEnding = 1
    Expiring = TRUE
    Values = {1, 2}
    Legal <- MCLegal
    MaxIds = 3
    MaxDepth = 2
    MaxTasks = 4
    MaxLimit = 3
    Views = {v1, v2}
    MaxInits = 2
SYMMETRY Symmetry
CONSTRAINT UntilAnObserverThrows
INVARIANTS
    TerminateSilences
    ObserversCurrent
    StaleOnlyFromOlderFetch
    TellsEveryone
    OutcomeMatchesTasks
    NothingOutlivesItsBase
CHECK_DEADLOCK FALSE
