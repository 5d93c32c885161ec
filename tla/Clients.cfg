SPECIFICATION MCSpec
CONSTANTS
    Drivers = {d1, d2}
    Consumers = {c1}
    Ids = {1, 2}
    Cells = {v1, null}
    Null = null
    Absent = absent
    MaxPools = 2
    Callers = {"first", "second"}
    Segments <- MCSegments
    Special <- MCSpecial
    NsOf <- MCNsOf
    Keys <- MCKeys
    Matched <- MCMatched
    Amounts <- MCAmounts
    Counts <- MCCounts
    Text = text
    Written = {text}
    MaxAttempts = 3
    KyRetries = 2
    Texts = {a, b, crText}
    Splitting <- MCSplitting
    Events <- MCEvents
    MaxEvents = 3
    MaxSubs = 3
    NoName = noName
    a = a
    b = b
    crText = crText
SYMMETRY DriverSymmetry
CONSTRAINT OverlapsAlone
INVARIANTS
    LatchTellsPool
    HooksTellOutcome
    PageFitsTotal
    SuccessMeansAll
    RepeatedOnlyWhenUnread
    RequestLabelTellsEncoding
    EventsSurviveChunks
    SinksEndOnce
PROPERTY
    ImplementsKeyValueStore
CHECK_DEADLOCK FALSE
