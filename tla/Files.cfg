SPECIFICATION MCSpec
CONSTANTS
    MaxBytes = 2
    MaxFiles = 2
    Daily = TRUE
    DeleteFails = TRUE
    MaxRecords = 10
    MaxDays = 2
    MaxRestarts = 1
    Callers = {c1, c2}
    df = df
    ef = ef
    folder = folder
    Temps = {t1}
    Mixes <- MCMixes
    textCache = textCache
    bytesCache = bytesCache
    Files = {df, ef}
    Dirs = {folder}
    Under <- MCUnder
    Renamed <- MCRenamed
    MaxVersion = 1
    Silent = {"stream", "close", "moveDir"}
    Halfway = TRUE
    Names = {"a", "b"}
    SampleBytes = {0, 1, 63, 64, 255}
    MaxSegments = 3
    MaxLength = 4
SYMMETRY Symmetry
INVARIANTS
    RetentionWindow
    LinesInOrder
    NoFileLost
    NothingOutlivesTerminate
    CallersKnowOutcome
    WalkSeesWhatStays
    StaleOnlyIfExposed
    ConversionsInvert
CHECK_DEADLOCK FALSE
