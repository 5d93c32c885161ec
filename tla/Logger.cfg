SPECIFICATION FairSpec
CONSTANTS
    Trees = {t1, t2}
    Stateful = {t1}
    Flushers = {f1}
    MaxRecords = 2
INVARIANTS
    WrittenInOrder
PROPERTIES
    FlushCoversEarlierRecords
    EveryRecordSettles
CHECK_DEADLOCK FALSE
