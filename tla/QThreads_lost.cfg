SPECIFICATION FairSpec
CONSTANTS
    t1 = t1
    NoTask = NoTask
    Tasks = {t1}
    QPOOL_N = 2
    QCAP = 2
    MaxMerges = 1
    Nested = FALSE
    Idle = TRUE
PROPERTY EveryMergeRuns
CHECK_DEADLOCK FALSE
