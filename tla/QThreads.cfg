SPECIFICATION Spec
CONSTANTS
    t1 = t1
    t2 = t2
    t3 = t3
    NoTask = NoTask
    Tasks = {t1, t2, t3}
    QPOOL_N = 2
    QCAP = 2
    MaxMerges = 4
    Nested = TRUE
    Idle = TRUE
INVARIANTS TypeOK RingSound OnePlace RunOnce DoneMeansRun
PROPERTY FirstInFirstOut
\* task functions may block on each other
SYMMETRY TaskSymmetry
CHECK_DEADLOCK FALSE
