\* Main and two functions on a channel of size 2 that wraps, fills and runs empty.
SPECIFICATION Spec
CONSTANTS
    Values = {0, 1}
    Tasks = {t1, t2}
    NoTask = NoTask
    Cap = 2
    MaxMerges = 2
    Idle = TRUE
INVARIANTS TypeOK RingSound NobodyOverslept DoneMeansRun
PROPERTIES FirstInFirstOut
\* All threads may wait for a partner.
CHECK_DEADLOCK FALSE
