\* Any interleaving of three merges into two threads, functions that use taskm
\* themselves included: here close(t.doneCh) may well hit a later channel.
SPECIFICATION Spec
CONSTANTS
    MaxThreads = 2
    MaxRuns = 3
    MergesPerThread = 3
    Nested = TRUE
INVARIANTS TypeOK OneRunPerThread DoneMeansIdle
CHECK_DEADLOCK FALSE
