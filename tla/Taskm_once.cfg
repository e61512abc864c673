\* Every thread is merged into once; the functions do not call taskm.
SPECIFICATION FairSpec
CONSTANTS
    MaxThreads = 3
    MaxRuns = 3
    MergesPerThread = 1
    Nested = FALSE
INVARIANTS BlockWaits
PROPERTIES BlockReturns ErrorDelivered KeepsPromise
