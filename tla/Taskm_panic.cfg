\* One thread is merged into twice: both goroutines close the later channel.
SPECIFICATION Spec
CONSTANTS
    MaxThreads = 2
    MaxRuns = 2
    MergesPerThread = 2
    Nested = FALSE
INVARIANT NoDoubleClose
CHECK_DEADLOCK FALSE
