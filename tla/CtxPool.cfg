SPECIFICATION Spec
CONSTANTS
    Merged = {1}
    MaxCtx = 5
    MaxDepth = 2
INVARIANTS TypeOK NoSharing FreeIsIdle DepthCountsCalls
\* the program ends, or the bounds on contexts and depth are reached
CHECK_DEADLOCK FALSE
