SPECIFICATION Spec
CONSTANTS
    Merged = {1, 2}
    MaxCtx = 5
    MaxDepth = 1
INVARIANT NoSharing
\* the program ends, or the bounds on contexts and depth are reached
CHECK_DEADLOCK FALSE
