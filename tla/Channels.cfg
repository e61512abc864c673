\* main and a merged function share a list, by merge or over a channel, and both
\* append to it.
SPECIFICATION Spec
CONSTANTS
    Main = main
    None = None
    Runs = {r1}
    Chans = {c}
    Lists = {l}
    Sizes = {0, 1}
    MaxSends = 1
    MaxAppends = 2
INVARIANT VisibleExist
\* Both goroutines may wait.
CHECK_DEADLOCK FALSE
