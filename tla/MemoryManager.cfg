SPECIFICATION Spec
CONSTANTS
    Requests = {1, 2, 4}
    Pids = {1}
    BlockSizes = {3}
    MaxBlocks = 3
    MaxHeap = 5
INVARIANT TypeOK
PROPERTY ImplementsPool
CHECK_DEADLOCK FALSE
