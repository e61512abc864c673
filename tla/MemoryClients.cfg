\* Programs of both kinds; lists share blocks and fill them, and every request
\* fits into an empty block.
SPECIFICATION ClientSpec
CONSTANTS
    Requests = {0, 1, 3}
    Pids = {1, 2}
    BlockSizes = {3}
    MaxBlocks = 4
    Lists = {l1, l2}
INVARIANTS TypeOK NoDangling IdleQueued ClientTypeOK OnlySpawnsLeak OwnersRun TaskBlockOwn HeldBlocksLive
PROPERTY ReclaimedAtEnd
