SPECIFICATION Spec
CONSTANTS
    Inodes = {1, 2}
    Settings <- MCFewChanges
    MaxLineLength = 2
    HeadMax = 2
    ChunkMax = 3
    QueueMax = 2
INVARIANT
    NoneLostAfterChange
