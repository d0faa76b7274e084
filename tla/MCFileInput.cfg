SPECIFICATION Spec
CONSTANTS
    Inodes = {1, 2}
    Settings <- MCSettings
    MaxLineLength = 2
    HeadMax = 2
    ChunkMax = 3
    QueueMax = 2
INVARIANTS
    NoneLost
    CrashSafe
    LinesAreWhole
    SavedIsDelivered
PROPERTIES
    FirstDeliveriesInOrder
    StopSavesAll
