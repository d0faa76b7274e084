SPECIFICATION LiveSpec
CONSTANTS
    Inodes = {1, 2}
    Settings <- MCSettings
    MaxLineLength = 1
    HeadMax = 2
    ChunkMax = 3
    QueueMax = 1
PROPERTY
    LinesAreDelivered
