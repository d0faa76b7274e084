SPECIFICATION LiveSpec
CONSTANTS
    LastLine = 3
    Length <- MCLength
    QueueLines = 2
    QueueBytes = 5
    c1 = c1
    Connections = {c1}
    SocketBytes = 3
    LowWater = 1
    DrainMax = 2
    WalRecords = 2
INVARIANTS
    BufferOK
    StreamIsWhole
    NoneLost
PROPERTIES
    ArriveInOrder
    LinesArrive
