SPECIFICATION Spec
CONSTANTS
    Clients = {1, 2, 3}
    MaxClients = 1
    Lines = {1, 2, 3}
    Length <- MCLength
    Stream <- MCStream
    LineMax = 1
    RecvMax = 3
    QueueMax = 1
    StdinLines = {4, 5}
    Scenarios <- MCScenarios
    BatchMax = 2
    WalRecords = 2
CHECK_DEADLOCK FALSE
INVARIANTS
    LinesAreFramed
    NoneLost
PROPERTIES
    StdinInOrder
    QueueIsEmptied
    ShutdownEnds
