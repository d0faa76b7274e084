SPECIFICATION Spec
CONSTANTS
    t1 = t1
    t2 = t2
    Threads = {t1, t2}
    MaxRecords = 3
    MaxSize = 0
SYMMETRY ThreadSymmetry
INVARIANTS
    NoneLost
    PendingSeen
    IInv
PROPERTY
    ImplementsQueue
