SPECIFICATION Spec
CONSTANTS
    t1 = t1
    t2 = t2
    Threads = {t1, t2}
    MaxRecords = 2
    MaxSize = 0
SYMMETRY ThreadSymmetry
INVARIANT NoneLostBehindTornRecord
