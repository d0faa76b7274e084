SPECIFICATION LiveSpec
CONSTANTS
    \* The limit is one record and a half, so that the second record is refused until the WAL was emptied
    Threads = {t1, t2}
    walThread = t1
    MaxRecords = 2
    MaxSize = 3
PROPERTIES
    AcceptedIsDelivered
    FullIsTemporary
