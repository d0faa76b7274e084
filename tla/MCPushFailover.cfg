SPECIFICATION LiveSpec
CONSTANTS
    push = push
    wal = wal
    Threads = {push, wal}
    sender = push
    FailbackSec = 9
    Timeout = 2
    ProbeTimeout = 1
INVARIANTS
    AnswerIsLast
    OneProbe
PROPERTIES
    ProbesAreApart
    PrimaryIsUsedAgain
