SPECIFICATION Spec
CONSTANTS
    WarnDown = 1
    ErrorDown = 2
    LostWindow = 1
    Programs <- MCPrograms
    MaxTime = 7
    MaxEvents = 3
    e1 = e1
    e2 = e2
    MaxPerIdle = 1
    QuietSteps = 2
    MaxSteps = 3
    MaxDrain = 4
    PostSteps = 1
    ServerEvents = {e1, e2}
    OldEvents = {e2}
    MaxLogged = 1
    Tests <- MCTests
    Earlier <- MCEarlier
    MaxPushes = 2
    MaxSecond = 2
CHECK_DEADLOCK FALSE
INVARIANTS
    AlertIsRaised
    NoFalseAlarm
    OwnLinesAreTaken
    PassIsTrue
    SinkIsLeftWorking
    LedgerCounts
PROPERTIES
    EventsAreForwarded
