SPECIFICATION Spec
CONSTANTS
    Bits = 16
    Parse <- ReadJson
    JsonText <- WriteJson
    Identity <- MCIdentity
    PidBits = 8
    PrefixMax = 40
    Documents <- MCDocuments
    FracDigits = 2
    DoubleStep = 25
    MaxSeconds = 326
    Pids = {7}
    Tasks = {"http", "smtp"}
    MaxStarts = 2
    MaxChanges = 3
    Installations <- MCInstallations
    MailCalls <- MCMailCalls
    FlatLines <- MCFlatLines
    Messages <- MCMessages
    ConsoleLines <- MCConsoleLines
    Bytes <- MCBytes
    WalRequests <- MCWalRequests
    QueueMax = 3
    Now = 77
    MaxCalls = 3
    MaxInputs <- MCMaxInputs
    MaxBytes = 3
CHECK_DEADLOCK FALSE
INVARIANTS
    MailArrives
    PayloadIsBatch
    RequestIsPayload
    InputsAreRead
    ProcessesAreNamed
    TextIsValid
