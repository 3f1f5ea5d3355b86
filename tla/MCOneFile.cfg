CONSTANTS
    UserTxns = {1, 2, 3}
    Files = {1}
    Calls <- OneFileCalls
    ReadBits = {0}
    BackupWalk <- WalkOne
    PauseLimit = 1
    MaxCalls = 1
    Spurious = TRUE
SPECIFICATION Spec
INVARIANTS Exclusion NoLostWakeup SharedChain
PROPERTIES NoReaderPastSleepingWriter
CHECK_DEADLOCK FALSE
