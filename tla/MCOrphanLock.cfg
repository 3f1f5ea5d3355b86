CONSTANTS
    UserTxns = {1, 2, 3, 4}
    Files = {1}
    Calls <- OneFileCalls
    ReadBits = {0}
    BackupWalk <- WalkNone
    PauseLimit = 1
    MaxCalls = 1
    Spurious = FALSE
SPECIFICATION Spec
INVARIANTS ExclusiveAlone
CHECK_DEADLOCK FALSE
