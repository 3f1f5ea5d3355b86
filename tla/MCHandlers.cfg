CONSTANTS
    UserTxns = {1, 2}
    Files = {1, 2}
    Calls <- AllCalls
    ReadBits = {0, 1, 2}
    BackupWalk <- WalkTwo
    PauseLimit = 1
    MaxCalls = 2
    Spurious = FALSE
SPECIFICATION Spec
INVARIANTS TypeOK WaitCount NothingLeftBehind
PROPERTIES ImplementsService
CHECK_DEADLOCK FALSE
