CONSTANTS
    UserTxns = {1, 2}
    Files = {1, 2}
    Calls <- OrderedCalls
    ReadBits = {0, 1}
    BackupWalk <- WalkTwo
    PauseLimit = 1
    MaxCalls = 2
    Spurious = FALSE
SPECIFICATION FairSpec
PROPERTIES EveryTxnEnds
CHECK_DEADLOCK FALSE
