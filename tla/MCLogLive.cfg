CONSTANTS
    UserTxns = {1}
    Kinds = {"CREAT", "RENAME", "UNLINK"}
    MaxUpdates = 1
    BackupRuns = TRUE
    IntMax = 3
    WriteErrors = FALSE
SPECIFICATION FairSpec
PROPERTIES EveryTxnLogsItsEnd
