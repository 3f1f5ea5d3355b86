CONSTANTS
    UserTxns = {1, 2}
    Kinds = {"UNLINK"}
    MaxUpdates = 2
    BackupRuns = FALSE
    IntMax = 1000
    WriteErrors = TRUE
SPECIFICATION Spec
INVARIANTS TypeOK WholeRecords ChainIntact WriteAhead AllOrNothing
CONSTRAINT NotYetRaced
CHECK_DEADLOCK FALSE
