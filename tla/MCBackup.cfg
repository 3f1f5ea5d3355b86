SPECIFICATION FairSpec
CONSTANTS
    Root = "root"
    Dirs = {"D", "E"}
    Files = {"F", "G"}
    Nowhere = Nowhere
    Names = {"d", "e", "f", ".g"}
    Hidden = {".g"}
    FirstPath <- MCFirstPath
    FirstMarks = {"G"}
    Txns = {1, 2}
    Calls <- MCCalls
    StackLimit = 2
CHECK_DEADLOCK FALSE
INVARIANTS TypeOK CoveredOnce FallsOnlyShaken
PROPERTIES TouchesWhatItLocked LockedStays BackupEnds
