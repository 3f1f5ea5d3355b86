CONSTANTS
    Txns = {1, 2, 3}
    Files = {f, g}
    NoFile = NoFile
    Wide = {g}
    DeadlockSlots = 3
    Modes <- MCModes
    MaxRequests <- MCRequests
SPECIFICATION FairSpec
INVARIANTS VictimInDeadlock WaitersCounted VictimNotForgotten
PROPERTIES CyclesFound DeadlockResolved
CHECK_DEADLOCK FALSE
