SPECIFICATION ServerSpec
CONSTANTS
    Threads = {t1, t2}
    Objects = {a, b}
    NoObject = NoObject
    NoThread = NoThread
    Journal = NoObject
    YAFFSFS_N_HANDLES = 2
    MaxChunks = 1
    MaxNodes = 2
    OpenModes <- MCModes
SYMMETRY Symmetry
CONSTRAINT Clean
INVARIANTS HandlesReturned 
PROPERTIES NoOtherForeignClose
