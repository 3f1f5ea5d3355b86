SPECIFICATION Spec
CONSTANTS
    Threads = {t1, t2}
    Objects = {a, b}
    NoObject = NoObject
    YAFFSFS_N_HANDLES = 2
    MaxChunks = 1
    OpenModes <- MCModes
SYMMETRY Symmetry
CONSTRAINT Working
INVARIANTS TypeOK TablesAgree InodeAvailable SharesRespected
PROPERTIES ImplementsOpenFiles
