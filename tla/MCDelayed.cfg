CONSTANTS
    Dirs = {d1, d2, d3}
    MaxUpdates = 3
    Aliases = TRUE
SPECIFICATION Spec
INVARIANTS AppliedOnce
SYMMETRY Symmetry
