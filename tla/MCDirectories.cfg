SPECIFICATION Spec
CONSTANTS
    Root = Root
    Objects = {a, b, c}
    NoObject = NoObject
    Names = {"x", "y", ".."}
    Paths <- MCPaths
    Aliases <- MCAliases
    Searches = {s}
    YAFFSFS_MAX_SYMLINK_DEREFERENCES = 1
    StackLimit = 8
SYMMETRY Symmetry
INVARIANTS TreeShape LookupRight SearchInside SearchComplete
PROPERTIES ReturnedOnce
