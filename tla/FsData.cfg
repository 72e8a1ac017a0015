SPECIFICATION Spec
CONSTANTS
    Threads = {t1, t2}
    Names = {a, b}
    InodeCount = 2
    BlockCount = 2
    MaxOpenFiles = 2
    DirEntries = 2
    BlockSize = 2
    NULL = NULL
    Calls = {"open", "close", "write", "read", "sym_link", "unlink", "copy", "destroy"}
    Modes <- OpenModes
    JunkNames <- ZeroedName
    Lengths = {1}
    Sources = {2,3}
    MaxCalls = 4
SYMMETRY Symmetry
INVARIANTS TypeOK BlocksOwned HandlesAccounted
CHECK_DEADLOCK FALSE
