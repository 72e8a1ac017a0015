SPECIFICATION Spec
CONSTANTS
    Threads = {t1, t2}
    Names = {a, b}
    InodeCount = 2
    BlockCount = 2
    MaxOpenFiles = 2
    DirEntries = 2
    BlockSize = 2
    NULL = NULL
    Calls = {"open", "close", "unlink"}
    Modes <- PlainModes
    JunkNames <- ZeroedName
    Lengths = {1}
    Sources = {}
    MaxCalls = 5
INVARIANT NoPanic
CHECK_DEADLOCK FALSE
