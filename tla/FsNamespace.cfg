SPECIFICATION Spec
CONSTANTS
    Threads = {t1, t2}
    Names = {a, b}
    InodeCount = 2
    BlockCount = 2
    MaxOpenFiles = 2
    DirEntries = 2
    BlockSize = 2
    NULL = NULL
    Calls = {"open", "close", "link", "sym_link", "unlink"}
    Modes <- PlainModes
    JunkNames <- AnyName
    Lengths = {1}
    Sources = {}
    MaxCalls = 5
SYMMETRY Symmetry
INVARIANTS NamesUnique LinkCountExact EntriesTaken NoOrphanInode ClearsTheRightEntry CallsNeverStuck NoDoubleFree
PROPERTIES FreedOnlyWhenClosed ImplementsNamespace
CHECK_DEADLOCK FALSE
