SPECIFICATION FairSpec
CONSTANTS
    Workers = {w1, w2, w3}
    BoxNames = {"a"}
    Requests <- Removal
    Quitters <- RemovalQuitters
    InodeCount = 2
    BoxCapacity = 2
    QueueCapacity = 3
    Uint64 = 16
    MaxMessages = 1
    MaxSpurious = 0
    NULL = NULL
PROPERTIES  ManagersAnswered
CHECK_DEADLOCK FALSE
