SPECIFICATION FairSpec
CONSTANTS
    Workers = {w1, w2}
    BoxNames = {"a", "b"}
    Requests <- LateSubscriber
    Quitters <- Nobody
    InodeCount = 3
    BoxCapacity = 1
    QueueCapacity = 2
    Uint64 = 16
    MaxMessages = 0
    MaxSpurious = 0
    NULL = NULL
PROPERTIES ManagersAnswered
CHECK_DEADLOCK FALSE
