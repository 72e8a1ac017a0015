SPECIFICATION Spec
CONSTANTS
    Workers = {w1, w2, w3}
    BoxNames = {"a"}
    Requests <- Managers
    Quitters <- ManagersQuitters
    InodeCount = 2
    BoxCapacity = 1
    QueueCapacity = 1
    Uint64 = 16
    MaxMessages = 0
    MaxSpurious = 0
    NULL = NULL
SYMMETRY Symmetry
INVARIANTS TypeOK PublishersExact ListingExact
CHECK_DEADLOCK FALSE
