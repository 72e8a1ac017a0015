SPECIFICATION Spec
CONSTANTS
    Workers = {w1, w2, w3}
    BoxNames = {"a"}
    Requests <- Messages
    Quitters <- MessagesQuitters
    InodeCount = 2
    BoxCapacity = 2
    QueueCapacity = 3
    Uint64 = 16
    MaxMessages = 3
    MaxSpurious = 1
    NULL = NULL
SYMMETRY Symmetry
INVARIANTS OnePublisher DeliveredInOrder NoMissedMessage
CHECK_DEADLOCK FALSE
