SPECIFICATION FairSpec
CONSTANTS
    Producers = {p1, p2}
    Consumers = {c1, c2}
    Elems = {e1}
    Capacity = 1
    MaxEnqueues = 2
    MaxSpurious = 1
    NULL = NULL
PROPERTIES EnqueueReturns QueueDrains
CHECK_DEADLOCK FALSE
