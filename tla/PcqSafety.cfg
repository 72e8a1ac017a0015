SPECIFICATION Spec
CONSTANTS
    Producers = {p1, p2}
    Consumers = {c1, c2}
    Elems = {e1, e2}
    Capacity = 2
    MaxEnqueues = 2
    MaxSpurious = 1
    NULL = NULL
SYMMETRY Symmetry
INVARIANTS TypeOK RingConsistent NoLostWakeup
PROPERTY ImplementsFifo
CHECK_DEADLOCK FALSE
