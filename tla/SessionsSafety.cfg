SPECIFICATION Spec
CONSTANTS
    c1 = c1
    c2 = c2
    c3 = c3
    Clients = {c1,c2}
    Roles <- AnyRoles
    Workers = {w1,w2}
    Interrupted = {c1,c2}
    BrokerMayDie = TRUE
    QueueCapacity = 1
    RegisterCapacity = 1
    PipeCapacity = 2
    LineLengths = {2,5}
    MessageLen = 2
    BoxTables <- MCBoxTables
    MaxMessages = 2
    NULL = NULL
SYMMETRY Symmetry
INVARIANTS TypeOK RequestsForwarded AllPrinted LinesKept ListingSorted
CHECK_DEADLOCK FALSE
