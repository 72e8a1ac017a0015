SPECIFICATION FairSpec
CONSTANTS
    c1 = c1
    c2 = c2
    c3 = c3
    Clients = {c1,c2,c3}
    Roles <- LiveRoles
    Workers = {w1}
    Interrupted = {c1}
    BrokerMayDie = TRUE
    QueueCapacity = 1
    RegisterCapacity = 2
    PipeCapacity = 1
    LineLengths = {0}
    MessageLen = 2
    BoxTables <- TwoTables
    MaxMessages = 1
    NULL = NULL
PROPERTIES SessionOpens NextClientFlushes WorkerReturns InterruptNoticed BrokerDeathNoticed
CHECK_DEADLOCK FALSE
