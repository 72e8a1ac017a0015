SPECIFICATION FairSpec
CONSTANTS
    c1 = c1
    c2 = c2
    c3 = c3
    Clients = {c1,c2}
    Roles <- PubSub
    Workers = {w1,w2}
    Interrupted = {}
    BrokerMayDie = FALSE
    QueueCapacity = 1
    RegisterCapacity = 2
    PipeCapacity = 2
    LineLengths = {1}
    MessageLen = 2
    BoxTables <- MCBoxTables
    MaxMessages = 1
    NULL = NULL
PROPERTIES RequestsReceived
CHECK_DEADLOCK FALSE
