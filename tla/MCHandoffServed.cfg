SPECIFICATION FairSpec
CONSTANTS
    c1 = c1
    c2 = c2
    c3 = c3
    k1 = k1
    k2 = k2
    db1 = db1
    db2 = db2
    None = None
    Reconnect = Reconnect
    Conns <- TwoConns
    Clients <- OneClient
    Dbs <- OneDb
    DbOf <- SameDb
    DynamicScaling = TRUE
    UseThreads = FALSE
    Ttl = FALSE
    SlowHandoff = FALSE
    ListenerTimeout = FALSE
    WaitForDownDb = TRUE
    SocketBuffer = 1
    MaxDbFailures = 1
    MortalConns <- OneConn
    MortalListeners <- NoClients
PROPERTY EveryClientServed
CHECK_DEADLOCK FALSE
