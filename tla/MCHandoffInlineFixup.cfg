SPECIFICATION Spec
CONSTANTS
    c1 = c1
    c2 = c2
    c3 = c3
    k1 = k1
    k2 = k2
    db1 = db1
    db2 = db2
    None = None
    Reconnect = Reconnect
    Conns <- TwoConns
    Clients <- TwoClients
    Dbs <- OneDb
    DbOf <- SameDb
    DynamicScaling = FALSE
    UseThreads = FALSE
    Ttl = FALSE
    SlowHandoff = FALSE
    ListenerTimeout = TRUE
    WaitForDownDb = TRUE
    SocketBuffer = 2
    MaxDbFailures = 0
    MortalConns <- NoConns
    MortalListeners <- NoClients
INVARIANT FixupOnlyFromChild
CHECK_DEADLOCK FALSE
