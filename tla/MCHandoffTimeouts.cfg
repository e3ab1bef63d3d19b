SPECIFICATION Spec
CONSTANTS
    c1 = c1
    c2 = c2
    c3 = c3
    k1 = k1
    k2 = k2
    db1 = db1
    db2 = db2
    None = None
    Reconnect = Reconnect
    Conns <- TwoConns
    Clients <- TwoClients
    Dbs <- OneDb
    DbOf <- SameDb
    DynamicScaling = TRUE
    UseThreads = TRUE
    Ttl = TRUE
    SlowHandoff = TRUE
    ListenerTimeout = FALSE
    WaitForDownDb = TRUE
    SocketBuffer = 1
    MaxDbFailures = 0
    MortalConns <- NoConns
    MortalListeners <- NoClients
SYMMETRY Symmetric
INVARIANTS NobodyWaitsForNothing NeverPidZero MutualExclusion
CHECK_DEADLOCK FALSE
