SPECIFICATION Spec
CONSTANTS
    c1 = c1
    c2 = c2
    c3 = c3
    k1 = k1
    k2 = k2
    db1 = db1
    db2 = db2
    None = None
    Reconnect = Reconnect
    Conns <- TwoConns
    Clients <- TwoClients
    Dbs <- TwoDbs
    DbOf <- OwnDb
    DynamicScaling = FALSE
    UseThreads = FALSE
    Ttl = FALSE
    SlowHandoff = FALSE
    ListenerTimeout = TRUE
    WaitForDownDb = FALSE
    SocketBuffer = 2
    MaxDbFailures = 2
    MortalConns <- NoConns
    MortalListeners <- TwoClients
SYMMETRY SymmetricClients
INVARIANTS TypeOK OneClientPerConnection ReadsWaitingConnection NoClientLost NobodyWaitsForNothing
PROPERTY ImplementsPool
CHECK_DEADLOCK FALSE
