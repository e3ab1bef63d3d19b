SPECIFICATION Spec
CONSTANTS
    m1 = m1
    m2 = m2
    s1 = s1
    s2 = s2
    s3 = s3
    k1 = k1
    k2 = k2
    None = None
    Procs <- FiveProcs
    Manual <- TwoManual
    Clients <- OneClient
    Pools <- LargePool
    Attempts = 2
    ManualFirst = FALSE
    Ttl = TRUE
    SpawnFails = TRUE
    MissedClients = TRUE
    MortalManual <- TwoManual
    MaxFaults = 2
INVARIANTS TypeOK ConnectionCountRight
PROPERTY StartedIsReady
CHECK_DEADLOCK FALSE
