SPECIFICATION FairSpec
CONSTANTS
    m1 = m1
    m2 = m2
    s1 = s1
    s2 = s2
    s3 = s3
    k1 = k1
    k2 = k2
    None = None
    Procs <- FourProcs
    Manual <- OneManual
    Clients <- TwoClients
    Pools <- SmallPools
    Attempts = 2
    ManualFirst = TRUE
    Ttl = TRUE
    SpawnFails = FALSE
    MissedClients = FALSE
    MortalManual <- NoProcs
    MaxFaults = 2
INVARIANTS PoolWithinMax ClientCountRight
PROPERTIES MinimumRestored QueueGrowsPool ScalerReturns
CHECK_DEADLOCK FALSE
