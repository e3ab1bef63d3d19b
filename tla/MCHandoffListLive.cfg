SPECIFICATION Spec
CONSTANTS
    p1 = p1
    p2 = p2
    p3 = p3
    Pids <- ThreePids
    NoPid = NoPid
    MaxConnections = 2
    ProxyMode = TRUE
    MaxSocks = 7
SYMMETRY Symmetric
INVARIANT LiveConnectionFound
CHECK_DEADLOCK FALSE
