SPECIFICATION Spec
CONSTANTS
    d1 = d1
    d2 = d2
    b1 = b1
    b2 = b2
    None = None
    Daemons <- TwoDaemons
    Backends <- TwoBackends
    Deployments <- Trusted
INVARIANTS TypeOK InParallel ToldTheTruth
PROPERTY SessionsEndTogether
