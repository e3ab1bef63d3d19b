SPECIFICATION Spec
CONSTANTS
    k1 = k1
    k2 = k2
    h1 = h1
    h2 = h2
    h3 = h3
    None = None
    Clients <- TwoClients
    Hands <- ThreeHands
    Deployments <- Trusted
    CounterSize = 5
    MaxSessions = 2
INVARIANTS TypeOK CursorInOneHand SuspendedResultSetsKept SessionsStartClean ResumesItsOwn
PROPERTIES RefusedOnlyWhenFull SuspensionEnds
CHECK_DEADLOCK FALSE
