SPECIFICATION Spec
CONSTANTS
    Deployments <- Trusted
    MaxQueries = 5
INVARIANTS TypeOK  KeysAsTold 
PROPERTY ReplayComesToAnEnd
CHECK_DEADLOCK FALSE
