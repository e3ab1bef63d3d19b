SPECIFICATION Spec
CONSTANT Deployments <- Trusted
INVARIANTS TypeOK AgreesWithDatabase NoWorkLeaks
PROPERTIES EndOfSessionHonoured ImplementsModel
CHECK_DEADLOCK FALSE
