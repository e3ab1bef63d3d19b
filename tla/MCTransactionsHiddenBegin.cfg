SPECIFICATION Spec
CONSTANT Deployments <- HiddenBegins
INVARIANT NoWorkLeaks
CHECK_DEADLOCK FALSE
