SPECIFICATION Spec
CONSTANTS
    MaxConns = 0
    IntLimit = 1024
    Environment <- Documented
INVARIANT
    DocumentedTimeoutLoads
CHECK_DEADLOCK FALSE
