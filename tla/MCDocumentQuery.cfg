SPECIFICATION Spec
CONSTANTS
    Store <- MCStore
    Inputs <- MCInputs
    DefaultPageSize = 2
    MaxPageSize = 3
INVARIANTS
    TypeOK
    WalkIsComplete
\* The client stops when it has what it asked for.
CHECK_DEADLOCK FALSE
