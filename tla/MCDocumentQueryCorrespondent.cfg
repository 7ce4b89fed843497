SPECIFICATION Spec
CONSTANTS
    Store <- MCStore
    Inputs <- MCInputs
    DefaultPageSize = 2
    MaxPageSize = 3
INVARIANT
    OnlyTheCorrespondents
CHECK_DEADLOCK FALSE
