SPECIFICATION FairSpec
CONSTANTS
    MaxConns = 2
    IntLimit <- SmallIntLimit
    Environment <- Deviations
INVARIANTS
    TypeOK
    DrainedInOrder
    ReportNeverBlocks
    RunningServerAdmits
PROPERTIES
    FailureEnds
    SignalEnds
\* The process ends.
CHECK_DEADLOCK FALSE
