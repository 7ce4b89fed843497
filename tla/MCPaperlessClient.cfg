SPECIFICATION FairSpec
CONSTANTS
    RetryCount = 2
    Timeout = 3
    RetryWait = 1
    BodyLimit = 2
    MaxBody = 4
INVARIANTS
    TypeOK
    RequestIsBounded
PROPERTIES
    RequestEnds
    ImplementsRequest
