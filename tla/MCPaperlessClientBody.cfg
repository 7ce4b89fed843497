SPECIFICATION Spec
CONSTANTS
    RetryCount = 2
    Timeout = 3
    RetryWait = 1
    BodyLimit = 2
    MaxBody = 4
INVARIANT
    BodyIsBounded
