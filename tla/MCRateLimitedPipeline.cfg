SPECIFICATION LSpec
CONSTANTS
    Req = {r1, r2}
    Token = {alice}
    NoToken = NoToken
    LongToken = NoToken
    RequestId = {}
    NoId = NoId
    MaxBatchSize = 1
    MaxLookups = 0
    Client = {c1, c2}
    Nil = Nil
    Everyone = Everyone
    Cost = 2
    GlobalRate = 3
    GlobalCap = 5
    ClientRate = 2
    ClientCap = 3
    MaxTime = 1
SYMMETRY Symmetry
VIEW View
INVARIANT
    LoadIsBounded
