SPECIFICATION FairSpec
CONSTANTS
    Req = {r1, r2}
    Token = {alice, bob}
    NoToken = NoToken
    LongToken = LongToken
    RequestId = {proxied}
    NoId = NoId
    MaxBatchSize = 2
    MaxLookups = 1
CONSTRAINT Selected
INVARIANTS
    TypeOK
    GaugeIsInFlight
    TokenIsolation
    AmplificationBound
    AnswersAreLogged
PROPERTIES
    RequestsEnd
    ImplementsExchange
