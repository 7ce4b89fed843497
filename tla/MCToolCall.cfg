SPECIFICATION FairSpec
CONSTANTS
    Doc = {d1, d2, d3}
    CorrId = {k1, k2, k3}
    TypeId = {t1}
    Limit = 2
    Nil = Nil
INVARIANTS
    TypeOK
    WithinLimit
    MapAccessIsExclusive
    ReplyIsBestEffort
PROPERTIES
    CallsAreAnswered
    ImplementsToolAnswer
