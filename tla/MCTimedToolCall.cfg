SPECIFICATION TSpec
CONSTANTS
    Doc = {d1, d2, d3}
    CorrId = {c1, c2, c3}
    TypeId = {t1}
    Limit = 2
    Nil = Nil
    RequestTime = 2
SYMMETRY Symmetry
INVARIANT
    CallIsBounded
