SPECIFICATION Spec
CONSTANTS
    Doc = {d1}
    CorrId = {k1}
    TypeId = {t1}
    Limit = 1
    Nil = Nil
INVARIANT
    NotFoundIsTrue
