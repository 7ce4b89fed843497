SPECIFICATION WSpec
CONSTANTS
    Client = {c1, c2, c3}
    Req = {r1, r2}
    Cell = {k1, k2, k3}
    Nil = Nil
    TicksPerSecond = 7
    GlobalRate = 1
    GlobalBurst = 0
    PerClientRate = 4
    PerClientBurst = 1
    ClientTTL = 2
    CleanupInterval = 2
    MaxPause = 1
    MaxTime = 7
SYMMETRY Symmetry
INVARIANTS
    TypeOK
    HeldIsCurrent
    StaleBound
    ServerBudget
    ClientBudget
    MapBound
PROPERTY
    ImplementsPersistentBuckets
