CONSTANTS
    NoMask = NoMask
    NoRuns = NoRuns
    LeastPixelsPerRun = 3
    WordBytes = 2
    MaxRegions = 2
    MaxIncidences = 20
    PoolSize = 3
    LeastPixelsPerTask = 4
    Requests <- MCRequests
    NonFinite = NonFinite
    PosInf = PosInf
    NegInf = NegInf
    NaN = NaN
    None = None
    PartialBudget = 500
    EmitBudget = 1000
SPECIFICATION Spec
INVARIANTS BlockExact FootprintsExact
