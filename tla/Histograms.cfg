CONSTANTS
    Requests <- MCRequests
    Floats <- MCFloats
    None = None
    MaxBins = 16
    ProvisionalPerBin = 2
    LeastProvisional = 4
    MostProvisional = 8
    PartialBudget = 48
    CubeBudget = 200
    EmitBudget = 50
    PoolSize = 3
    LeastPixelsPerTask = 3
    NonFinite = NonFinite
    PosInf = PosInf
    NegInf = NegInf
    NaN = NaN
SPECIFICATION Spec
INVARIANTS PlaneCountsExact GrowthExact CubeExact
