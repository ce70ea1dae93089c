CONSTANTS
    Trees <- MCTrees
    None = None
    Timeouts = {0, 2, 90}
    Starts = {0, 5}
    MaxClock = 7
    TicksPerMs = 2
    MaxBytes = 63
    MaxSizes = 2
SPECIFICATION Spec
INVARIANTS EveryNodeListed SizeHonest
