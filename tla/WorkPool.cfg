CONSTANTS
    Size = 2
    Callers = {c1, c2}
    None = None
    MaxTasks = 3
    MaxRuns = 1
SPECIFICATION FairSpec
INVARIANTS NoStaleBody TaskRunsOnce RunIsComplete
PROPERTIES NoClaimAfterFailure KeepsPromise EverythingEnds
