CONSTANTS
    Plans <- MCPlans
SPECIFICATION FairSpec
INVARIANTS AccumulatedOnce ChunkDecodedOnce ProgressHonest StopHeeded
PROPERTIES PassEnds
