CONSTANTS
    Images <- MCImages
    Depth <- MCDepth
    Channels = 3
    Upcoming = 2
    Shown <- MCShown
    Ahead <- MCAhead
    MaxClock = 2
    MaxFrames = 3
SPECIFICATION FairSpec
INVARIANTS OneThread
PROPERTIES CancelStartsNothingMore LateFrameStops LetGoEnds
