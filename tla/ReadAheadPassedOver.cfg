\* The smallest instance in which a run is asked for, not decoded, and passed over.
CONSTANTS
    Images <- MCImages
    Depth <- MCDepth
    Channels = 3
    Upcoming = 2
    Shown <- MCShown
    Ahead <- MCAhead
    MaxClock = 1
    MaxFrames = 2
SPECIFICATION Spec
PROPERTIES PassedOverWasDecoded
