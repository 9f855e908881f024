CONSTANTS
    ImageCount = 2
    Extent = {1}
    None = None
    MaxFrames = 3
    MaxResizes = 0
    MaxCommits = 1
    MaxFailures = 1
SPECIFICATION FairFaultSpec
PROPERTY FrameReturns
CHECK_DEADLOCK FALSE
