SPECIFICATION FairSpec
CONSTANTS
    WindowCount = 1
    QueueDepth = 2
    Scenario = "texture"
    None = None
    MaxFrames = 3
    MaxErrors = 2
INVARIANTS
    TicksFindTheirObjects
    FirstErrorReported
PROPERTIES
    FramesAdvance
    ProgramReturns
CHECK_DEADLOCK FALSE
