CONSTANTS
    ImageCount = 2
    Extent = {1, 2}
    None = None
    MaxFrames = 5
    MaxResizes = 2
    MaxCommits = 2
    MaxFailures = 0
SPECIFICATION FairSpec
INVARIANTS
    AcquireSemaphoreFree
    FinishedSemaphoreFree
    BlitsOwnTheirImages
    ShowsFinishedWork
    SyncObjectsExist
PROPERTIES
    FrameReturns
    FramesShown
CHECK_DEADLOCK FALSE
