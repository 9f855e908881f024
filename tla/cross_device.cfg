CONSTANTS
    DeviceCount = 2
    FrameCount = 2
    None = None
    MaxFrames = 4
    MaxCommits = 2
    MaxTimeouts = 1
    MaxFailures = 1
SPECIFICATION Spec
INVARIANTS
    CopiesCarryTheFrame
    HostMemoryOutlivesUse
    NothingOrphaned
CHECK_DEADLOCK FALSE
