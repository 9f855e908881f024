CONSTANTS
    q1 = q1
    q2 = q2
    Executor = {e1}
    Destroyer = {}
    Queue = {q1, q2}
    Resource = {}
    Pool <- TwoQueuePool
    None = None
    MaxCommands = 1
    MaxCommits = 3
    MaxFailures = 1
SPECIFICATION FaultSpec
INVARIANT NoOrphanWait
CHECK_DEADLOCK FALSE
