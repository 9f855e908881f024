CONSTANTS
    q1 = q1
    q2 = q2
    Executor = {e1, e2}
    Destroyer = {}
    Queue = {q1, q2}
    Resource = {r1}
    Pool <- TwoQueuePool
    None = None
    MaxCommands = 1
    MaxCommits = 3
    MaxFailures = 0
SPECIFICATION BusySpec
INVARIANTS
    NoOrphanWait
    HeldWhileInFlight
    TailCovers
    DrainWillEnd
PROPERTIES
    Implements
    CommitReturns
CHECK_DEADLOCK FALSE
