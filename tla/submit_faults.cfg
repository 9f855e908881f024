CONSTANTS
    q1 = q1
    q2 = q2
    Executor = {e1, e2}
    Destroyer = {d1}
    Queue = {q1, q2}
    Resource = {r1}
    Pool <- TwoQueuePool
    None = None
    MaxCommands = 1
    MaxCommits = 2
    MaxFailures = 1
SPECIFICATION FaultSpec
SYMMETRY Symmetry
INVARIANTS
    CommandBufferFree
    QueueReusable
PROPERTIES
    SignalsAdvance
    DestroyAfterUse
CHECK_DEADLOCK FALSE
