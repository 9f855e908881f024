CONSTANTS
    Thread = {t1, t2}
    Handle = {h1, h2, h3, h4}
    SlotCount = 2
    None = None
    MaxOps = 3
SPECIFICATION FairSpec
INVARIANTS
    RefCountExact
    HandlesValid
    NoLeak
PROPERTY OperationReturns
CHECK_DEADLOCK FALSE
