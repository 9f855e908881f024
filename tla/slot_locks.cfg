CONSTANTS
    Caller = {t1, t2, t3}
    MaxId = 2
    Slot = {1, 2}
    DeviceQueue = {1}
    Unordered = {}
SPECIFICATION LockSpec
SYMMETRY Symmetry
INVARIANTS
    NoDeadlock
