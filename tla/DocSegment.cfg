SPECIFICATION Spec
CONSTANTS
    Ids = {"empty", "short"}
    Body <- MCBody
    MaxQueueDepth = 4
    MaxSegmentSize = 9
    Policies = {"always"}
    Faults = {}
    MaxAppends = 3
    MaxRestarts = 2
CHECK_DEADLOCK FALSE
INVARIANTS
    AckedReadable
