SPECIFICATION Spec
CONSTANTS
    Ids = {"empty", "short", "long"}
    Body <- MCBody
    MaxQueueDepth = 4
    MaxSegmentSize = 9
    Policies = {"always", "never"}
    Faults = {"short_write", "fsync_file", "fsync_eio", "ftruncate", "lost_file"}
    MaxAppends = 3
    MaxRestarts = 3
CHECK_DEADLOCK FALSE
INVARIANTS
    TypeOK
    AckedReadableUnharmed
    NoHalfRecord
PROPERTIES
    RecoveredReadable
    LogSpec
