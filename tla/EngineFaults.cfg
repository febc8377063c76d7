SPECIFICATION Spec
CONSTANTS
    Ids = {m1, m2}
    MaxInflight = 1
    MaxQueueDepth = 2
    MaxSegmentSize = 2
    MaxRetryCount = 1
    VisibilityTimeout = 1
    RetryBackoff = 0
    SchedulerTick = 1
    WheelSize = 3
    Failpoints = {"after_log_append", "before_checkpoint_rename", "before_log_append", "fsync_file"}
    ProduceAfterReopen = TRUE
    AllowPowerLoss = TRUE
    MaxTime = 1
    MaxSequence = 3
    MaxRestarts = 2
    MaxSetbacks = 1
    SetbackMs = 1
SYMMETRY Symmetry
INVARIANTS
    TypeOK
    SequencesMonotonic
    LeaseMatchesState
PROPERTIES
    LeaseTokensUnique
