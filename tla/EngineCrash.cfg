SPECIFICATION Spec
CONSTANTS
    Ids = {m1, m2}
    MaxInflight = 1
    MaxQueueDepth = 2
    MaxSegmentSize = 2
    MaxRetryCount = 1
    VisibilityTimeout = 1
    RetryBackoff = 0
    SchedulerTick = 1
    WheelSize = 3
    Failpoints = {"before_log_append", "after_log_append", "before_checkpoint_rename", "fsync_file", "fsync_dir", "before_lease_issue", "before_ack_transition", "before_dlq_move", "before_timeout_transition"}
    ProduceAfterReopen = FALSE
    AllowPowerLoss = FALSE
    MaxTime = 2
    MaxSequence = 3
    MaxRestarts = 1
    MaxSetbacks = 0
    SetbackMs = 0
SYMMETRY Symmetry
INVARIANTS
    AckDurable
    LatestDurableWins
PROPERTIES
    LifecycleSpec
    ReplayStable
