SPECIFICATION Spec
CONSTANTS
    Ids = {m1, m2, m3}
    MaxInflight = 2
    MaxQueueDepth = 3
    MaxSegmentSize = 3
    MaxRetryCount = 1
    VisibilityTimeout = 2
    RetryBackoff = 1
    SchedulerTick = 1
    WheelSize = 7
    Failpoints = {"before_checkpoint_rename", "before_lease_issue"}
    ProduceAfterReopen = FALSE
    AllowPowerLoss = FALSE
    MaxTime = 3
    MaxSequence = 4
    MaxRestarts = 1
    MaxSetbacks = 0
    SetbackMs = 0
SYMMETRY Symmetry
INVARIANTS
    WheelRegistered
    InflightBound
    FirstDeliveryInOrder
    ReplayMatchesLive
