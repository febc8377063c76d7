SPECIFICATION Spec
CONSTANTS
    Ids = {m1, m2}
    MaxInflight = 1
    MaxQueueDepth = 2
    MaxSegmentSize = 2
    MaxRetryCount = 1
    VisibilityTimeout = 1
    RetryBackoff = 0
    SchedulerTick = 1
    WheelSize = 3
    Failpoints = {}
    ProduceAfterReopen = FALSE
    AllowPowerLoss = FALSE
    MaxTime = 3
    MaxSequence = 2
    MaxRestarts = 0
    MaxSetbacks = 0
    SetbackMs = 0
SYMMETRY Symmetry
INVARIANTS
    ProducedVisible
