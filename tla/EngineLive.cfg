SPECIFICATION LiveSpec
CONSTANTS
    Ids = {m1}
    MaxInflight = 1
    MaxQueueDepth = 2
    MaxSegmentSize = 2
    MaxRetryCount = 1
    VisibilityTimeout = 3
    RetryBackoff = 1
    SchedulerTick = 2
    WheelSize = 3
    Failpoints = {}
    ProduceAfterReopen = FALSE
    AllowPowerLoss = FALSE
    MaxTime = 36
    MaxSequence = 100
    MaxRestarts = 1
    MaxSetbacks = 1
    SetbackMs = 1
INVARIANTS
    DeliveriesBounded
    OverdueWithinTurn
PROPERTIES
    EventuallySettled
