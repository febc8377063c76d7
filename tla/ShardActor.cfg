SPECIFICATION Spec
CONSTANTS
    Clients = {c1, c2, c3}
    MaxCalls = 2
CHECK_DEADLOCK FALSE
INVARIANTS
    NoLostWakeup
    AnswersMatch
PROPERTIES
    SerialSpec
    QueuedAnswered
    StopReturns
