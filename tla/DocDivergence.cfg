SPECIFICATION Spec
CONSTANTS
    Policies = {"always"}
    Faults = {"few_bytes"}
    MaxSequence = 3
    MaxRestarts = 1
CHECK_DEADLOCK FALSE
INVARIANT
    DivergenceReported
