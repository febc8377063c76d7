SPECIFICATION Spec
CONSTANTS
    Sessions <- MCSessions
    CreditModulus = 3
    Grants = {1, 2}
    MaxPicked = 2
    MaxOwed = 5
INVARIANTS
    TypeOK
    BoundedBypass
    NoFreeCredit
PROPERTIES
    Served
