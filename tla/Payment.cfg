\* The unit of time is one second.
SPECIFICATION Spec
CONSTANTS
    Charges = {"c1", "c2"}
    RetryMax = 4
    TotalMin = 4
    TotalMax = 8
    ThreeMin = 4
    ThreeMax = 6
    Leave = 1
INVARIANTS
    CapturedOnce
    TokenDecides
    FailureTiming
PROPERTIES
    ChargeEnds
CHECK_DEADLOCK FALSE
