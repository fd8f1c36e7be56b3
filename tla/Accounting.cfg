SPECIFICATION FairSpec
CONSTANTS
    Orders = {"o1", "o2"}
    MaxMessages = 3
    MaxCrashes = 2
INVARIANTS
    StoredOrExcused
    FiredAtMostOnce
PROPERTIES
    EveryMessageConsumed
    KeepsLedgerSpec
CHECK_DEADLOCK FALSE
