SPECIFICATION FairSpec
CONSTANTS
    MaxOrders = 4
    MaxLen = 2
    MaxCrashes = 1
INVARIANTS
    TypeOK
    NoOtherLoss
PROPERTIES
    CollectedLeaves
CHECK_DEADLOCK FALSE
