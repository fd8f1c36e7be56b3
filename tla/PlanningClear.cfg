SPECIFICATION Spec
CONSTANTS
    MaxOrders = 2
    MaxLen = 2
    MaxCrashes = 0
PROPERTIES
    ClearedWereSent
CHECK_DEADLOCK FALSE
