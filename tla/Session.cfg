SPECIFICATION SessionSpec
CONSTANTS
    Tabs = {t1, t2}
    MaxUsers = 3
    MaxClicks = 2
    MaxInits = 2
CONSTANTS
    t1 = t1
    t2 = t2
INVARIANTS
    OrderIsForShownCart
    EveryResetTogglesOnce
    RumTellsTheSession
PROPERTIES
    OldCartGoesAway
CHECK_DEADLOCK FALSE
