SPECIFICATION FairSpec
CONSTANTS
    Handlers = {"h1", "h2", "h3"}
    CopiesOf <- OneCopy
    Capacity = 1
    MaxInflight = 1
    MaxErrors = 2
INVARIANTS
    StrandedNeedsLoggedError
PROPERTIES
    EverySenderEnds
    CancelledHandlerEnds
CHECK_DEADLOCK FALSE
