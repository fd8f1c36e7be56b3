SPECIFICATION ViewSpec
CONSTANTS
    Products = {"p1", "p2"}
    MaxMutations = 2
INVARIANTS
    StaleViewHasCause
    OrderedAsShown
