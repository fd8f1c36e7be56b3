SPECIFICATION Spec
CONSTANTS
    NanosMod = 10000
    WordMod = 16777216
    Costs <- AllCosts
    Quantities = {0, 1, 2, 3}
    Discounts = {0, 10, 100}
    MaxItems = 2
INVARIANTS
    TotalIsExact
    PanicNeedsFraction
    DiscountRoundsDown
CHECK_DEADLOCK FALSE
