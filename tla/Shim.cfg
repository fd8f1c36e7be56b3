SPECIFICATION Spec
CONSTANTS
    MaxPurchases = 3
    Soundexes = {"0000", "A000"}
    Amounts = {10, 15}
    MaxAudits = 1
    MaxFailures = 1
INVARIANTS
    OpenRowsHaveCause
    ConfirmedOrderIsFiled
    

    
