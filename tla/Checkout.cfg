SPECIFICATION Spec
CONSTANTS
    alice = alice
    a1 = a1
    a2 = a2
    r1 = r1
    r2 = r2
    Users <- MCUsers
    Adds <- MCAdds
    Requests <- MCRequests
    Empties <- MCRequests
    UserOf <- UserOfCalls
    MaxCopies = 1
SYMMETRY CallSymmetry
INVARIANTS
    ExactUnlessRaced
    UnexpiringCartHasCause
    FulfilledWasPaid
    OrderedOnce
    EmptiedWasOrderedOrLate
CHECK_DEADLOCK FALSE
