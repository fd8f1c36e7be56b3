SPECIFICATION PipelineSpec
CONSTANTS
    alice = alice
    a1 = a1
    r1 = r1
    e1 = e1
    Users <- MCUsers
    Adds <- MCAdds
    Requests <- MCRequests
    Empties <- MCEmpties
    UserOf <- UserOfCalls
    MaxCopies = 2
    MaxMessages = 2
    MaxConsumerCrashes = 2
INVARIANTS
    AbandonedLeavesNoTrace
    BookedWasFulfilled
    PublishedIsBooked
PROPERTIES
    KeepsOrderSpec
CHECK_DEADLOCK FALSE
