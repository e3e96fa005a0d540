SPECIFICATION FairSpec
CONSTANTS
    i = i
    b = b
    Inbox = i
    Broadcast = b
    MaxEntries = 2
    Limit <- TwoAndOne
    MaxLen = 1
    ReadCount = 1
    PageSize = 1
    MaxRetries = 1
    MaxAgentFaults = 1
    MaxSweepFaults = 1
    Foreign <- SecondForeign
INVARIANTS
    TypeOK
    HandledAtMostOnce
    PendingUntilSettled
    RetryBudget
    CopiesBoundedByFaults
    DeliveryInv
PROPERTIES
    ImplementsMailbox
    InboxSettles
    EventuallyDelivered
