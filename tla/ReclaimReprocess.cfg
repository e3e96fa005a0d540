SPECIFICATION FairHandlersSpec
CONSTANTS
    i = i
    b = b
    Inbox = i
    Broadcast = b
    MaxEntries = 2
    Limit <- TwoInbox
    MaxLen = 1
    ReadCount = 1
    PageSize = 1
    MaxRetries = 1
    MaxAgentFaults = 1
    MaxSweepFaults = 1
    Foreign = {}
PROPERTIES
    ReclaimedIsReprocessed
