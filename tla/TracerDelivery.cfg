SPECIFICATION FairSpec
CONSTANTS
    b = b
    x = x
    s = s
    Fixed = {b}
    Agents = {x}
    StreamsOf <- OneAgent
    Limit = 2
    ReadCount = 2
    BufferSize = 1
    FlushSize = 2
    RowOf <- OwnRows
    NoMsg <- LastIsBare
    MaxLeaves = 1
    MaxGroupFaults = 1
    MaxFaults = 1
INVARIANTS
    TypeOK
    AckedIsKept
    NoEventTwice
    GroupsBeforeReads
PROPERTIES
    PublishedIsRead
    AcceptedIsFlushed
