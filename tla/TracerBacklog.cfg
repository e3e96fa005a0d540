SPECIFICATION FairSpec
CONSTANTS
    b = b
    x = x
    s = s
    Fixed = {b}
    Agents = {x}
    StreamsOf <- OneAgent
    Limit = 2
    ReadCount = 2
    BufferSize = 1
    FlushSize = 2
    RowOf <- OwnRows
    NoMsg <- None
    MaxLeaves = 0
    MaxGroupFaults = 0
    MaxFaults = 0
PROPERTY StaysForRetry
