SPECIFICATION FairSpec
CONSTANTS
    b = b
    x = x
    s = s
    Fixed = {b}
    Agents = {x}
    StreamsOf <- OneAgent
    Limit = 1
    ReadCount = 2
    BufferSize = 4
    FlushSize = 2
    RowOf <- OwnRows
    NoMsg <- None
    MaxLeaves = 0
    MaxGroupFaults = 1
    MaxFaults = 0
PROPERTY NewAgentsPickedUp
