SPECIFICATION FairSpec
CONSTANTS
    x = x
    y = y
    Agents = {x, y}
    Limit = 2
    ReadCount = 1
    BufferSize = 1
    FlushSize = 2
    RowOf <- OwnRows
    Persisted <- AllButOne
    MaxLeaves = 1
    MaxFaults = 2
INVARIANTS
    TypeOK
    AckedIsAccountedFor
    NoEventTwice
    OnlyFaultsLeavePending
    DropsNeedOverload
PROPERTIES
    ResultsAreRecorded
