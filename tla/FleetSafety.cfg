SPECIFICATION FairSpec
CONSTANTS
    a1 = a1
    Agents = {a1}
    TTL = 6
    Period = 3
    MaxDelay = 1
    MaxShutdowns = 2
    MaxFaults = 3
INVARIANTS
    TypeOK
    BeatKeepsKey
    NoSteadyEviction
PROPERTIES
    DownLeavesRoster
