SPECIFICATION FairSpec
CONSTANTS
    a1 = a1
    Agents = {a1}
    TTL = 6
    Period = 3
    MaxDelay = 1
    MaxShutdowns = 0
    MaxFaults = 0
PROPERTIES
    BeatKeepsRostered
