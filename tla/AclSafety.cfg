SPECIFICATION ApartSpec
CONSTANTS
    s = s
    t = t
    r1 = r1
    r2 = r2
    Agents = {s, t}
    Groups = {1, 2}
    Requests = {r1, r2}
    Pairs <- TwoWays
    CacheTTL = 2
    MaxDelay = 1
    MaxTime = 5
    MaxChanges = 1
INVARIANTS
    TypeOK
    RulesRecent
    GroupsRecent
    RulesAreUnordered
SYMMETRY RequestSymmetry
CHECK_DEADLOCK FALSE
