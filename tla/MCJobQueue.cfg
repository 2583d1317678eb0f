\* Two packs share the one slot of their worker; one fault of any kind at any
\* moment.
CONSTANTS
    j1 = j1
    j2 = j2
    Jobs = {j1, j2}
    Class <- TwoPacks
    Workers = 2
    MaxStep = 1
    MaxHistory = 1
    Faults = {"crash", "redis", "lock", "expiry"}
    MaxFaults = 1
SPECIFICATION FairSpec
INVARIANTS
    PositionIsHonest
    PacksOverlapOnlyAfterTimeout
PROPERTY EveryJobEnds
