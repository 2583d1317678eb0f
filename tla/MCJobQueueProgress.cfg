\* Two packs, no fault: only the two hour timer.
CONSTANTS
    j1 = j1
    j2 = j2
    Jobs = {j1, j2}
    Class <- TwoPacks
    Workers = 2
    MaxStep = 1
    MaxHistory = 1
    Faults = {"crash", "redis", "lock", "expiry"}
    MaxFaults = 0
SPECIFICATION Spec
INVARIANT ProgressBeforeFinalState
