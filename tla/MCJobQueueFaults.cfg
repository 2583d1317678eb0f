\* One build and two workers, so that both attempts can run at once; up to
\* three faults.
CONSTANTS
    j1 = j1
    j2 = j2
    Jobs = {j1}
    Class <- OneBuild
    Workers = 2
    MaxStep = 2
    MaxHistory = 1
    Faults = {"crash", "redis", "lock", "expiry"}
    MaxFaults = 3
SPECIFICATION Spec
INVARIANTS
    HistoryIsTrimmed
    PhantomsHaveACause
    CompletedIsFinal
PROPERTY LifeHolds
