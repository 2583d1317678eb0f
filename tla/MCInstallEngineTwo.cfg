\* Two runs of the same installer at once, nothing killed.
CONSTANTS
    e1 = e1
    e2 = e2
    Engines = {e1, e2}
    Deps = {"runtime"}
    Plans <- OnePlan
    Foreign = {}
    Mac = FALSE
    Unasked = {}
    MaxStarts = 2
    MaxCuts = 0
SPECIFICATION Spec
INVARIANT MarkerMeansInstalled
CHECK_DEADLOCK FALSE
