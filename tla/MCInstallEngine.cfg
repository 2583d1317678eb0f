\* One engine after the other; a plan that changes between runs; a folder in
\* the way that is not this app's.
CONSTANTS
    e1 = e1
    e2 = e2
    Engines = {e1}
    Deps = {"runtime", "lib", "taken"}
    Plans <- ThreePlans
    Foreign = {"taken"}
    Mac = TRUE
    Unasked = {"app", "runtime", "menus", "marker"}
    MaxStarts = 3
    MaxCuts = 2
SPECIFICATION Spec
INVARIANTS
    TypeOK
    InstalledIsComplete
    FailureLeavesNothing
    RetryIsNotBlocked
    UninstallLeavesNothing
PROPERTY ForeignUntouched
CHECK_DEADLOCK FALSE
