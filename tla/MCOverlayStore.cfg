\* One page and another tab that saves, a small list and a big one.
CONSTANTS
    t1 = t1
    w1 = w1
    nothing = nothing
    small = small
    big = big
    Tabs = {t1}
    Elsewhere = {w1}
    Lists = {nothing, small, big}
    Empty = nothing
    Big = {big}
    PageOwn <- PlainPage
    MaxSaves = 1
    MaxFaults = 1
    Contents <- MCContents
    Typed <- MCTyped
    Documents <- MCDocuments
    Ids = {"n1"}
    MaxEdits = 2
    MaxReloads = 1
    Parts = {"store", "editor", "form"}
    Systems <- MCSystems
    Computers = {"linux"}
    Commands <- MCCommands
    TemplatesOf <- MCTemplates
    Writes <- MCWrites
    Packable <- MCPackable
    Coverage <- MCCoverage
    Archives <- MCArchives
    PackMax = 4
    MaxGestures = 4
INIT SpecInit
NEXT SpecNext
INVARIANTS
    UsedIsAnsweredOrBlind
    SaveIsOldOrNew
    RowsAreWhatBuildsUse
    LaunchIsMeant
    SentAsPainted
