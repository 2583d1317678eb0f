\* Two tabs, three issues, the last one of another key, one folder.
CONSTANTS
    t1 = t1
    t2 = t2
    f1 = f1
    Tabs = {t1}
    Elsewhere = {t2}
    Baked <- BakedIn
    Ours = {1, 2}
    MaxIssue = 3
    Folders = {f1}
    MaxSwaps = 2
SPECIFICATION FairSpec
PROPERTIES
    OlderOnlyIfOvertaken
    BuildIsWholeUnlessSwapped
    EveryBuildGetsItsCatalogue
