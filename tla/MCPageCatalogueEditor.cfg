\* One tab, two issues: does the Runtimes page show the catalogue in use?
CONSTANTS
    t1 = t1
    t2 = t2
    f1 = f1
    Tabs = {t1}
    Elsewhere = {}
    Baked <- BakedIn
    Ours = {1, 2}
    MaxIssue = 2
    Folders = {f1}
    MaxSwaps = 1
SPECIFICATION Spec
INVARIANTS
    EditorShowsInUse
