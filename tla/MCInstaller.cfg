CONSTANTS
    None = None
    Catalogues <- MCCatalogues
    Forms <- MCForms
    Lists <- MCLists
    Computers <- MCComputers
    MaxChanges = 1
    Openable <- MCOpenable
    MaxOpened = 2
    MaxGestures = 3
    Services <- MCServices
    PanelKinds <- MCPanelKinds
    MaxSignings = 3
    MaxTurns = 2
    Nothing = Nothing
    Droppable <- MCDroppable
    Published <- MCPublished
    BuiltAfter <- MCBuiltAfter
    LedgerDocs <- MCLedgerDocs
    MaxDropped = 2
    MaxWorld = 1
    Callers <- MCCallers
    Limits <- MCLimits
    Window = 2
    Crowd = 1
    Links <- MCLinks
    Hops = 2
    Inside <- MCInside
    MaxNow = 3
    MaxAsked = 4
    TarBlock = 3
    Align = 4
    Programs <- MCPrograms
    Icons <- MCIcons
    Records <- MCRecords
    Bodies <- MCBodies
    Members <- MCMembers
    MaxLived = 3
    Orders <- MCOrders
    Holds <- MCHolds
    MaxClock = 6
SPECIFICATION MCSpec
INVARIANTS
    PlanServesMachines
    PackServesTicked
    SavedIsOneInstaller
    CredentialsServeOneSigning
    SignedIsWhatWasShown
    RowsAreEarned
    RewriteIsSeen
    MixedOnlyWhenCrossed
    LimitIsPerCaller
    OutgoingStays
    ReadsBackAsPut
    
CHECK_DEADLOCK FALSE
