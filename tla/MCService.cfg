CONSTANTS
    j1 = j1
    j2 = j2
    n1 = n1
    n2 = n2
    r1 = r1
    s1 = s1
    b1 = b1
    b2 = b2
    b3 = b3
    Jobs <- MCJobs
    NameAsks <- MCNameAsks
    RecordAsks <- MCRecordAsks
    SourceAsks <- MCSourceAsks
    Builds <- MCBuilds
    Platforms = 1
    Chunks = 1
    MaxTroubles = 2
    MaxMoves = 2
    MaxFaults = 1
SPECIFICATION MCSpec
INVARIANTS
    TroubleOnlyFromOverlap
    NothingOnceWithdrawn
    NoBuildIsLost
    ChoiceYieldsToAnswers
    OneAtATimeIsSafe
PROPERTIES
    PaintsInOrder
    TicketSettles
CHECK_DEADLOCK FALSE
