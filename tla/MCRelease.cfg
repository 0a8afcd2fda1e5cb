SPECIFICATION FairReleaseSpec
CONSTANTS
    Clusters <- MCClusters
    Names <- MCNames
    Media <- MCMedia
    VolumesOf <- MCVolumesOf
    MaxChain = 3
    MaxData = 2
    MaxDepth = 2
    CleanNames <- MCCleanNames
    DotDot <- MCDotDot
    Segments <- MCSegments
    Stagings <- MCStagings
INVARIANTS
    ReleaseTypeOK
    NothingIsReadTwice
    FoundIsExact
    OkIsComplete
    StagedBeforeStays
PROPERTY
    ReleaseEnds
CHECK_DEADLOCK FALSE
