SPECIFICATION ReleaseSpec
CONSTANTS
    Clusters <- MCClusters
    Names <- MCNames
    Media <- MCMedia
    VolumesOf <- MCVolumesOf
    MaxChain = 3
    MaxData = 2
    MaxDepth = 2
    CleanNames <- MCCleanNames
    DotDot <- MCDotDot
    Segments <- MCSegments
    Stagings <- MCStagings
INVARIANT
    ReleasedIsTheFile
CHECK_DEADLOCK FALSE
