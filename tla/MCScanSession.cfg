SPECIFICATION FairSpec
CONSTANTS
    Options <- ScanOptions
    FindingSets <- OneFinding
    MaxVersion = 2
INVARIANTS
    OneVersion
    ReleaseIsVetted
    NeverParsesAsRoot
    PassIsEarned
PROPERTY
    ScanEnds
