SPECIFICATION FairSpec
CONSTANTS
    Total = 12
    MaxLogical = 3
    GptReserve = 2
    Media <- MCMedia
    DiskOf <- MCDisk
    Prefix = 2
    SampleWhole = 4
    SampleEnd = 1
    Chunk = 3
    WipeChunk = 8
    MaxCarved = 3
    ContentOf <- MCContent
    CarvesOf <- MCCarves
    Archives <- MCArchives
    NoArchive <- MCNoArchive
    ArchiveOf <- MCArchiveOf
    FilesOf <- MCFiles
    MaxNesting = 2
    MaxUnpacked = 3
INVARIANTS
    StageTypeOK
    LogicalsAreFound
    OneView
    GapsAreExact
    CarvedIsReported
    SmallGapsAreSearched
    CleanIsHarmless
PROPERTIES
    WipeIsProved
    ScanEnds
CHECK_DEADLOCK FALSE
