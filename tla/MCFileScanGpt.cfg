SPECIFICATION Spec
CONSTANTS
    Total = 12
    MaxLogical = 3
    GptReserve = 2
    Media <- MCMedia
    DiskOf <- MCDisk
    Prefix = 2
    SampleWhole = 4
    SampleEnd = 1
    Chunk = 3
    WipeChunk = 8
    MaxCarved = 3
    ContentOf <- MCContent
    CarvesOf <- MCCarves
    Archives <- MCArchives
    NoArchive <- MCNoArchive
    ArchiveOf <- MCArchiveOf
    FilesOf <- MCFiles
    MaxNesting = 2
    MaxUnpacked = 3
INVARIANT
    GptIsRead
CHECK_DEADLOCK FALSE
