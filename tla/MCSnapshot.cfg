SPECIFICATION FairSpec
CONSTANTS
    Data = {a, z}
    Zero = z
    TotalSize = 4
    BufSize = 2
    QueueDepth = 2
INVARIANTS
    OkIsFaithful
    OnlyFinishedStays
PROPERTIES
    Terminates
    ImplementsCopyOnce
