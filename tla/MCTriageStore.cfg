SPECIFICATION StoreSpec
CONSTANTS
    Procs = {p1, p2, p3}
    Old = {old}
    Requests <- MCRequests
    Texts <- MCTexts
    NoText <- MCNoText
    MayFail = TRUE
SYMMETRY Interchangeable
INVARIANTS
    AddedIsKept
    SuppressedAsMeant
CHECK_DEADLOCK FALSE
