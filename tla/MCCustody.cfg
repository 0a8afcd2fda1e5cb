SPECIFICATION Spec
CONSTANTS
    Procs = {p1, p2, p3}
    Nonces = {"n1", "n2"}
    NL = "nl"
    Keys = {1, 2, 3}
    Own = {1, 2}
    Dirs = {"home", "stick"}
    Home = "home"
    Brought <- MCBrought
    Offered = {}
    NoKey = 0
    NoFile = 4
    Contents <- MCContents
    Unread = "unread"
    Paths <- MCPaths
    Escape <- MCEscape
    LayoutOf <- MCLayoutOf
    FilesOf <- MCFilesOf
    Manifests <- MCManifests
    Skew = 0
    MaxTime = 2
    MayFail = TRUE
SYMMETRY Interchangeable
INVARIANTS
    AcceptedOnce
    VerificationIsExact
    KeysMatch
CHECK_DEADLOCK FALSE
