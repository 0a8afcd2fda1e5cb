SPECIFICATION Spec
CONSTANTS
    Procs = {p1, p2}
    Commands <- AllCommands
    Stations <- SomeStations
    Contents <- SomeContents
    Empty = "empty"
    Ports = {port}
    NoPort = noport
    MayKill = FALSE
    Replugs = 1
SYMMETRY Interchangeable
INVARIANTS
    StationOpens
    SettingsRestored
    
