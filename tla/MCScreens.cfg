SPECIFICATION FairSpec
CONSTANTS
    drive = drive
    image = image
    Drives = {drive}
    Images = {image}
    NoTarget = none
    ListOf <- DriveFirst
    TypedPath = image
    MaxThreads = 2
    IngressStages = 1
    Outcomes = {"Pass", "Fail"}
INVARIANTS
    ResultsOfNewest
    ListingOfTarget
    OutputsAreTrue
PROPERTY
    NobodyWaitsForEver
CHECK_DEADLOCK FALSE
