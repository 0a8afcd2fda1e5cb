SPECIFICATION Spec
CONSTANTS
    Options <- RootOptions
    FindingSets <- OneFinding
    MaxVersion = 1
INVARIANT
    ReleaseDelivers
