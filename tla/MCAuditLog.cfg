SPECIFICATION FairSpec
CONSTANTS
    Procs = {p1, p2, p3}
    Genesis = genesis
    Sandboxed = {p3}
    MaxText = 2
INVARIANTS
    ChainAlwaysVerifies
PROPERTIES
    ImplementsAtomicLog
    AppendOnly
    AppendsEnd
