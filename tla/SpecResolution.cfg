SPECIFICATION ResolutionSpec
CONSTANTS
    b1 = b1
    Calls = {c1, c2}
    Requests <- MCRequests
    Functions = {f1}
    ResolveUnpinned = TRUE
    Digests = {b1}
    Manifests = {m1, m2}
    Foreign <- NewerSpec
    Float64 <- MCFloat64
    None = None
    MaxMoves = 1
    MaxFailures = 1
    MaxRestarts = 1
INVARIANTS
    AnsweredAsAsked
    PinnedWhileAsked
    LineageResolves
SYMMETRY Symmetry
CHECK_DEADLOCK FALSE
