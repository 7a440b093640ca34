SPECIFICATION Spec
CONSTANTS
    d1 = d1
    d2 = d2
    h1 = h1
    h2 = h2
    NoHandler = NoHandler
    Docs <- MCDocs
    Handlers <- MCHandlers
    MaxChunks = 1
    MaxActive = 2
    MaxTotal = 4
    Requests <- AllButReleases
    Alone <- Nothing
    Faults <- Reliable
SYMMETRY MCSymmetry
INVARIANTS
    NoOrphans
CHECK_DEADLOCK FALSE
