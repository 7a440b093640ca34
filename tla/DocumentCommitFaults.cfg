SPECIFICATION Spec
CONSTANTS
    d1 = d1
    d2 = d2
    h1 = h1
    h2 = h2
    NoHandler = NoHandler
    Docs <- MCOneDoc
    Handlers <- MCHandlers
    MaxChunks = 1
    MaxActive = 3
    MaxTotal = 2
    Requests <- AllButEdits
    Alone <- Nothing
    Faults <- AllFaults
SYMMETRY MCSymmetry
INVARIANTS
    NoOrphans
CHECK_DEADLOCK FALSE
