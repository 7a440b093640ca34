SPECIFICATION Spec
CONSTANTS
    d1 = d1
    d2 = d2
    h1 = h1
    h2 = h2
    NoHandler = NoHandler
    Docs <- MCDocs
    Handlers <- MCHandlers
    MaxChunks = 2
    MaxActive = 3
    MaxTotal = 4
    Requests <- AllButReleases
    Alone <- Edits
    Faults <- Writes
SYMMETRY MCSymmetry
INVARIANTS
    TypeOK
    TotalsAgree
    IndexAgrees
PROPERTIES
    AllOrNothing
CHECK_DEADLOCK FALSE
