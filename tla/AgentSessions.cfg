SPECIFICATION Spec
CONSTANTS
    c1 = c1
    r1 = r1
    r2 = r2
    v1 = v1
    v2 = v2
    None = None
    Sessions <- MCSessions
    Runs <- MCRuns
    Canvases <- MCCanvases
    LeaseTicks = 1
    MaxToken = 2
    Faults <- AllFaults
INVARIANTS
    TypeOK
    LeaseHonoured
    PromisesKept
    OneStream
PROPERTIES
    StaysResumable
