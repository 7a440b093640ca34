SPECIFICATION Spec
CONSTANTS
    t1 = t1
    t2 = t2
    t3 = t3
    d1 = d1
    m1 = m1
    Tasks <- MCPair
    Docs <- MCDocs
    Memories <- MCMemories
    MaxRetries = 2
    LeaseTicks = 2
INVARIANTS
    TypeOK
    OneLiveRowPerDocument
    OneOwnerPerDocument
    FileCurrent
    CancelledStaysOut
PROPERTIES
    ImplementsLifecycle
    PendingSettles
    StaleReportIgnored
CHECK_DEADLOCK FALSE
