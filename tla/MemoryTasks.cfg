SPECIFICATION Spec
CONSTANTS
    t1 = t1
    t2 = t2
    m1 = m1
    h1 = h1
    h2 = h2
    w1 = w1
    Tasks <- MCTasks
    Memories <- MCMemories
    Handlers <- MCHandlers
    Slots <- MCSlots
    MaxRetries = 2
    LeaseTicks = 1
    Budget = 2
    MaxId = 2
    Requests <- AddDeleteClear
    Faults <- WriteRestart
SYMMETRY MCSymmetry
INVARIANTS
    TypeOK
    ExtractedOnce
    RawHasTask
    ExtractsOwnDialogue
    ClearedStaysClear
