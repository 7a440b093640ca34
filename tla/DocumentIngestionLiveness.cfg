SPECIFICATION Spec
CONSTANTS
    t1 = t1
    t2 = t2
    d1 = d1
    h1 = h1
    h2 = h2
    w1 = w1
    w2 = w2
    Tasks <- MCTasks
    Docs <- MCDocs
    Handlers <- MCHandlers
    DispatcherSlots <- MCDispatcher
    ExecutorSlots <- MCExecutor
    MaxRetries = 1
    LeaseTicks = 1
    Requests <- QueueRequests
    Faults <- Panics
PROPERTIES
    PendingSettles
CHECK_DEADLOCK FALSE
