SPECIFICATION Spec
CONSTANTS
    Jobs <- MCJobs
    TaskIds <- MCTaskIds
    TaskOf <- MCTaskOf
    MaxConcurrent = 2
    MaxRetries <- MCMaxRetries
    CounterModulus = 8
    HandlerMayPanic = TRUE
INVARIANTS
    TypeOK
    PermitsConserved
    DeliveredOnce
    StatusAgrees
PROPERTIES
    QueuedTaskSettles
    ShutdownCompletes
CHECK_DEADLOCK FALSE
