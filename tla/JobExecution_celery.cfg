SPECIFICATION Spec
CONSTANTS
    j1 = j1
    None = None
    Jobs = {j1}
    Executions = {e1, e2}
    Workers = {w1, w2}
    JobOf <- OneJob
    Mode = "celery"
    MaxRetryCount = 1
    MaxFaults = 1
SYMMETRY Symmetry
CHECK_DEADLOCK FALSE
INVARIANTS
    TypeOK
    SingleHolder
    NoOrphan
    RetriesExhausted
    AlertOnlyWhenFinal
    OneAlertPerFailure
    DispatchedOnce
    LastEventIsStatus
PROPERTIES
    CompletedNotAhead
    ImplementsLifecycle
