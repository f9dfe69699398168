SPECIFICATION Spec
CONSTANTS
    j1 = j1
    None = None
    Jobs = {j1}
    Executions = {e1, e2}
    Workers = {w1, w2}
    JobOf <- OneJob
    Mode = "inline"
    MaxRetryCount = 1
    MaxFaults = 2
SYMMETRY Symmetry
CHECK_DEADLOCK FALSE
INVARIANTS
    LastEventIsStatus
PROPERTIES
    ImplementsLifecycle
