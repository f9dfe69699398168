SPECIFICATION FairSpec
CONSTANTS
    j1 = j1
    None = None
    Jobs = {j1}
    Executions = {e1, e2}
    Workers = {w1}
    JobOf <- OneJob
    Mode = "celery"
    MaxRetryCount = 1
    MaxFaults = 1
CHECK_DEADLOCK FALSE
PROPERTIES
    Settles
