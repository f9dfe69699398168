SPECIFICATION Spec
CONSTANTS
    p1 = p1
    c1 = c1
    c2 = c2
    s1 = s1
    s2 = s2
    s3 = s3
    None = None
    Alerts = {a1, a2}
    Policies = {p1}
    Channels = {c1, c2}
    Steps = {s2, s3}
    StepOf <- TwoDeferred
    MaxTime = 1
    MaxChanges = 0
    MaxAborts = 0
SYMMETRY Symmetry
CHECK_DEADLOCK FALSE
INVARIANTS
    TypeOK
    MarkedAsSent
    ClosedStaysQuiet
