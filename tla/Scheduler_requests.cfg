SPECIFICATION FairSpec
CONSTANTS
    Jobs = {j1, j2}
    Requests = {r1, r2}
    ValidSchedules = {s1, s2}
    OddSchedules = {"huge"}
    MaxRequests = 3
    MaxAborts = 1
CHECK_DEADLOCK FALSE
INVARIANTS
    TypeOK
    EntryMatchesRow
    PauseHolds
PROPERTIES
    KeepsRunning
