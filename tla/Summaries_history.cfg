SPECIFICATION RuledSpec
CONSTANTS
    CallIds = {k1}
    RuleIds = {r1}
    Values = {1, 2, 500}
    Limit = 2
    Creations <- MCCreations
    RulePatches <- MCRulePatches
    Jobs = {j1, j2}
    Ruled = j1
    RunIds = {e1, e2}
    Responses <- MCResponses
    MaxRetry = 1
    MaxTime = 3
    MaxLost = 1
    Day = 2
    Days = 2
    Periods <- MCPeriods
SYMMETRY Symmetry
CONSTRAINT OneInterest
CHECK_DEADLOCK FALSE
INVARIANTS
    StreakIsNoticed
    SummaryAddsUp
PROPERTIES
    DaysAreComplete
