SPECIFICATION Spec
CONSTANTS
    Pages = {p1}
    MaxConns = 3
    Publications <- MCPublications
    MaxChanges = 1
    MaxFaults = 2
CHECK_DEADLOCK FALSE
INVARIANTS
    EveryConnectionHears
PROPERTIES
    PagesCatchUp
