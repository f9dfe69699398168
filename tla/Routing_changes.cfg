SPECIFICATION ConfiguredSpec
CONSTANTS
    slack = slack
    pagerduty = pagerduty
    CallIds = {k1, k2, k3}
    WorkspaceIds = {w1, w2}
    Users = {u1}
    Jobs = {j1}
    ChannelIds = {c1, c2}
    Types = {slack, pagerduty}
    TemplateIds = {1, 2}
    Patches <- MCPatches
    Texts <- MCTexts
    Alerts = {a1}
SYMMETRY Symmetry
CHECK_DEADLOCK FALSE
INVARIANTS
    TypeOK
    MembershipsHold
    ConfigFitsType
    
