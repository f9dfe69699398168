SPECIFICATION Spec
CONSTANTS
    Keys = {ip1}
    Limit = 1
    Window = 2
    MaxSkew = 1
    MaxTime = 2
    Hooks = {w1, w2}
    Tokens = {t1}
    NoToken = NoToken
    Payloads <- MCPayloads
    Deliveries = {d1, d2}
    Changes = {c1, c2, c3}
SYMMETRY Symmetry
CHECK_DEADLOCK FALSE
INVARIANTS
    TypeOK
    WindowBound
    AnswerIsTrue
    SettingsHold
