SPECIFICATION Spec
CONSTANTS
    w1 = w1
    w2 = w2
    r1 = r1
    r2 = r2
    x1 = x1
    x2 = x2
    None = None
    Workers = {w1}
    Renders = {r1}
    Externals = {x1}
    MaxAttempts = 2
    MayOverrun = FALSE
    KeyMayGo = FALSE
    EditLimit = 0
    FaultLimit = 0
    StopLimit = 0
PROPERTIES
    WebhookDisarmsPoll
CHECK_DEADLOCK FALSE
