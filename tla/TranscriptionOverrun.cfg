SPECIFICATION Spec
CONSTANTS
    w1 = w1
    w2 = w2
    r1 = r1
    r2 = r2
    x1 = x1
    x2 = x2
    None = None
    Workers = {w1, w2}
    Renders = {r1, r2}
    Externals = {x1, x2}
    MaxAttempts = 2
    MayOverrun = TRUE
    KeyMayGo = FALSE
    EditLimit = 1
    FaultLimit = 1
    StopLimit = 0
SYMMETRY SymmetricIds
INVARIANTS
    TypeOK
    ProcessingHasJob
PROPERTIES
    ForwardOnly
CHECK_DEADLOCK FALSE
