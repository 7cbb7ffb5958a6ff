SPECIFICATION Spec
CONSTANTS
    j1 = j1
    j2 = j2
    board = board
    deletion = deletion
    w1 = w1
    w2 = w2
    None = None
    Jobs = {j1, j2}
    Keys = {board, deletion}
    RevivedKeys = {}
    Workers = {w1, w2}
    KeyOf <- BoardKeyOf
    Handles <- AllHandles
    MaxAttempts = 2
    MayOverrun = TRUE
    FaultLimit = 2
    StopLimit = 1
    ReviveLimit = 0
SYMMETRY SymmetricJobs
INVARIANTS
    TypeOK
    TokenIsLatest
    HandlerBudget
    DeadIsExhausted
    EventIsCovered
PROPERTIES
    LeavesByLastClaim
CHECK_DEADLOCK FALSE
