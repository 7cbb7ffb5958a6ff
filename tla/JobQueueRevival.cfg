SPECIFICATION FairSpec
CONSTANTS
    j1 = j1
    j2 = j2
    board = board
    deletion = deletion
    w1 = w1
    w2 = w2
    None = None
    Jobs = {j1, j2}
    Keys = {board, deletion}
    RevivedKeys = {deletion}
    Workers = {w1, w2}
    KeyOf <- MixedKeyOf
    Handles <- AllHandles
    MaxAttempts = 2
    MayOverrun = FALSE
    FaultLimit = 1
    StopLimit = 1
    ReviveLimit = 1
INVARIANTS
    Exclusive
    TokenIsLatest
PROPERTIES
    LeavesByLastClaim
    EveryJobEnds
CHECK_DEADLOCK FALSE
