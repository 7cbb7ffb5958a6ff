SPECIFICATION Spec
CONSTANTS
    e1 = e1
    e2 = e2
    e3 = e3
    s1 = s1
    s2 = s2
    None = None
    NoSid = NoSid
    Egresses = {e1, e2, e3}
    Sessions = {s1, s2, NoSid}
    SizeOf <- ThreeSizes
    MoveLimit = 1
    CrashLimit = 1
SYMMETRY SymmetricSessions
INVARIANTS
    TypeOK
    OneActivePerSession
    ClosedIsQuiet
    BiggestWins
CHECK_DEADLOCK FALSE
