SPECIFICATION FairSpec
CONSTANTS
    e1 = e1
    e2 = e2
    e3 = e3
    s1 = s1
    s2 = s2
    None = None
    NoSid = NoSid
    Egresses = {e1, e2}
    Sessions = {s1, NoSid}
    SizeOf <- TwoSizes
    MoveLimit = 2
    CrashLimit = 1
PROPERTIES
    Lifecycle
    LiveLessonEnds
    RecordingReachesLesson
CHECK_DEADLOCK FALSE
