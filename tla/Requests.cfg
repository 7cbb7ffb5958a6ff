SPECIFICATION Spec
CONSTANTS
    p1 = p1
    p2 = p2
    x1 = x1
    x2 = x2
    y1 = y1
    y2 = y2
    y3 = y3
    only = only
    key1 = key1
    c1 = c1
    c2 = c2
    c3 = c3
    bad = bad
    owner = owner
    colleague = colleague
    invitee = invitee
    g1 = g1
    g2 = g2
    g3 = g3
    a = a
    b = b
    Nothing = Nothing
    Requests = {p1, p2}
    Workers = {p1, p2}
    Elements <- Drawn
    Drawings <- Incoming
    MaxElements = 2
    BoardRequests = {only}
    SaveLimit = 2
    BoardFaults = 1
    Declared = {c1, c2}
    Undeclared = {bad}
    FileFaults = 1
    Owner = owner
    Colleague = colleague
    Invitee = invitee
    EditLimit = 2
    LoginLimit = 1
    Asked <- Asking
    NewRoles = {"teacher", "student"}
    InvitedRoles = {"teacher"}
    Grouped = {colleague, invitee}
    Guests = {g1, g2, g3}
    MaxGuestsPerEvent = 1
    Grace = 1
    Horizon = 2
    ArchiveLimit = 2
    RoomFaults = 1
    Terms = {x1, x2}
    Keys = {key1}
    Intervals = {30}
    CardHorizon = 1
    ReviewLimit = 2
    AddLimit = 2
    Rated <- Rating
    Clickable = {y1, y2, y3}
    Drawable = {y1}
    Clickers = {x1, x2}
    MaxClickCandidates = 1
    DrawLimit = 2
    Students = {only}
    Saves <- Saving
    Learners = {x1, x2}
    Phrases = {only}
    OptionLimit = 1
    OptionCallLimit = 2
    RemovalLimit = 1
    Speech = {}
    MaterialTexts = {c1, c2}
    Generated = {}
    Tatoeba = {c3}
    LessonTexts = 1
    OtherTexts = 1
    LossLimit = 1
    Answerable = {c1}
    FeedRequests = {only}
    FeedLimit = 2
    Explainable = {y1, y2}
    ExplainLimit = 1
    LastDay = 2
    ExplainCallLimit = 3
    Lemmas = {a, b}
    Corpora <- Imported
    TextLimit = 2
    PageSize = 1
    CandidateLimit = 1
    LearnLimit = 1
SYMMETRY Symmetry
INVARIANTS
    TypeOK
    Files
    Logins
    Candidates
    OptionsOnce
    
    Practising
PROPERTIES
    Boards
    Access
    Cards
    LessonWords
CHECK_DEADLOCK FALSE
