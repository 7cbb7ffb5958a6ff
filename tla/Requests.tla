------------------------------- MODULE Requests -------------------------------
(***************************************************************************)
(* What requests of the browsers do to boards, files, accounts, events,    *)
(* rooms and words.  The parts share no state, so a behaviour is of one    *)
(* part, chosen at the start, and the others stay in their initial state:  *)
(* one specification stands for the twelve, one by one.                    *)
(***************************************************************************)
EXTENDS Integers, FiniteSets, Sequences

CONSTANTS
    Requests,        \* requests under way
    Nothing,         \* no object, no element, no text
    \* Whiteboard
    Elements, Drawings, MaxElements, BoardRequests, Workers, SaveLimit, BoardFaults,
    \* Materials
    Declared, Undeclared, FileFaults,
    \* Accounts
    Owner, Colleague, Invitee, EditLimit, LoginLimit, Asked, NewRoles, InvitedRoles, Grouped,
    \* GuestEvents
    Guests, MaxGuestsPerEvent, Grace, Horizon,
    \* RoomAccess
    ArchiveLimit, RoomFaults,
    \* Vocabulary
    Terms, Keys, Intervals, CardHorizon, ReviewLimit, AddLimit, Rated,
    \* LessonCandidates
    Clickable, Drawable, Clickers, MaxClickCandidates, DrawLimit,
    \* LessonDictionary
    Students, Saves,
    \* ClozeOptions
    Learners, Phrases, OptionLimit, OptionCallLimit, RemovalLimit,
    \* ClozeFeed
    Speech, MaterialTexts, Generated, Tatoeba, Answerable, FeedRequests, FeedLimit,
    LessonTexts, OtherTexts, LossLimit,
    \* Explanations
    Explainable, ExplainLimit, LastDay, ExplainCallLimit,
    \* PracticeTexts
    Lemmas, Corpora, TextLimit, PageSize, CandidateLimit, LearnLimit

VARIABLES
    part,
    \* Whiteboard
    boardLesson, board, admitted, snapshots, hand, object, deletion, boardFaults,
    lostPut, boardOverlap, boardLapsed,
    \* Materials
    row, etag, fileLesson, uploadLink, upload, file, transfer, deletions, worker,
    fileFaults, confirms, late, lost,
    \* Accounts
    user, members, sessions, invite, entry, edits, logins, crossedEdits,
    \* GuestEvents
    clock, event, guestLink, issued, join, guests, expires,
    \* RoomAccess
    phase, status, archived, archiving, loaded, token, inRoom, archives, lostCalls,
    lateToken, margin, absent,
    \* Vocabulary
    today, words, cards, itemOf, reviews, attempts, reviewing, written, added, byHand,
    cardless,
    \* LessonCandidates
    window, scene, draws, clicks, clicked, onBoard, manual, clicking, newest,
    crossedScenes,
    \* LessonDictionary
    candidates, confirmed, owned, assigning, list, mixed, removed,
    \* ClozeOptions
    configured, shaped, exists, pinned, cache, optionCalls, optionAnswers, choosing,
    removal, removals, shown, stranded, bare,
    \* ClozeFeed
    dict, sources, items, misses, unfinished, feeds, returned, cut, losses,
    \* Explanations
    day, cached, explainUsed, explaining, explainCalls, answered,
    \* PracticeTexts
    learning, corpus, changes, ownTexts, generations, drafts, generating, reader

Board == INSTANCE Whiteboard WITH
    Requests <- BoardRequests, FaultLimit <- BoardFaults, NoElement <- Nothing,
    lesson <- boardLesson, waiting <- snapshots, faults <- boardFaults,
    overlap <- boardOverlap, lapsed <- boardLapsed

Material == INSTANCE Materials WITH
    NoObject <- Nothing, FaultLimit <- FileFaults,
    lesson <- fileLesson, link <- uploadLink, request <- transfer, waiting <- deletions,
    faults <- fileFaults, overlap <- confirms

Account == INSTANCE Accounts WITH
    request <- entry, crossed <- crossedEdits

Event == INSTANCE GuestEvents WITH
    now <- clock, lesson <- event, link <- guestLink

Room == INSTANCE RoomAccess WITH
    FaultLimit <- RoomFaults, faults <- lostCalls

Card == INSTANCE Vocabulary WITH
    Horizon <- CardHorizon, now <- today, items <- itemOf, asked <- reviewing, bare <- cardless

Click == INSTANCE LessonCandidates WITH
    Terms <- Clickable, Students <- Clickers,
    crossed <- crossedScenes, asked <- clicking

List == INSTANCE LessonDictionary WITH
    asked <- assigning, dict <- owned

Options == INSTANCE ClozeOptions WITH
    Users <- Learners, Sentences <- Phrases,
    DailyLimit <- OptionLimit, CallLimit <- OptionCallLimit,
    used <- optionCalls, calls <- optionAnswers, asked <- choosing

Feed == INSTANCE ClozeFeed WITH
    Words <- Terms, Materials <- MaterialTexts, Requests <- FeedRequests, Limit <- FeedLimit,
    texts <- sources

Explain == INSTANCE Explanations WITH
    Users <- Learners,
    Keys <- Explainable, DailyLimit <- ExplainLimit, CallLimit <- ExplainCallLimit,
    NoText <- Nothing,
    used <- explainUsed, request <- explaining, calls <- explainCalls

Practice == INSTANCE PracticeTexts WITH
    Words <- Lemmas, DailyLimit <- TextLimit,
    used <- generations, calls <- drafts, request <- generating, texts <- ownTexts

ASSUME RequestsAssumption ==
    /\ Board!WhiteboardAssumption
    /\ Material!MaterialsAssumption
    /\ Account!AccountsAssumption
    /\ Event!GuestAssumption
    /\ Room!RoomAssumption
    /\ Card!VocabularyAssumption
    /\ Click!CandidatesAssumption
    /\ Options!OptionsAssumption
    /\ Feed!FeedAssumption
    /\ Explain!ExplanationsAssumption
    /\ Practice!PracticeAssumption
    /\ Asked \subseteq Account!Ops \X Account!Roles
    /\ NewRoles \cup InvitedRoles \subseteq Account!Roles
    /\ Drawings \subseteq Seq(Elements)
    /\ Grouped \subseteq Account!Users /\ Drawable \subseteq Clickable
    /\ Rated \subseteq {"review", "attempt"} \X Card!Ratings
    /\ Saves \subseteq {0, 5} \X {"none", "other"}

boardState ==
    <<boardLesson, board, admitted, snapshots, hand, object, deletion, boardFaults,
      lostPut, boardOverlap, boardLapsed>>
materialState ==
    <<row, etag, fileLesson, uploadLink, upload, file, transfer, deletions, worker,
      fileFaults, confirms, late, lost>>
accountState ==
    <<user, members, sessions, invite, entry, edits, logins, crossedEdits>>
eventState ==
    <<clock, event, guestLink, issued, join, guests, expires>>
roomState ==
    <<phase, status, archived, archiving, loaded, token, inRoom, archives, lostCalls,
      lateToken, margin, absent>>
cardState ==
    <<today, words, cards, itemOf, reviews, attempts, reviewing, written, added, byHand,
      cardless>>
clickState ==
    <<window, scene, draws, clicks, clicked, onBoard, manual, clicking, newest,
      crossedScenes>>
listState ==
    <<candidates, confirmed, owned, assigning, list, mixed, removed>>
optionsState ==
    <<configured, shaped, exists, pinned, cache, optionCalls, optionAnswers, choosing,
      removal, removals, shown, stranded, bare>>
feedState ==
    <<dict, sources, items, misses, unfinished, feeds, returned, cut, losses>>
explainState ==
    <<day, cached, explainUsed, explaining, explainCalls, answered>>
practiceState ==
    <<learning, corpus, changes, ownTexts, generations, drafts, generating, reader>>
vars ==
    <<part, boardState, materialState, accountState, eventState, roomState, cardState,
      clickState, listState, optionsState, feedState, explainState, practiceState>>

Init ==
    /\ part \in {"board", "material", "account", "event", "room", "card", "click", "list",
               "options", "feed", "explain", "practice"}
    /\ Board!Init /\ Material!Init /\ Account!Init /\ Event!Init
    /\ Room!Init /\ Card!Init /\ Click!Init /\ List!Init
    /\ Options!Init /\ Feed!Init /\ Explain!Init /\ Practice!Init
    \* A teacher with his student, or two admins.
    /\ user[Colleague].role = "teacher" <=> user[Invitee].exists
    \* Parts that may begin in several ways do so only in their own behaviours.
    /\ part # "account" => user[Colleague].role = "teacher"
    /\ part # "event" => event.end = 1
    /\ part # "list" => candidates = {}
    /\ part # "options" => ~configured /\ shaped = {}
    /\ part # "practice" => learning = {} /\ corpus = CHOOSE c \in Corpora : TRUE

\* A step of a part leaves the others as they are.
Others(p) ==
    /\ UNCHANGED part
    /\ p # "board" => UNCHANGED boardState
    /\ p # "material" => UNCHANGED materialState
    /\ p # "account" => UNCHANGED accountState
    /\ p # "event" => UNCHANGED eventState
    /\ p # "room" => UNCHANGED roomState
    /\ p # "card" => UNCHANGED cardState
    /\ p # "click" => UNCHANGED clickState
    /\ p # "list" => UNCHANGED listState
    /\ p # "options" => UNCHANGED optionsState
    /\ p # "feed" => UNCHANGED feedState
    /\ p # "explain" => UNCHANGED explainState
    /\ p # "practice" => UNCHANGED practiceState

BoardNext ==
    \/ part = "board" /\ Board!Start /\ Others("board")
    \/ part = "board" /\ Board!Close /\ Others("board")
    \/ part = "board" /\ Board!CancelLesson /\ Others("board")
    \/ part = "board" /\ Board!RoomFinished /\ Others("board")
    \/ part = "board" /\ Board!DeleteObject /\ Others("board")
    \/ part = "board" /\ (\E r \in BoardRequests : Board!Admit(r)) /\ Others("board")
    \/ part = "board" /\ (\E r \in BoardRequests : Board!OpenWhiteboard(r)) /\ Others("board")
    \/ part = "board" /\ (\E r \in BoardRequests : Board!Refuse(r)) /\ Others("board")
    \/ /\ part = "board" /\ Others("board")
       /\ \E r \in BoardRequests, incoming \in Drawings :
              Board!SaveScene(r, incoming)
    \/ part = "board" /\ (\E w \in Workers : Board!Claim(w)) /\ Others("board")
    \/ part = "board" /\ (\E w \in Workers : Board!Read(w)) /\ Others("board")
    \/ part = "board" /\ (\E w \in Workers : Board!PutObject(w)) /\ Others("board")
    \/ part = "board" /\ (\E w \in Workers : Board!MarkSnapshot(w)) /\ Others("board")
    \/ part = "board" /\ (\E w \in Workers : Board!Fail(w)) /\ Others("board")
    \/ part = "board" /\ (\E w \in Workers : Board!LockExpires(w)) /\ Others("board")

MaterialNext ==
    \/ part = "material" /\ Material!Create /\ Others("material")
    \/ part = "material" /\ Material!StartLesson /\ Others("material")
    \/ part = "material" /\ Material!CancelLesson /\ Others("material")
    \/ part = "material" /\ Material!LinkExpires /\ Others("material")
    \/ part = "material" /\ Material!LifecycleDropsUpload /\ Others("material")
    \/ part = "material" /\ Material!JobDropsUpload /\ Others("material")
    \/ part = "material" /\ Material!JobDropsFile /\ Others("material")
    \/ part = "material" /\ Material!JobRetries /\ Others("material")
    \/ part = "material" /\ (\E c \in Material!Contents : Material!Put(c)) /\ Others("material")
    \/ /\ part = "material" /\ Others("material")
       /\ \E r \in Requests :
              Material!LoadToConfirm(r)
    \/ /\ part = "material" /\ Others("material")
       /\ \E r \in Requests :
              Material!CheckUpload(r)
    \/ /\ part = "material" /\ Others("material")
       /\ \E r \in Requests :
              Material!CopyUpload(r)
    \/ /\ part = "material" /\ Others("material")
       /\ \E r \in Requests :
              Material!CheckFile(r)
    \/ /\ part = "material" /\ Others("material")
       /\ \E r \in Requests :
              Material!ConfirmRow(r)
    \/ /\ part = "material" /\ Others("material")
       /\ \E r \in Requests :
              Material!DropConfirmedUpload(r)
    \/ /\ part = "material" /\ Others("material")
       /\ \E r \in Requests :
              Material!LoadToRemove(r)
    \/ /\ part = "material" /\ Others("material")
       /\ \E r \in Requests :
              Material!RemoveUpload(r)
    \/ /\ part = "material" /\ Others("material")
       /\ \E r \in Requests :
              Material!RemoveFile(r)
    \/ /\ part = "material" /\ Others("material")
       /\ \E r \in Requests :
              Material!RemovalFails(r)
    \/ /\ part = "material" /\ Others("material")
       /\ \E r \in Requests :
              Material!DeleteRow(r)
    \/ part = "material" /\ (\E r \in Requests : Material!Abort(r)) /\ Others("material")

AccountNext ==
    \/ part = "account" /\ Account!AcceptInvite /\ Others("account")
    \/ part = "account" /\ Account!InviteEnds /\ Others("account")
    \/ part = "account" /\ (\E s \in sessions : Account!SessionEnds(s)) /\ Others("account")
    \/ part = "account" /\ (\E r \in Requests : Account!Authorize(r)) /\ Others("account")
    \/ part = "account" /\ (\E r \in Requests : Account!SetPassword(r)) /\ Others("account")
    \/ /\ part = "account" /\ Others("account")
       /\ \E r \in Requests :
              Account!UpdateUserProfile(r)
    \/ /\ part = "account" /\ Others("account")
       /\ \E r \in Requests :
              Account!DeactivateUser(r)
    \/ /\ part = "account" /\ Others("account")
       /\ \E r \in Requests :
              Account!ReactivateUser(r)
    \/ part = "account" /\ (\E r \in Requests : Account!OpenSession(r)) /\ Others("account")
    \/ part = "account" /\ (\E r \in Requests : Account!GivesUp(r)) /\ Others("account")
    \/ /\ part = "account" /\ Others("account")
       /\ \E r \in Requests :
              Account!CheckLogin(r, Invitee)
    \/ /\ part = "account" /\ Others("account")
       /\ \E u \in {Owner, Colleague}, target \in Grouped :
              Account!ChangeGroup(u, target)
    \/ /\ part = "account" /\ Others("account")
       /\ \E u \in {Owner, Colleague}, role \in NewRoles :
              Account!CreateUser(u, role)
    \/ /\ part = "account" /\ Others("account")
       /\ \E u \in {Owner, Colleague}, role \in InvitedRoles, joins \in BOOLEAN :
              Account!CreateInvite(u, role, joins)
    \/ /\ part = "account" /\ Others("account")
       /\ \E r \in Requests, u, target \in Account!Users, ask \in Asked :
              Account!Enter(r, u, ask[1], target, ask[2])

EventNext ==
    \/ part = "event" /\ Event!Tick /\ Others("event")
    \/ part = "event" /\ Event!IssueLink /\ Others("event")
    \/ part = "event" /\ Event!RevokeLink /\ Others("event")
    \/ part = "event" /\ Event!CancelLesson /\ Others("event")
    \/ part = "event" /\ Event!StartLesson /\ Others("event")
    \/ part = "event" /\ (\E end \in 1..Horizon : Event!RescheduleLesson(end)) /\ Others("event")
    \/ part = "event" /\ (\E g \in Guests : Event!Cleanup(g)) /\ Others("event")
    \/ /\ part = "event" /\ Others("event")
       /\ \E r \in Requests, n \in 1..issued :
              Event!Follow(r, n)
    \/ part = "event" /\ (\E r \in Requests : Event!LockLesson(r)) /\ Others("event")
    \/ part = "event" /\ (\E r \in Requests : Event!CountGuests(r)) /\ Others("event")
    \/ part = "event" /\ (\E r \in Requests : Event!Rollback(r)) /\ Others("event")
    \/ /\ part = "event" /\ Others("event")
       /\ \E r \in Requests, g \in Guests :
              Event!CommitJoin(r, g)

RoomNext ==
    \/ part = "room" /\ Room!Tick /\ Others("room")
    \/ part = "room" /\ Room!StartRecording /\ Others("room")
    \/ part = "room" /\ Room!CloseLesson /\ Others("room")
    \/ part = "room" /\ Room!EnterRoom /\ Others("room")
    \/ part = "room" /\ Room!LeaveRoom /\ Others("room")
    \/ part = "room" /\ Room!TokenExpires /\ Others("room")
    \/ part = "room" /\ Room!DeactivateUser /\ Others("room")
    \/ part = "room" /\ Room!ListLessons /\ Others("room")
    \/ part = "room" /\ Room!RemoveParticipant /\ Others("room")
    \/ part = "room" /\ Room!RemovalFails /\ Others("room")
    \/ part = "room" /\ Room!ReactivateUser /\ Others("room")
    \/ part = "room" /\ Room!LoadSession /\ Others("room")
    \/ part = "room" /\ Room!SignToken /\ Others("room")
    \/ part = "room" /\ Room!RefuseToken /\ Others("room")

CardNext ==
    \/ part = "card" /\ Card!Tick /\ Others("card")
    \/ part = "card" /\ Card!BackfillSRSCards /\ Others("card")
    \/ /\ part = "card" /\ Others("card")
       /\ \E t \in Terms, level \in {0, 3} :
              Card!SaveUserTerm(t, level)
    \/ part = "card" /\ (\E t \in Terms : Card!SaveByOldApi(t)) /\ Others("card")
    \/ part = "card" /\ (\E t \in Terms : Card!DeleteUserTerm(t)) /\ Others("card")
    \/ part = "card" /\ (\E t \in Terms : Card!CreateClozeItem(t)) /\ Others("card")
    \/ /\ part = "card" /\ Others("card")
       /\ \E r \in Requests, t \in Terms, key \in Keys, ask \in Rated :
              Card!Ask(r, ask[1], t, key, ask[2])
    \/ part = "card" /\ (\E r \in Requests : Card!LockCard(r)) /\ Others("card")
    \/ part = "card" /\ (\E r \in Requests : Card!Commit(r)) /\ Others("card")
    \/ part = "card" /\ (\E r \in Requests : Card!Rollback(r)) /\ Others("card")

ClickNext ==
    \/ part = "click" /\ Click!CloseWindow /\ Others("click")
    \/ part = "click" /\ (\E t \in Drawable : Click!AddManualCandidates(t)) /\ Others("click")
    \/ part = "click" /\ (\E t \in Drawable, n \in 0..2 : Click!Draw(t, n)) /\ Others("click")
    \/ /\ part = "click" /\ Others("click")
       /\ \E t \in Clickable, r \in Requests, s \in Clickers :
              Click!ClickBegins(r, s, t)
    \/ part = "click" /\ (\E r \in Requests : Click!ClickEnds(r)) /\ Others("click")
    \/ part = "click" /\ (\E r \in Requests : Click!CollectReads(r)) /\ Others("click")
    \/ /\ part = "click" /\ Others("click")
       /\ \E r \in Requests :
              Click!SaveWhiteboardCandidates(r)
    \/ part = "click" /\ (\E r \in Requests : Click!Fails(r)) /\ Others("click")

ListNext ==
    \/ part = "list" /\ (\E t \in Terms : List!NewCandidate(t)) /\ Others("list")
    \/ /\ part = "list" /\ Others("list")
       /\ \E s \in Students, t \in Terms, save \in Saves :
              List!StudentSaves(s, t, save[1], save[2])
    \/ part = "list" /\ (\E s \in Students, t \in Terms : List!StudentRemoves(s, t)) /\ Others("list")
    \/ /\ part = "list" /\ Others("list")
       /\ \E t \in Terms, r \in Requests, s \in Students :
              List!AssignOne(r, s, t)
    \/ /\ part = "list" /\ Others("list")
       /\ \E r \in Requests, ts \in SUBSET Terms :
              List!SetBegins(r, ts)
    \/ /\ part = "list" /\ Others("list")
       /\ \E r \in Requests, ss \in SUBSET Students :
              List!AssignBegins(r, ss)
    \/ part = "list" /\ (\E r \in Requests : List!SetDeletes(r)) /\ Others("list")
    \/ part = "list" /\ (\E r \in Requests : List!SetInserts(r)) /\ Others("list")
    \/ part = "list" /\ (\E r \in Requests : List!SetCommits(r)) /\ Others("list")
    \/ part = "list" /\ (\E r \in Requests : List!Ends(r)) /\ Others("list")

OptionsNext ==
    \/ part = "options" /\ Options!RemoveCommits /\ Others("options")
    \/ /\ part = "options" /\ Others("options")
       /\ \E c \in Phrases, whole \in BOOLEAN :
              Options!RemoveBegins(c, whole)
    \/ /\ part = "options" /\ Others("options")
       /\ \E i \in Options!Items :
              Options!CreateClozeItem(i)
    \/ /\ part = "options" /\ Others("options")
       /\ \E r \in Requests, u \in Learners : \E is \in SUBSET ({u} \X Phrases) :
              \E first \in is : Options!Feed(r, u, is, first)
    \/ /\ part = "options" /\ Others("options")
       /\ \E r \in Requests, u \in Learners : \E is \in SUBSET ({u} \X Phrases) :
              Options!Distractors(r, u, is)
    \/ part = "options" /\ (\E r \in Requests : Options!Reserve(r)) /\ Others("options")
    \/ /\ part = "options" /\ Others("options")
       /\ \E r \in Requests, got \in SUBSET Options!Items :
              Options!Answer(r, got)
    \/ /\ part = "options" /\ Others("options")
       /\ \E r \in Requests, i \in Options!Items :
              Options!Save(r, i)
    \/ part = "options" /\ (\E r \in Requests : Options!PinLLM(r)) /\ Others("options")
    \/ part = "options" /\ (\E r \in Requests : Options!PinList(r)) /\ Others("options")
    \/ part = "options" /\ (\E r \in Requests : Options!Reread(r)) /\ Others("options")
    \/ part = "options" /\ (\E r \in Requests : Options!Fails(r)) /\ Others("options")

FeedNext ==
    \/ part = "feed" /\ Feed!HourPasses /\ Others("feed")
    \/ part = "feed" /\ (\E r \in FeedRequests : Feed!Begins(r)) /\ Others("feed")
    \/ part = "feed" /\ (\E r \in FeedRequests : Feed!ReadsItems(r)) /\ Others("feed")
    \/ part = "feed" /\ (\E r \in FeedRequests : Feed!ReadsTexts(r)) /\ Others("feed")
    \/ part = "feed" /\ (\E r \in FeedRequests : Feed!Ends(r)) /\ Others("feed")
    \/ part = "feed" /\ (\E r \in FeedRequests : Feed!Fails(r)) /\ Others("feed")
    \/ part = "feed" /\ (\E s \in Feed!Sentences : Feed!NewText(s)) /\ Others("feed")
    \/ part = "feed" /\ (\E s \in MaterialTexts : Feed!DeleteMaterial(s)) /\ Others("feed")
    \/ part = "feed" /\ (\E s \in Tatoeba : Feed!ImportBatch(s)) /\ Others("feed")
    \/ part = "feed" /\ (\E gone \in SUBSET Tatoeba : Feed!ImportFinishes(gone)) /\ Others("feed")
    \/ part = "feed" /\ (\E w \in Terms : Feed!RemoveWord(w)) /\ Others("feed")
    \/ part = "feed" /\ (\E w \in Terms : Feed!AddWord(w)) /\ Others("feed")
    \/ part = "feed" /\ (\E w \in Terms, s \in Answerable : Feed!Answered(w, s)) /\ Others("feed")
    \/ part = "feed" /\ (\E w \in Terms, s \in Answerable : Feed!OptionsLost(w, s)) /\ Others("feed")
    \/ /\ part = "feed" /\ Others("feed")
       /\ \E r \in FeedRequests, w \in Terms :
              Feed!GivesUnanswered(r, w)
    \/ /\ part = "feed" /\ Others("feed")
       /\ \E r \in FeedRequests, w \in Terms :
              Feed!GivesNew(r, w)
    \/ /\ part = "feed" /\ Others("feed")
       /\ \E r \in FeedRequests, w \in Terms :
              Feed!GivesAnswered(r, w)
    \/ /\ part = "feed" /\ Others("feed")
       /\ \E r \in FeedRequests, w \in Terms :
              Feed!FindsGone(r, w)

ExplainNext ==
    \/ part = "explain" /\ Explain!Crash /\ Others("explain")
    \/ part = "explain" /\ Explain!Midnight /\ Others("explain")
    \/ /\ part = "explain" /\ Others("explain")
       /\ \E r \in Requests, u \in Learners, key \in Explainable :
              Explain!Ask(r, u, key)
    \/ part = "explain" /\ (\E r \in Requests : Explain!Reserve(r)) /\ Others("explain")
    \/ part = "explain" /\ (\E r \in Requests : Explain!Call(r)) /\ Others("explain")
    \/ part = "explain" /\ (\E r \in Requests : Explain!CallFails(r)) /\ Others("explain")
    \/ part = "explain" /\ (\E r \in Requests : Explain!Save(r)) /\ Others("explain")

PracticeNext ==
    \/ part = "practice" /\ Practice!NextPage /\ Others("practice")
    \/ part = "practice" /\ Practice!Leave /\ Others("practice")
    \/ part = "practice" /\ Practice!Import /\ Others("practice")
    \/ part = "practice" /\ (\E w \in Lemmas : Practice!Learn(w)) /\ Others("practice")
    \/ /\ part = "practice" /\ Others("practice")
       /\ \E given \in SUBSET Lemmas :
              Practice!FirstPage(given)
    \/ /\ part = "practice" /\ Others("practice")
       /\ \E r \in Requests, wanted \in {learning} \cup {{w} : w \in Lemmas} :
              Practice!Reserve(r, wanted)
    \/ part = "practice" /\ (\E r \in Requests : Practice!Passes(r)) /\ Others("practice")
    \/ part = "practice" /\ (\E r \in Requests : Practice!Misses(r)) /\ Others("practice")
    \/ part = "practice" /\ (\E r \in Requests : Practice!Fails(r)) /\ Others("practice")
    \/ part = "practice" /\ (\E r \in Requests : Practice!Save(r)) /\ Others("practice")

Next ==
    \/ BoardNext \/ MaterialNext \/ AccountNext \/ EventNext
    \/ RoomNext \/ CardNext \/ ClickNext \/ ListNext
    \/ OptionsNext \/ FeedNext \/ ExplainNext \/ PracticeNext

Spec == Init /\ [][Next]_vars

-----------------------------------------------------------------------------
\* The types of the state of the part that moves.
TypeOK ==
    /\ part = "board" => Board!TypeOK
    /\ part = "material" => Material!TypeOK
    /\ part = "account" => Account!TypeOK
    /\ part = "event" => Event!TypeOK
    /\ part = "room" => Room!TypeOK
    /\ part = "card" => Card!TypeOK
    /\ part = "click" => Click!TypeOK
    /\ part = "list" => List!TypeOK
    /\ part = "options" => Options!TypeOK
    /\ part = "feed" => Feed!TypeOK
    /\ part = "explain" => Explain!TypeOK
    /\ part = "practice" => Practice!TypeOK

\* The whiteboard: no saved drawing is overwritten by a laggard, the object of a
\* cancelled lesson is on its way out, and storage ends with the last scene
\* unless its snapshot died (store/whiteboards.go, worker/whiteboard.go;
\* Whiteboard names what is excused).
Boards == [](Board!NoOrphan /\ Board!QuiescentIsFresh) /\ Board!SceneForward

\* A material that is shown has the file that was confirmed, and no file
\* outlives its row (httpapi/materials.go, store/materials.go).
Files == Material!ReadyHasFile /\ Material!NoOrphanFile

\* No session outlives a new password or the archive, and the school keeps an
\* admin (httpapi/users.go, store/users.go).
Logins == Account!NoStaleSession /\ Account!AdminRemains

\* Who is in a room: guests join by the link of the moment, keep their session as
\* long as their event lasts and exceed the cap by those who join at once; who
\* was archived is out of the room of a lesson under way if he was found there
\* (store/guests.go, httpapi/users.go, store/users.go LiveLessonsOf,
\* livekitapi/room.go).
Access ==
    /\ [](Event!SessionFollowsEvent /\ Event!SoftCap /\ Room!ArchivedOutOfLesson)
    /\ Event!JoinsByValidLink

\* Words, cards, their journal and their status agree whatever was retried,
\* repeated or removed, and no two tabs move a card twice (store/srs.go,
\* store/terms.go, store/cloze.go).
Cards ==
    /\ [](/\ Card!CardPerWord /\ Card!CountedOnce
          /\ Card!CardMatchesJournal /\ Card!StatusFollowsCard)
    /\ Card!MovesWhenDue

\* The counts of the words suggested for a lesson (store/lesson_terms.go).
Candidates == Click!CountIsClickers /\ Click!SoftClickCap /\ Click!CountsOneScene

\* The list of a lesson's words is one list, and assigning it reaches everybody
\* and takes nothing away (httpapi/lesson_terms.go, store/lesson_terms.go).
LessonWords == [](List!OneWholeList /\ List!AssignedToAll) /\ List!AssignKeeps

\* An item has one set of options for life, never the answer alone, and no call
\* is made without a place of the day (httpapi/cloze.go, store/cloze.go).
OptionsOnce == Options!OneSet /\ Options!NoBareAnswer /\ Options!WithinLimit

\* No feed shows a sentence twice or hides a word whose search was not cut
\* short and that has sentences (httpapi/cloze.go, store/cloze.go).
FeedComplete == Feed!SentenceOnce /\ Feed!NothingHidden

\* One explanation for everybody who asks, and no text twice and no own text
\* left out however the pages are turned while texts are generated and the
\* corpus is imported (httpapi/explain.go, httpapi/practice.go,
\* store/practice.go).
Practising == Explain!OneExplanation /\ Practice!EveryTextOnce
=============================================================================
