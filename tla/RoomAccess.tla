----------------------------- MODULE RoomAccess -----------------------------
(***************************************************************************)
(* One person, the room of one lesson, and the archive.  The token of the  *)
(* room is signed for its window (handleRoomToken); archiving a person     *)
(* looks up the lessons whose rooms may be open and has LiveKit remove the *)
(* person from each (removeFromLiveRooms).  Without a recording a lesson   *)
(* stays scheduled while it is held.                                       *)
(***************************************************************************)
EXTENDS Naturals, Sequences

CONSTANTS
    ArchiveLimit,  \* bound: times the person is archived
    FaultLimit     \* bound: calls LiveKit does not answer

\* Assumed of the constants wherever the module is instantiated.
RoomAssumption == ArchiveLimit \in Nat /\ FaultLimit \in Nat

VARIABLES
    phase,      \* the clock: before the window, before the start, the lesson's
                \* own time, after its end, after the window
    status,     \* of the lesson
    archived,   \* deactivated_at is set
    archiving,  \* how far handleSetUserArchived is: none, listing, removing
    loaded,     \* a request for a token has found the session
    token,      \* the person has a token LiveKit accepts
    inRoom,     \* LiveKit has the person in the room
    archives, faults,  \* bounds used up
    lateToken,  \* history: a token was signed after the archive
    margin,     \* history: the lesson was looked for outside its own time
    absent      \* history: he was not in the room at the last removal

vars == <<phase, status, archived, archiving, loaded, token, inRoom, archives, faults,
          lateToken, margin, absent>>

Phases == <<"closed", "early", "on", "late", "over">>

Window == {"early", "on", "late"}

Init ==
    /\ phase = 1 /\ status = "scheduled"
    /\ archived = FALSE /\ archiving = "none"
    /\ loaded = FALSE /\ token = FALSE /\ inRoom = FALSE
    /\ archives = 0 /\ faults = 0 /\ lateToken = FALSE /\ margin = FALSE
    /\ absent = FALSE

person == <<archived, archiving, archives, faults>>
history == <<lateToken, margin, absent>>

-----------------------------------------------------------------------------
\* The lesson and LiveKit

\* No token outlives the window.
Tick ==
    /\ phase < Len(Phases) /\ phase' = phase + 1
    /\ token' = (token /\ Phases[phase + 1] \in Window)
    /\ UNCHANGED <<status, person, loaded, inRoom, history>>

\* room_started with a recording.
StartRecording ==
    /\ Phases[phase] \in Window /\ status = "scheduled" /\ status' = "live"
    /\ UNCHANGED <<phase, person, loaded, token, inRoom, history>>

\* closeLessonIfOver.
CloseLesson ==
    /\ Phases[phase] = "over" /\ status = "live" /\ status' = "processing"
    /\ UNCHANGED <<phase, person, loaded, token, inRoom, history>>

EnterRoom ==
    /\ token /\ inRoom' = TRUE
    /\ UNCHANGED <<phase, status, person, loaded, token, history>>

LeaveRoom ==
    /\ inRoom /\ inRoom' = FALSE
    /\ UNCHANGED <<phase, status, person, loaded, token, history>>

\* roomTokenTTL.
TokenExpires ==
    /\ token /\ token' = FALSE
    /\ UNCHANGED <<phase, status, person, loaded, inRoom, history>>

-----------------------------------------------------------------------------
\* handleRoomToken

\* requireUser: an archived account has no session.
LoadSession ==
    /\ ~archived /\ loaded' = TRUE
    /\ UNCHANGED <<phase, status, person, token, inRoom, history>>

SignToken ==
    /\ loaded /\ loaded' = FALSE
    /\ Phases[phase] \in Window /\ status # "processing"
    /\ token' = TRUE /\ lateToken' = (lateToken \/ archived)
    /\ UNCHANGED <<phase, status, person, inRoom, margin, absent>>

RefuseToken ==
    /\ loaded /\ loaded' = FALSE
    /\ UNCHANGED <<phase, status, person, token, inRoom, history>>

-----------------------------------------------------------------------------
\* handleSetUserArchived

DeactivateUser ==
    /\ ~archived /\ archiving = "none" /\ archives < ArchiveLimit
    /\ archived' = TRUE /\ archiving' = "listing" /\ archives' = archives + 1
    /\ UNCHANGED <<phase, status, loaded, token, inRoom, faults, history>>

LiveLessonsOfMutantLiveOnly == status = "live"

\* LiveLessonsOf has the lesson.
LiveLessonsOf == status = "live" \/ (status = "scheduled" /\ Phases[phase] = "on")

ListLessons ==
    /\ archiving = "listing"
    /\ archiving' = IF LiveLessonsOf THEN "removing" ELSE "none"
    /\ margin' = (margin \/ (status # "live" /\ Phases[phase] \in {"early", "late", "over"}))
    /\ UNCHANGED <<phase, status, archived, loaded, token, inRoom, archives, faults, lateToken,
                   absent>>

\* RemoveParticipant.  LiveKit removes who is in the room and ends the tokens he
\* has to it.  For who is not there it answers 404, which is success as well:
\* then it may or may not have ended his token.
RemoveParticipant ==
    /\ archiving = "removing" /\ archiving' = "none"
    /\ inRoom' = FALSE /\ absent' = ~inRoom
    /\ token' \in {FALSE, token /\ ~inRoom}
    /\ UNCHANGED <<phase, status, archived, loaded, archives, faults, lateToken, margin>>

\* The api dies, or a call fails: the archive stands.
RemovalFails ==
    /\ archiving # "none" /\ faults < FaultLimit /\ faults' = faults + 1
    /\ archiving' = "none"
    /\ UNCHANGED <<phase, status, archived, loaded, token, inRoom, archives, history>>

ReactivateUser ==
    /\ archived /\ archived' = FALSE
    /\ UNCHANGED <<phase, status, archiving, loaded, token, inRoom, archives, faults, history>>

-----------------------------------------------------------------------------

Room == Tick \/ StartRecording \/ CloseLesson \/ EnterRoom \/ LeaveRoom \/ TokenExpires

Archive == DeactivateUser \/ ListLessons \/ RemoveParticipant \/ RemovalFails \/ ReactivateUser

Next == Room \/ Archive \/ LoadSession \/ SignToken \/ RefuseToken

Spec == Init /\ [][Next]_vars

TypeOK ==
    /\ phase \in 1..Len(Phases) /\ status \in {"scheduled", "live", "processing"}
    /\ archiving \in {"none", "listing", "removing"}
    /\ archives \in 0..ArchiveLimit /\ faults \in 0..FaultLimit

Archived == archived /\ archiving = "none" /\ faults = 0 /\ ~lateToken

\* Once somebody is archived he is out of the room of a lesson under way and
\* does not come back with an old token, recorded or not.  Excused: a token
\* signed after the archive for a session found before it, a call that
\* failed, a lesson neither recorded nor in its own time, though its room may
\* be open, and who was not in the room when he was removed from it, whose
\* token nothing is known to have ended.
ArchivedOutOfLesson == Archived /\ ~margin /\ ~absent => ~inRoom /\ ~token
=============================================================================
