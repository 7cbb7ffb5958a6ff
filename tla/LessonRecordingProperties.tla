--------------------- MODULE LessonRecordingProperties ----------------------
(***************************************************************************)
(* What the recording of a lesson promises.                                *)
(***************************************************************************)
EXTENDS LessonRecording

\* Types; a segment is known only for an Egress that LiveKit started, and a
\* cancelled lesson has none: a late egress_ended does not bring one back.
TypeOK ==
    /\ phase \in Phases
    /\ lesson \in [status : Statuses, recording : Egresses \cup {None}, transcript : BOOLEAN]
    /\ seg \in [Egresses -> SegStatuses]
    /\ egress \in [Egresses -> {"unused", "recording", "complete", "failed"}]
    /\ session \in [Egresses -> Sessions \cup {None}]
    /\ starter \in [open : BOOLEAN, session : Sessions \cup {None}, egress : Egresses \cup {None}]
    /\ sweep \in [stage : {"idle", "stopping", "closing"}, overdue : SUBSET Egresses]
    /\ ready \in BOOLEAN /\ dead \subseteq {"ready", "transcript"}
    /\ excused \subseteq Egresses
    /\ spent \in [move : 0..MoveLimit, crash : 0..CrashLimit]
    /\ \A e \in Egresses :
           seg[e] # "absent" => egress[e] # "unused" /\ lesson.status # "cancelled"

\* One room session has at most one segment being written, however many
\* deliveries of room_started and participant_joined race; a segment of unknown
\* session (an empty sid) counts for every session.
OneActivePerSession ==
    \A d, e \in WithStatus(seg, "active") : SameSession(session[d], session[e]) => d = e

\* A lesson that left the room (processing, done) has no segment being written
\* and no start in progress: closing never overtakes a start that holds the row.
ClosedIsQuiet ==
    lesson.status \in {"processing", "done"} =>
        WithStatus(seg, "active") = {} /\ ~starter.open

\* The recording is an accepted segment, and no segment we knew of and waited
\* for is bigger: only those given up as lost, or never entered at their start,
\* may come too late to be chosen.
BiggestWins ==
    lesson.recording # None =>
        /\ seg[lesson.recording] = "complete"
        /\ \A e \in WithStatus(seg, "complete") \ excused : SizeOf[e] <= SizeOf[lesson.recording]

Life == INSTANCE LessonLifecycle WITH
    Recordings <- Egresses,
    status <- lesson.status, recording <- lesson.recording, transcript <- lesson.transcript

\* Webhooks in any order, reschedules, cancels, sweeps and jobs together move
\* the lesson's row only as LessonLifecycle says: forward, except that a late
\* recording reopens a lesson closed without any; a recording once chosen never
\* changes, and a transcript is of a recording.
Lifecycle == Life!Spec

\* A lesson that went live is done in the end, even if LiveKit never says a
\* word after the start; or it stays in processing because a job it waits for
\* is dead: recording_ready before it gave a transcript, or one of the
\* transcript's own.
LiveLessonEnds ==
    lesson.status = "live" ~>
        \/ lesson.status = "done"
        \/ lesson.status = "processing" /\ "transcript" \in dead
        \/ lesson.status = "processing" /\ "ready" \in dead /\ ~lesson.transcript

\* A recording that was accepted, even of a segment nobody knew of or one given
\* up as lost, reaches the lesson (unless the lesson is cancelled).
RecordingReachesLesson ==
    WithStatus(seg, "complete") # {} ~> lesson.recording # None \/ lesson.status = "cancelled"
=============================================================================
