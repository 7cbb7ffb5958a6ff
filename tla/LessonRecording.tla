-------------------------- MODULE LessonRecording ---------------------------
(***************************************************************************)
(* The recording of one lesson: store/recordings.go, the LiveKit webhooks  *)
(* that drive it (httpapi/webhooks.go), the periodic recording_sweep job   *)
(* (worker.go), and reschedule and cancel (store/lessons.go), which        *)
(* compete for the lesson's row.  Lessons share no state, so one is        *)
(* enough; its id does not appear.                                         *)
(*                                                                         *)
(* LiveKit is external: it runs an Egress per start, which ends on its own *)
(* or when stopped, and delivers webhooks any number of times, in any      *)
(* order, or never.  Postgres transactions are atomic steps except the one *)
(* of StartLessonRecording, which holds the lesson's row locked while it   *)
(* calls LiveKit.                                                          *)
(***************************************************************************)
EXTENDS Naturals, FiniteSets

CONSTANTS
    Egresses,     \* ids LiveKit gives to started Egresses
    Sessions,     \* room sessions, by the sid of their webhooks
    NoSid,        \* the empty sid: it matches any session
    SizeOf,       \* bytes each Egress ends up with
    MoveLimit,    \* bound: reschedules
    CrashLimit,   \* bound: sweeps that end early (crash, database error)
    None

ASSUME LessonRecordingAssumption ==
    /\ IsFiniteSet(Egresses)
    /\ SizeOf \in [Egresses -> Nat]
    /\ \A d, e \in Egresses : SizeOf[d] = SizeOf[e] => d = e  \* ties: by id, any order
    /\ MoveLimit \in Nat /\ CrashLimit \in Nat
    /\ None \notin Egresses /\ None \notin Sessions

VARIABLES
    phase,    \* where now() is with respect to the room's window
    lesson,   \* the lesson's row
    seg,      \* lesson_recordings.status by egress_id
    egress,   \* LiveKit: what each Egress is doing
    session,  \* LiveKit: the room session each Egress was started in
    starter,  \* the open transaction of StartLessonRecording, if any
    sweep,    \* the running recording_sweep handler
    ready,    \* a recording_ready job is in the queue
    dead,     \* which jobs ran out of attempts: recording_ready, one of the transcript's
    excused,  \* history: segments closing did not wait for
    spent     \* how much of each bound is used up

vars == <<phase, lesson, seg, egress, session, starter, sweep, ready, dead, excused, spent>>

-----------------------------------------------------------------------------

\* before the window, in it, past ends_at + RoomClosesAfter, and past
\* ends_at + recordingLostAfter
Phases == {"early", "open", "over", "lost"}
Statuses == {"scheduled", "live", "processing", "done", "cancelled"}
SegStatuses == {"absent", "active", "complete", "failed"}

NoStart == [open |-> FALSE, session |-> None, egress |-> None]
NoSweep == [stage |-> "idle", overdue |-> {}]

Init ==
    /\ phase \in Phases
    /\ lesson = [status |-> "scheduled", recording |-> None, transcript |-> FALSE]
    /\ seg = [e \in Egresses |-> "absent"]
    /\ egress = [e \in Egresses |-> "unused"]
    /\ session = [e \in Egresses |-> None]
    /\ starter = NoStart
    /\ sweep = NoSweep
    /\ ready = FALSE /\ dead = {}
    /\ excused = {}
    /\ spent = [move |-> 0, crash |-> 0]

WithStatus(segs, status) == {e \in Egresses : segs[e] = status}

WindowClosed == phase \in {"over", "lost"}

-----------------------------------------------------------------------------
\* Time and the teacher

Tick ==
    /\ phase # "lost"
    /\ phase' = CASE phase = "early" -> "open"
                  [] phase = "open" -> "over"
                  [] phase = "over" -> "lost"
    /\ UNCHANGED <<dead, lesson, seg, egress, session, starter, sweep, ready, excused, spent>>

\* lessonForUpdate waits for the row (FOR UPDATE) and lets only a scheduled
\* lesson be changed.
Editable == ~starter.open /\ lesson.status = "scheduled"

\* The API checks only starts_at < ends_at: the new time may be any.
RescheduleLesson ==
    /\ Editable
    /\ spent.move < MoveLimit
    /\ spent' = [spent EXCEPT !.move = @ + 1]
    /\ phase' \in Phases
    /\ UNCHANGED <<dead, lesson, seg, egress, session, starter, sweep, ready, excused>>

\* The row goes, and its segments with it (ON DELETE CASCADE).
CancelLesson ==
    /\ Editable
    /\ lesson' = [lesson EXCEPT !.status = "cancelled"]
    /\ seg' = [e \in Egresses |-> "absent"]
    /\ UNCHANGED <<dead, phase, egress, session, starter, sweep, ready, excused, spent>>

-----------------------------------------------------------------------------
\* room_started and participant_joined: StartLessonRecording

SameSession(s, t) == s = t \/ NoSid \in {s, t}

RecordedInMutantSidOnly(s) == \E e \in Egresses : seg[e] = "active" /\ session[e] = s

RecordedIn(s) == \E e \in Egresses : seg[e] = "active" /\ SameSession(session[e], s)

\* The row is taken NOWAIT (a busy row is a 503, and the delivery is repeated)
\* and the segments are read under the lock.
StartBegin(s) ==
    /\ ~starter.open
    /\ lesson.status \in {"scheduled", "live"} /\ phase = "open"
    /\ ~RecordedIn(s)
    /\ starter' = [open |-> TRUE, session |-> s, egress |-> None]
    /\ UNCHANGED <<dead, phase, lesson, seg, egress, session, sweep, ready, excused, spent>>

\* LiveKit starts the Egress.
StartCall(e) ==
    /\ starter.open /\ starter.egress = None
    /\ egress[e] = "unused"
    /\ egress' = [egress EXCEPT ![e] = "recording"]
    /\ session' = [session EXCEPT ![e] = starter.session]
    /\ starter' = [starter EXCEPT !.egress = e]
    /\ UNCHANGED <<dead, phase, lesson, seg, sweep, ready, excused, spent>>

\* The call fails, its reply is lost, the api crashes or the commit fails: the
\* transaction rolls back, and an Egress that did start records on unknown to us.
StartAbort ==
    /\ starter.open
    /\ starter' = NoStart
    /\ UNCHANGED <<dead, phase, lesson, seg, egress, session, sweep, ready, excused, spent>>

InsertedSegmentMutantOverwrites(e) == "active"

\* A segment that egress_ended has already entered wins over the INSERT.
InsertedSegment(e) == IF seg[e] = "absent" THEN "active" ELSE seg[e]

StartCommit ==
    /\ starter.open /\ starter.egress # None
    /\ seg' = [seg EXCEPT ![starter.egress] = InsertedSegment(starter.egress)]
    /\ lesson' = [lesson EXCEPT !.status = "live"]
    /\ starter' = NoStart
    /\ UNCHANGED <<dead, phase, egress, session, sweep, ready, excused, spent>>

-----------------------------------------------------------------------------
\* closeLessonIfOver

LessonToCloseMutantAnyDone(segs) ==
    /\ WindowClosed
    /\ \/ lesson.status \in {"live", "done"}
       \/ lesson.status = "scheduled" /\ \E e \in Egresses : segs[e] # "absent"

LessonToClose(segs) ==
    /\ WindowClosed
    /\ \/ lesson.status = "live"
       \/ lesson.status = "scheduled" /\ \E e \in Egresses : segs[e] # "absent"
       \/ /\ lesson.status = "done" /\ lesson.recording = None /\ ~lesson.transcript
          /\ WithStatus(segs, "complete") # {}

Biggest(es) == CHOOSE e \in es : \A d \in es : SizeOf[d] <= SizeOf[e]

ClosesMutantWithActive(segs) == LessonToClose(segs)

Closes(segs) == LessonToClose(segs) /\ WithStatus(segs, "active") = {}

\* The biggest complete segment is the recording, and recording_ready is
\* queued in the same transaction; without one the lesson is done.
CloseIfOver(segs) ==
    IF ~Closes(segs) THEN UNCHANGED <<lesson, ready>>
    ELSE IF WithStatus(segs, "complete") = {}
    THEN lesson' = [lesson EXCEPT !.status = "done"] /\ UNCHANGED ready
    ELSE /\ lesson' = [lesson EXCEPT !.status = "processing",
                                     !.recording = Biggest(WithStatus(segs, "complete"))]
         /\ ready' = TRUE

-----------------------------------------------------------------------------
\* egress_ended: EndLessonRecording

\* An accepted segment is left alone; a lost one is revived.
EndedSegment(e) == IF seg[e] = "complete" THEN "complete" ELSE egress[e]

RowTakenMutantNoLock == FALSE

RowTaken == starter.open

LessonExistsMutantUnchecked == TRUE

\* The segment is inserted by a SELECT from lessons.
LessonExists == lesson.status # "cancelled"

\* skip: another transaction, short enough to be a step of its own here, holds
\* the lesson's row (SKIP LOCKED).
EgressEnded(e, skip) ==
    LET segs == [seg EXCEPT ![e] = EndedSegment(e)]
    IN  /\ egress[e] \in {"complete", "failed"}
        /\ LessonExists /\ seg[e] # "complete"
        /\ seg' = segs
        /\ excused' = IF seg[e] = "absent" THEN excused \cup {e} ELSE excused
        /\ IF skip \/ RowTaken THEN UNCHANGED <<lesson, ready>> ELSE CloseIfOver(segs)
        /\ UNCHANGED <<dead, phase, egress, session, starter, sweep, spent>>

-----------------------------------------------------------------------------
\* The recording_sweep job

\* RecordingsPastWindow
SweepBegin ==
    /\ sweep.stage = "idle"
    /\ sweep' = [stage |-> "stopping",
                 overdue |-> IF WindowClosed THEN WithStatus(seg, "active") ELSE {}]
    /\ UNCHANGED <<dead, phase, lesson, seg, egress, session, starter, ready, excused, spent>>

\* StopEgress ends a running Egress; a failed call, or an Egress that has
\* ended already, changes nothing, and the sweep goes on.
SweepStop(e) ==
    /\ sweep.stage = "stopping" /\ e \in sweep.overdue
    /\ sweep' = [sweep EXCEPT !.overdue = @ \ {e}]
    /\ IF egress[e] = "recording"
       THEN \E end \in {"recording", "complete", "failed"} : egress' = [egress EXCEPT ![e] = end]
       ELSE UNCHANGED egress
    /\ UNCHANGED <<dead, phase, lesson, seg, session, starter, ready, excused, spent>>

LostMutantNever == {}

Lost == IF phase = "lost" THEN WithStatus(seg, "active") ELSE {}

\* SweepRecordings, first statement: segments whose end never came.
SweepMarkLost ==
    /\ sweep.stage = "stopping" /\ sweep.overdue = {}
    /\ seg' = [e \in Egresses |-> IF e \in Lost THEN "failed" ELSE seg[e]]
    /\ excused' = excused \cup Lost
    /\ sweep' = [sweep EXCEPT !.stage = "closing"]
    /\ UNCHANGED <<dead, phase, lesson, egress, session, starter, ready, spent>>

\* SweepRecordings, then closeLesson in a transaction of its own.
SweepClose ==
    /\ sweep.stage = "closing"
    /\ IF RowTaken THEN UNCHANGED <<lesson, ready>> ELSE CloseIfOver(seg)
    /\ sweep' = NoSweep
    /\ UNCHANGED <<dead, phase, seg, egress, session, starter, excused, spent>>

\* The worker crashes or a statement fails: the next tick starts over.
SweepFails ==
    /\ sweep.stage # "idle"
    /\ spent.crash < CrashLimit
    /\ spent' = [spent EXCEPT !.crash = @ + 1]
    /\ sweep' = NoSweep
    /\ UNCHANGED <<dead, phase, lesson, seg, egress, session, starter, ready, excused>>

-----------------------------------------------------------------------------
\* After the recording

\* finishLesson
Finished(l) == IF l.status = "processing" THEN [l EXCEPT !.status = "done"] ELSE l

\* recordingReady: with AssemblyAI the lesson gets its one transcript, without
\* it the lesson is done.  again: the job is not settled and will be repeated.
RecordingReady(asr, again) ==
    /\ ready
    /\ ready' = again
    /\ lesson' = IF asr THEN [lesson EXCEPT !.transcript = TRUE] ELSE Finished(lesson)
    /\ UNCHANGED <<dead, phase, seg, egress, session, starter, sweep, excused, spent>>

\* The last attempt fails, or is abandoned: the job is dead, and nothing
\* queues another.
ReadyDies ==
    /\ ready
    /\ ready' = FALSE /\ dead' = dead \cup {"ready"}
    /\ UNCHANGED <<phase, lesson, seg, egress, session, starter, sweep, excused, spent>>

\* The transcript pipeline ends (completed or error) in finishLesson.
TranscriptEnds ==
    /\ lesson.transcript /\ lesson.status = "processing"
    /\ lesson' = Finished(lesson)
    /\ UNCHANGED <<dead, phase, seg, egress, session, starter, sweep, ready, excused, spent>>

\* One of its jobs is dead and says nothing of the lesson, see Transcription; a
\* webhook may still finish it.
TranscriptDies ==
    /\ lesson.transcript /\ lesson.status = "processing" /\ "transcript" \notin dead
    /\ dead' = dead \cup {"transcript"}
    /\ UNCHANGED <<phase, lesson, seg, egress, session, starter, sweep, ready, excused, spent>>

-----------------------------------------------------------------------------
\* LiveKit: the room empties, the Egress fails or is aborted

EgressEnds(e) ==
    /\ egress[e] = "recording"
    /\ \E end \in {"complete", "failed"} : egress' = [egress EXCEPT ![e] = end]
    /\ UNCHANGED <<dead, phase, lesson, seg, session, starter, sweep, ready, excused, spent>>

-----------------------------------------------------------------------------

Start ==
    \/ \E s \in Sessions : StartBegin(s)
    \/ \E e \in Egresses : StartCall(e)
    \/ StartAbort \/ StartCommit

Sweep == SweepBegin \/ (\E e \in Egresses : SweepStop(e)) \/ SweepMarkLost \/ SweepClose

Next ==
    \/ Tick \/ RescheduleLesson \/ CancelLesson
    \/ Start
    \/ \E e \in Egresses : EgressEnds(e) \/ \E skip \in BOOLEAN : EgressEnded(e, skip)
    \/ Sweep \/ SweepFails
    \/ \E asr, again \in BOOLEAN : RecordingReady(asr, again)
    \/ ReadyDies \/ TranscriptEnds \/ TranscriptDies

Spec == Init /\ [][Next]_vars

\* Time passes, the sweep job is run every period, an open transaction ends, and
\* the job queue gets a job done or dead (EveryJobEnds of JobQueue,
\* ProcessingEnds of Transcription).  Nothing is assumed of LiveKit or of AssemblyAI.
FairSpec ==
    /\ Spec
    /\ WF_vars(Tick)
    /\ WF_vars(Sweep)
    /\ WF_vars(StartAbort \/ StartCommit)
    /\ WF_vars(ReadyDies \/ \E asr \in BOOLEAN : RecordingReady(asr, FALSE))
    /\ WF_vars("transcript" \notin dead /\ (TranscriptEnds \/ TranscriptDies))
=============================================================================
