-------------------------- MODULE LessonLifecycle ---------------------------
(***************************************************************************)
(* What the row of a lesson promises to whoever reads it, whatever webhooks,*)
(* jobs and teachers do (lessons.status, recording_key and transcripts):   *)
(* LessonRecording implements it.                                          *)
(***************************************************************************)
CONSTANTS
    Recordings,   \* what may become the lesson's recording
    None

VARIABLES status, recording, transcript

lifecycle == <<status, recording, transcript>>

Init ==
    /\ status = "scheduled" /\ recording = None /\ transcript = FALSE

\* The room opened and its recording began.
Start ==
    /\ status = "scheduled" /\ status' = "live"
    /\ UNCHANGED <<recording, transcript>>

\* Only a lesson that has not begun can be cancelled.
Cancel ==
    /\ status = "scheduled" /\ status' = "cancelled"
    /\ UNCHANGED <<recording, transcript>>

Unrecorded == status = "done" /\ recording = None /\ ~transcript

\* The lesson is over with a recording; one that came late reopens a lesson
\* that was closed without any.
Close(r) ==
    /\ status \in {"scheduled", "live"} \/ Unrecorded
    /\ status' = "processing" /\ recording' = r
    /\ UNCHANGED transcript

\* The lesson is over, and nothing was recorded.
CloseUnrecorded ==
    /\ status \in {"scheduled", "live"} /\ status' = "done"
    /\ UNCHANGED <<recording, transcript>>

\* A transcript is asked for once there is a recording.
Transcribe ==
    /\ recording # None /\ transcript' = TRUE
    /\ UNCHANGED <<status, recording>>

\* The recording is processed, with or without a transcript.
Finish ==
    /\ status = "processing" /\ status' = "done"
    /\ UNCHANGED <<recording, transcript>>

Next ==
    \/ Start \/ Cancel \/ CloseUnrecorded \/ Transcribe \/ Finish
    \/ \E r \in Recordings : Close(r)

Spec == Init /\ [][Next]_lifecycle
=============================================================================
