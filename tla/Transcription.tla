--------------------------- MODULE Transcription ----------------------------
(***************************************************************************)
(* The transcript of one lesson: store/transcripts.go, the worker's jobs   *)
(* recording_ready, asr_submit, asr_poll, asr_result and vtt_render        *)
(* (worker/asr.go), the AssemblyAI webhook and the teacher's edits.        *)
(*                                                                         *)
(* The job queue is taken as module JobQueue shows it to be: a row is      *)
(* claimed, its handler runs step by step beside the webhooks and edits,   *)
(* and only the latest claim settles it; delays (run_at) are left out, so  *)
(* a waiting row may be claimed at once.  AssemblyAI is external: it ends  *)
(* a transcript or never does, and repeats its webhook at will.            *)
(***************************************************************************)
EXTENDS Naturals

CONSTANTS
    Workers,
    Renders,       \* rows for vtt_render jobs; each of the others has one row
    Externals,     \* ids AssemblyAI gives to submitted transcripts
    MaxAttempts,   \* Config.MaxAttempts
    MayOverrun,    \* a live worker may hold a job for over 2*HandlerTimeout
    KeyMayGo,      \* the key of AssemblyAI may be taken out of the environment
    EditLimit,     \* bound: edits of utterances
    FaultLimit,    \* bound: crashes, panics, overruns and lost outcomes
    StopLimit,     \* bound: attempts interrupted by SIGTERM
    None

Steps == {"ready", "submit", "poll", "result"}
Rows == Steps \cup Renders

ASSUME TranscriptionAssumption ==
    /\ MaxAttempts \in Nat \ {0}
    /\ MayOverrun \in BOOLEAN /\ KeyMayGo \in BOOLEAN
    /\ EditLimit \in Nat /\ FaultLimit \in Nat /\ StopLimit \in Nat
    /\ Renders # {} /\ Renders \cap Steps = {}
    /\ None \notin Rows /\ None \notin Externals /\ None \notin Workers

VARIABLES
    lesson,      \* lessons.status, from "processing" on
    transcript,  \* the row of transcripts; text is the version of its utterances
    jobs,        \* the rows of these jobs in the queue
    hand,        \* the handler each worker is running
    provider,    \* AssemblyAI: its transcripts
    vtt,         \* the version of the utterances in transcripts/{lesson_id}.vtt
    failed,      \* history: jobs not done with an attempt that ended in an error
    spent        \* how much of each bound is used up

vars == <<lesson, transcript, jobs, hand, provider, vtt, failed, spent>>

-----------------------------------------------------------------------------

TranscriptStatuses == {"absent", "queued", "submitted", "fetching", "completed", "error"}

\* waiting: unlocked; held: locked; stale: locked for over 2*HandlerTimeout.
JobStates == {"none", "waiting", "held", "stale", "dead", "gone"}

Stages == {"idle", "claimed", "read", "called", "put", "failing", "settling"}
Outcomes == {"none", "ok", "error", "interrupted"}

Idle == [stage |-> "idle", job |-> None, attempt |-> 0, seen |-> "absent",
         ext |-> None, text |-> 0, outcome |-> "none"]

NoJob(state) == [state |-> state, holder |-> None, attempts |-> 0]

Init ==
    /\ lesson = "processing"
    /\ transcript = [status |-> "absent", ext |-> None, error |-> FALSE, vtt |-> FALSE, text |-> 0]
    /\ jobs = [j \in Rows |-> NoJob(IF j = "ready" THEN "waiting" ELSE "none")]
    /\ hand = [w \in Workers |-> Idle]
    /\ provider = [x \in Externals |-> "unused"]
    /\ vtt = 0
    /\ failed = {}
    /\ spent = [edit |-> 0, fault |-> 0, stop |-> 0]

Limits == [edit |-> EditLimit, fault |-> FaultLimit, stop |-> StopLimit]

Spend(what) ==
    /\ spent[what] < Limits[what]
    /\ spent' = [spent EXCEPT ![what] = @ + 1]

Live(j) == jobs[j].state \in {"waiting", "held", "stale"}

Final(x) == provider[x] \in {"completed", "error"}

Waiting(table, j) == table[j].state = "waiting"

Put(table, j) == [table EXCEPT ![j] = NoJob("waiting")]

WaitingRendersMutantCountsHeld == {j \in Renders : Live(j)}

WaitingRenders == {j \in Renders : Waiting(jobs, j)}

FreshRender == CHOOSE j \in Renders : jobs[j].state = "none"

-----------------------------------------------------------------------------
\* The statements of store/transcripts.go

\* QueueTranscript
QueueTranscript ==
    IF transcript.status = "absent"
    THEN /\ transcript' = [transcript EXCEPT !.status = "queued"]
         /\ jobs' = Put(jobs, "submit")
         /\ UNCHANGED lesson
    ELSE UNCHANGED <<transcript, jobs, lesson>>

MarkTranscriptSubmittedMutantNoPoll(x) ==
    /\ transcript' = IF transcript.status # "queued" THEN transcript
                     ELSE [transcript EXCEPT !.status = "submitted", !.ext = x]
    /\ UNCHANGED <<jobs, lesson>>

\* MarkTranscriptSubmitted, with the deferred asr_poll
MarkTranscriptSubmitted(x) ==
    IF transcript.status = "queued"
    THEN /\ transcript' = [transcript EXCEPT !.status = "submitted", !.ext = x]
         /\ jobs' = Put(jobs, "poll")
         /\ UNCHANGED lesson
    ELSE UNCHANGED <<transcript, jobs, lesson>>

Cancelled(table, j) == IF Waiting(table, j) THEN [table EXCEPT ![j] = NoJob("gone")] ELSE table

\* TranscriptWebhook, for the webhook and for asr_poll; an unknown id is left
\* to be delivered again.
TranscriptWebhook(x) ==
    IF transcript.status = "submitted" /\ transcript.ext = x
    THEN /\ transcript' = [transcript EXCEPT !.status = "fetching"]
         /\ jobs' = Cancelled(Put(jobs, "result"), "poll")
         /\ UNCHANGED lesson
    ELSE UNCHANGED <<transcript, jobs, lesson>>

SaveableMutantAnyStatus == transcript.ext # None

Saveable == transcript.status = "fetching"

\* SaveUtterances
SaveUtterances ==
    IF Saveable
    THEN /\ transcript' = [transcript EXCEPT !.status = "completed", !.text = 1]
         /\ jobs' = Put(jobs, FreshRender)
         /\ UNCHANGED lesson
    ELSE UNCHANGED <<transcript, jobs, lesson>>

FinishedMutantLessonStays == lesson

\* finishLesson
Finished == "done"

\* FinishTranscriptVTT
FinishTranscriptVTT ==
    IF transcript.status = "completed"
    THEN /\ transcript' = [transcript EXCEPT !.vtt = TRUE, !.error = FALSE]
         /\ lesson' = Finished
         /\ UNCHANGED jobs
    ELSE UNCHANGED <<transcript, jobs, lesson>>

FailedStatusMutantAlways == "error"

FailedStatus == IF transcript.status = "completed" THEN "completed" ELSE "error"

\* FailTranscript
FailTranscript ==
    /\ transcript' = [transcript EXCEPT !.status = FailedStatus, !.error = TRUE]
    /\ lesson' = Finished
    /\ UNCHANGED jobs

-----------------------------------------------------------------------------
\* jobs.Runner

\* An attempt over the limit is buried without its handler.
Claim(w, j) ==
    /\ hand[w].stage = "idle" /\ jobs[j].state \in {"waiting", "stale"}
    /\ IF jobs[j].attempts + 1 > MaxAttempts
       THEN /\ jobs' = [jobs EXCEPT ![j] = [NoJob("dead") EXCEPT !.attempts = jobs[j].attempts + 1]]
            /\ UNCHANGED hand
       ELSE /\ jobs' = [jobs EXCEPT ![j] = [state |-> "held", holder |-> w, attempts |-> @.attempts + 1]]
            /\ hand' = [hand EXCEPT ![w] = [Idle EXCEPT
                   !.stage = "claimed", !.job = j, !.attempt = jobs'[j].attempts]]
    /\ UNCHANGED <<lesson, transcript, provider, vtt, failed, spent>>

LockExpires(j) ==
    /\ jobs[j].state = "held"
    /\ IF \E w \in Workers : hand[w].job = j /\ jobs[j].holder = w
       THEN MayOverrun /\ Spend("fault")
       ELSE UNCHANGED spent
    /\ jobs' = [jobs EXCEPT ![j].state = "stale"]
    /\ UNCHANGED <<lesson, transcript, hand, provider, vtt, failed>>

Owns(w) ==
    LET row == jobs[hand[w].job]
    IN  /\ row.state \in {"held", "stale"}
        /\ row.holder = w /\ row.attempts = hand[w].attempt

SettledRow(row, h) ==
    CASE h.outcome = "ok" -> NoJob("gone")
      [] h.outcome = "interrupted" -> [NoJob("waiting") EXCEPT !.attempts = row.attempts - 1]
      [] h.outcome = "error" /\ h.attempt >= MaxAttempts ->
             [NoJob("dead") EXCEPT !.attempts = row.attempts]
      [] OTHER -> [NoJob("waiting") EXCEPT !.attempts = row.attempts]

Settle(w) ==
    LET j == hand[w].job
    IN  /\ hand[w].stage = "settling"
        /\ IF Owns(w)
           THEN /\ jobs' = [jobs EXCEPT ![j] = SettledRow(@, hand[w])]
                /\ failed' = CASE hand[w].outcome = "error" -> failed \cup {j}
                               [] hand[w].outcome = "ok" -> failed \ {j}
                               [] OTHER -> failed
           ELSE UNCHANGED <<jobs, failed>>
        /\ hand' = [hand EXCEPT ![w] = Idle]
        /\ UNCHANGED <<lesson, transcript, provider, vtt, spent>>

\* The worker crashes and restarts, or the outcome cannot be written.
Crash(w) ==
    /\ hand[w].stage # "idle"
    /\ Spend("fault")
    /\ hand' = [hand EXCEPT ![w] = Idle]
    /\ UNCHANGED <<lesson, transcript, jobs, provider, vtt, failed>>

-----------------------------------------------------------------------------
\* The handlers

At(w, stage, j) == hand[w].stage = stage /\ hand[w].job = j

Returns(w, outcome) ==
    hand' = [hand EXCEPT ![w] = [Idle EXCEPT !.stage = "settling", !.job = hand[w].job,
                                     !.attempt = hand[w].attempt, !.outcome = outcome]]

\* recordingReady: without AssemblyAI the lesson is done at once.
Ready(w, asr) ==
    /\ At(w, "claimed", "ready")
    /\ asr \/ KeyMayGo
    /\ IF asr THEN QueueTranscript ELSE lesson' = Finished /\ UNCHANGED <<transcript, jobs>>
    /\ Returns(w, "ok")
    /\ UNCHANGED <<provider, vtt, failed, spent>>

\* transcriptStep reads the row of the transcript.
Read(w) ==
    /\ hand[w].stage = "claimed" /\ hand[w].job # "ready"
    /\ hand' = [hand EXCEPT ![w].stage = "read", ![w].seen = transcript.status,
                            ![w].ext = transcript.ext]
    /\ UNCHANGED <<lesson, transcript, jobs, provider, vtt, failed, spent>>

\* The status each step works on.
Expected(j) == CASE j = "submit" -> "queued"
                 [] j = "poll" -> "submitted"
                 [] j = "result" -> "fetching"
                 [] j \in Renders -> "completed"

\* Another status: there is nothing to do.
Skip(w) ==
    /\ hand[w].stage = "read" /\ hand[w].seen # Expected(hand[w].job)
    /\ Returns(w, "ok")
    /\ UNCHANGED <<lesson, transcript, jobs, provider, vtt, failed, spent>>

MayStep(w, stage) == hand[w].stage = stage /\ hand[w].seen = Expected(hand[w].job)

\* A worker restarted without the key of AssemblyAI gives up at once.
NotConfigured(w) ==
    /\ KeyMayGo
    /\ MayStep(w, "read")
    /\ FailTranscript
    /\ Returns(w, "ok")
    /\ UNCHANGED <<provider, vtt, failed, spent>>

\* asrSubmit: AssemblyAI accepts the recording.
SubmitCall(w, x) ==
    /\ MayStep(w, "read") /\ hand[w].job = "submit"
    /\ provider[x] = "unused"
    /\ provider' = [provider EXCEPT ![x] = "working"]
    /\ hand' = [hand EXCEPT ![w].stage = "called", ![w].ext = x]
    /\ UNCHANGED <<lesson, transcript, jobs, vtt, failed, spent>>

SubmitWrite(w) ==
    /\ At(w, "called", "submit")
    /\ MarkTranscriptSubmitted(hand[w].ext)
    /\ Returns(w, "ok")
    /\ UNCHANGED <<provider, vtt, failed, spent>>

\* asrPoll and asrResult ask AssemblyAI; while it is still at work that is an
\* error (Fails).
GetTranscript(w) ==
    /\ MayStep(w, "read") /\ hand[w].job \in {"poll", "result"} /\ Final(hand[w].ext)
    /\ hand' = [hand EXCEPT ![w].stage = "called"]
    /\ UNCHANGED <<lesson, transcript, jobs, provider, vtt, failed, spent>>

PollWrite(w) ==
    /\ At(w, "called", "poll")
    /\ TranscriptWebhook(hand[w].ext)
    /\ Returns(w, "ok")
    /\ UNCHANGED <<provider, vtt, failed, spent>>

ResultWrite(w) ==
    /\ At(w, "called", "result")
    /\ IF provider[hand[w].ext] = "completed" THEN SaveUtterances ELSE FailTranscript
    /\ Returns(w, "ok")
    /\ UNCHANGED <<provider, vtt, failed, spent>>

\* vttRender: read the utterances, overwrite the file, write its key.
RenderRead(w) ==
    /\ MayStep(w, "read") /\ hand[w].job \in Renders
    /\ hand' = [hand EXCEPT ![w].stage = "called", ![w].text = transcript.text]
    /\ UNCHANGED <<lesson, transcript, jobs, provider, vtt, failed, spent>>

RenderPut(w) ==
    /\ hand[w].stage = "called" /\ hand[w].job \in Renders
    /\ vtt' = hand[w].text
    /\ hand' = [hand EXCEPT ![w].stage = "put"]
    /\ UNCHANGED <<lesson, transcript, jobs, provider, failed, spent>>

RenderWrite(w) ==
    /\ hand[w].stage = "put"
    /\ FinishTranscriptVTT
    /\ Returns(w, "ok")
    /\ UNCHANGED <<provider, vtt, failed, spent>>

CanFail(w) == hand[w].stage \in {"claimed", "called", "put"} \/ MayStep(w, "read")

\* transcriptStep gives up on the last attempt of a step, but not when it
\* cannot read the transcript's row; recording_ready never does.
GivesUp(h) == h.stage # "claimed" /\ h.job # "ready" /\ h.attempt >= MaxAttempts

\* A step fails: network, database, AssemblyAI or storage.
Fails(w) ==
    /\ CanFail(w)
    /\ IF GivesUp(hand[w]) THEN hand' = [hand EXCEPT ![w] = [Idle EXCEPT
               !.stage = "failing", !.job = hand[w].job, !.attempt = hand[w].attempt]]
       ELSE Returns(w, "error")
    /\ UNCHANGED <<lesson, transcript, jobs, provider, vtt, failed, spent>>

GiveUp(w) ==
    /\ hand[w].stage = "failing"
    /\ FailTranscript
    /\ Returns(w, "ok")
    /\ UNCHANGED <<provider, vtt, failed, spent>>

\* A panic, or FailTranscript itself fails.
Breaks(w) ==
    /\ CanFail(w) \/ hand[w].stage = "failing"
    /\ Spend("fault")
    /\ Returns(w, "error")
    /\ UNCHANGED <<lesson, transcript, jobs, provider, vtt, failed>>

\* ShutdownGrace is over: the attempt does not count.
Interrupted(w) ==
    /\ CanFail(w) \/ hand[w].stage = "failing"
    /\ Spend("stop")
    /\ Returns(w, "interrupted")
    /\ UNCHANGED <<lesson, transcript, jobs, provider, vtt, failed>>

-----------------------------------------------------------------------------
\* AssemblyAI and the teacher

ProviderEnds(x) ==
    /\ provider[x] = "working"
    /\ \E end \in {"completed", "error"} : provider' = [provider EXCEPT ![x] = end]
    /\ UNCHANGED <<lesson, transcript, jobs, hand, vtt, failed, spent>>

\* handleAssemblyAIWebhook, any number of times
Webhook(x) ==
    /\ Final(x)
    /\ TranscriptWebhook(x)
    /\ UNCHANGED <<hand, provider, vtt, failed, spent>>

\* EditUtterance: the new text, and a rerender unless one waits already.
EditUtterance ==
    /\ transcript.text > 0
    /\ Spend("edit")
    /\ transcript' = [transcript EXCEPT !.text = @ + 1]
    /\ IF WaitingRenders # {} THEN UNCHANGED jobs
       ELSE (\E j \in Renders : jobs[j].state = "none") /\ jobs' = Put(jobs, FreshRender)
    /\ UNCHANGED <<lesson, hand, provider, vtt, failed>>

-----------------------------------------------------------------------------

Handle(w) ==
    \/ \E asr \in BOOLEAN : Ready(w, asr)
    \/ Read(w) \/ Skip(w) \/ NotConfigured(w)
    \/ (\E x \in Externals : SubmitCall(w, x)) \/ SubmitWrite(w)
    \/ GetTranscript(w) \/ PollWrite(w) \/ ResultWrite(w)
    \/ RenderRead(w) \/ RenderPut(w) \/ RenderWrite(w)
    \/ Fails(w) \/ GiveUp(w)

Work(w) == Handle(w) \/ Settle(w) \/ \E j \in Rows : Claim(w, j)

Next ==
    \/ \E w \in Workers : Work(w) \/ Crash(w) \/ Breaks(w) \/ Interrupted(w)
    \/ \E j \in Rows : LockExpires(j)
    \/ \E x \in Externals : ProviderEnds(x) \/ Webhook(x)
    \/ EditUtterance

Spec == Init /\ [][Next]_vars

\* The worker keeps polling and locks expire; AssemblyAI may stay silent.
FairSpec ==
    /\ Spec
    /\ \A w \in Workers : WF_vars(Work(w))
    /\ \A j \in Rows : WF_vars(LockExpires(j))
=============================================================================
