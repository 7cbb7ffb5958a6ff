----------------------- MODULE TranscriptionProperties ------------------------
(***************************************************************************)
(* What the transcript of a lesson promises.                               *)
(***************************************************************************)
EXTENDS Transcription

\* Types, and the CHECKs of migration 0008: an id of AssemblyAI once it was
\* sent, a reason with every error, a VTT of saved utterances only.
TypeOK ==
    /\ lesson \in {"processing", "done"}
    /\ transcript \in [status : TranscriptStatuses, ext : Externals \cup {None},
                       error : BOOLEAN, vtt : BOOLEAN, text : 0..(EditLimit + 1)]
    /\ transcript.ext = None => transcript.status \in {"absent", "queued", "error"}
    /\ transcript.status = "error" => transcript.error
    /\ transcript.vtt => transcript.status = "completed"
    /\ jobs \in [Rows -> [state : JobStates, holder : Workers \cup {None}, attempts : Nat]]
    /\ hand \in [Workers -> [stage : Stages, job : Rows \cup {None}, attempt : Nat,
                             seen : TranscriptStatuses, ext : Externals \cup {None},
                             text : 0..(EditLimit + 1), outcome : Outcomes]]
    /\ provider \in [Externals -> {"unused", "working", "completed", "error"}]
    /\ vtt \in 0..(EditLimit + 1)
    /\ failed \subseteq Rows
    /\ spent \in [DOMAIN Limits -> Nat] /\ \A b \in DOMAIN Limits : spent[b] <= Limits[b]

\* The job that takes a transcript of this status further.
NextStep(status) ==
    CASE status = "absent" -> {"ready"}
      [] status = "queued" -> {"submit"}
      [] status = "submitted" -> {"poll"}
      [] status = "fetching" -> {"result"}
      [] status = "completed" -> Renders
      [] status = "error" -> {}

\* A lesson in processing always has the job that takes it further, in the
\* queue or dead there for review: no crash, repeat or late webhook makes the
\* chain of jobs lose its link.
ProcessingHasJob ==
    lesson = "processing" =>
        \E j \in NextStep(transcript.status) : Live(j) \/ jobs[j].state = "dead"

Later(status) ==
    CASE status = "absent" -> {"queued"}
      [] status = "queued" -> {"submitted", "error"}
      [] status = "submitted" -> {"fetching", "error"}
      [] status = "fetching" -> {"completed", "error"}
      [] status \in {"completed", "error"} -> {}

\* A status moves forward only, an AssemblyAI id stays, and what a teacher
\* edited is never overwritten by a repeated asr_result.
ForwardOnly ==
    [][/\ transcript'.status = transcript.status \/ transcript'.status \in Later(transcript.status)
       /\ transcript.ext # None => transcript'.ext = transcript.ext
       /\ transcript'.text >= transcript.text]_vars

\* With one worker, once no rerender is left the VTT has every edit; but one
\* that was given up, or is dead, leaves the old file.
VttIsCurrent ==
    transcript.status = "completed" /\ (\A j \in Renders : ~Live(j)) =>
        \/ vtt = transcript.text /\ transcript.vtt
        \/ transcript.error
        \/ \E j \in Renders : jobs[j].state = "dead"

\* A lesson in processing is done in the end, though AssemblyAI may never
\* answer, unless one of its jobs died.
ProcessingEnds ==
    lesson = "processing" ~> lesson = "done" \/ \E j \in Rows : jobs[j].state = "dead"

\* asr.go, asrPoll: a webhook that arrived turns a late poll into a no-op, so
\* only asr_result may still fail a transcript whose outcome was accepted.
WebhookDisarmsPoll ==
    [][transcript.status = "fetching" /\ transcript'.status = "error" =>
           \E w \in Workers : hand[w].job = "result" /\ hand'[w] # hand[w]]_vars

\* ADR-016: a transcript job buried above the limit, which leaves its lesson in
\* processing, is one whose worker crashed on every attempt.
StuckOnlyIfAbandoned ==
    lesson = "processing" =>
        \A j \in NextStep(transcript.status) \ {"ready"} :
            jobs[j].state = "dead" /\ jobs[j].attempts > MaxAttempts => j \notin failed
=============================================================================
