------------------------ MODULE TranscriptionProofs -------------------------
(***************************************************************************)
(* The transcript of a lesson keeps its promises for any number of         *)
(* workers, rerenders, AssemblyAI ids, attempts, edits, crashes and stops, *)
(* with or without overruns.                                               *)
(***************************************************************************)
EXTENDS TranscriptionProperties, TLAPS

\* How far a transcript is: no statement takes it back.
Rank(status) ==
    [absent |-> 0, queued |-> 1, submitted |-> 2, fetching |-> 3, completed |-> 4, error |-> 5][status]

\* The status in which a job's row is written.
WrittenAt(j) == IF j = "ready" THEN "absent" ELSE Expected(j)

Passed(j) == lesson = "done" \/ Rank(transcript.status) > Rank(WrittenAt(j))

\* A row is not there before its transcript is.
RowsFollow ==
    \A j \in Rows : jobs[j].state # "none" => Rank(transcript.status) >= Rank(WrittenAt(j))

TranscriptSound ==
    /\ transcript.status \in {"absent", "queued"} => transcript.ext = None
    /\ transcript.status = "error" => lesson = "done"
    /\ transcript.text = IF transcript.status = "completed" THEN 1 + spent.edit ELSE 0
    /\ transcript.status # "completed" => spent.edit = 0

\* What a busy worker relies on: the row it claimed; what it read of the
\* transcript was true and nothing since went back; it says "ok" only when its
\* step is behind the transcript, or the lesson is done.
HandSound(w) ==
    LET h == hand[w]
    IN  h.stage # "idle" =>
            /\ h.job \in Rows /\ h.attempt \in Nat \ {0}
            /\ jobs[h.job].state # "none"
            /\ h.stage \in {"read", "called"} =>
                   /\ Rank(WrittenAt(h.job)) <= Rank(h.seen)
                   /\ Rank(h.seen) <= Rank(transcript.status)
            /\ h.stage \in {"read", "called", "put", "failing"} => h.job # "ready"
            /\ h.stage = "called" => h.seen = WrittenAt(h.job)
            /\ h.stage = "called" /\ h.job = "submit" => h.ext \in Externals
            /\ h.stage \in {"read", "called"} /\ h.job = "poll" /\ h.seen = "submitted" =>
                   h.ext = transcript.ext /\ h.ext # None
            /\ h.stage = "put" => h.job \in Renders
            /\ h.stage = "settling" /\ h.outcome = "ok" => Passed(h.job)

RowType == [state : JobStates, holder : Workers \cup {None}, attempts : Nat]

\* The rows of the database alone.
DatabaseSound ==
    /\ lesson \in {"processing", "done"}
    /\ transcript \in [status : TranscriptStatuses, ext : Externals \cup {None},
                       error : BOOLEAN, vtt : BOOLEAN, text : 0..(EditLimit + 1)]
    /\ transcript.ext = None => transcript.status \in {"absent", "queued", "error"}
    /\ transcript.status = "error" => transcript.error
    /\ transcript.vtt => transcript.status = "completed"
    /\ jobs \in [Rows -> RowType]
    /\ ProcessingHasJob /\ RowsFollow /\ TranscriptSound

HandType == [stage : Stages, job : Rows \cup {None}, attempt : Nat,
             seen : TranscriptStatuses, ext : Externals \cup {None},
             text : 0..(EditLimit + 1), outcome : Outcomes]

Inv ==
    /\ TypeOK /\ ProcessingHasJob
    /\ RowsFollow /\ TranscriptSound /\ \A w \in Workers : HandSound(w)

\* What every step keeps: nothing goes back.
Advance ==
    /\ transcript'.status = transcript.status \/ transcript'.status \in Later(transcript.status)
    /\ transcript.ext # None => transcript'.ext = transcript.ext
    /\ transcript'.text >= transcript.text
    /\ lesson = "done" => lesson' = "done"
    /\ \A j \in Rows : jobs[j].state # "none" => jobs'[j].state # "none"

-----------------------------------------------------------------------------
\* Lemmas about statuses and rows

\* The rest of the state: AssemblyAI, the file and the histories.
OthersTyped ==
    /\ provider \in [Externals -> {"unused", "working", "completed", "error"}]
    /\ vtt \in 0..(EditLimit + 1)
    /\ failed \subseteq Rows
    /\ spent \in [DOMAIN Limits -> Nat] /\ \A b \in DOMAIN Limits : spent[b] <= Limits[b]

LEMMA InvParts == Inv <=>
    /\ DatabaseSound /\ OthersTyped
    /\ hand \in [Workers -> HandType] /\ \A w \in Workers : HandSound(w)
BY Zenon DEF Inv, TypeOK, DatabaseSound, OthersTyped, HandType, RowType

LEMMA Ranks ==
    /\ Rank("absent") = 0 /\ Rank("queued") = 1 /\ Rank("submitted") = 2
    /\ Rank("fetching") = 3 /\ Rank("completed") = 4 /\ Rank("error") = 5
    /\ \A status \in TranscriptStatuses : Rank(status) \in 0..5
BY DEF Rank, TranscriptStatuses

LEMMA Laters ==
    /\ Later("absent") = {"queued"}
    /\ Later("queued") = {"submitted", "error"}
    /\ Later("submitted") = {"fetching", "error"}
    /\ Later("fetching") = {"completed", "error"}
    /\ Later("completed") = {} /\ Later("error") = {}
BY DEF Later

LEMMA NextSteps ==
    /\ NextStep("absent") = {"ready"} /\ NextStep("queued") = {"submit"}
    /\ NextStep("submitted") = {"poll"} /\ NextStep("fetching") = {"result"}
    /\ NextStep("completed") = Renders /\ NextStep("error") = {}
BY DEF NextStep

LEMMA LaterRanks ==
    ASSUME NEW old \in TranscriptStatuses, NEW new \in TranscriptStatuses,
           new = old \/ new \in Later(old)
    PROVE  Rank(old) <= Rank(new)
BY Ranks, Laters DEF TranscriptStatuses

LEMMA StepNames ==
    /\ "ready" \in Rows /\ "submit" \in Rows /\ "poll" \in Rows /\ "result" \in Rows
    /\ "ready" \notin Renders /\ "submit" \notin Renders
    /\ "poll" \notin Renders /\ "result" \notin Renders
    /\ Renders \subseteq Rows /\ None \notin Rows /\ None \notin Externals
    /\ Rows = {"ready", "submit", "poll", "result"} \cup Renders
BY TranscriptionAssumption DEF Rows, Steps

LEMMA Writings ==
    /\ WrittenAt("ready") = "absent" /\ WrittenAt("submit") = "queued"
    /\ WrittenAt("poll") = "submitted" /\ WrittenAt("result") = "fetching"
    /\ \A r \in Renders : WrittenAt(r) = "completed"
    /\ \A j \in Rows : WrittenAt(j) \in TranscriptStatuses
    /\ \A j \in Rows \ {"ready"} : Expected(j) = WrittenAt(j)
BY StepNames DEF WrittenAt, Expected, TranscriptStatuses

\* A row is written when its transcript reaches the status of its step.
LEMMA Following ==
    ASSUME DatabaseSound
    PROVE  /\ transcript.status = "absent" =>
                  \A j \in Rows \ {"ready"} : jobs[j].state = "none"
           /\ transcript.status # "completed" /\ transcript.status # "error" =>
                  \A r \in Renders : jobs[r].state = "none"
<1>1. transcript.status \in TranscriptStatuses /\ Rank(transcript.status) \in 0..5
  BY Ranks DEF DatabaseSound
<1>2. \A j \in Rows \ {"ready"} : Rank(WrittenAt(j)) \in 1..5
  BY Writings, StepNames, Ranks
<1>3. \A r \in Renders : Rank(WrittenAt(r)) = 4
  BY Writings, Ranks
<1>4. transcript.status # "completed" /\ transcript.status # "error" =>
          Rank(transcript.status) < 4
  BY <1>1, Ranks DEF TranscriptStatuses
<1>5. \A j \in Rows : jobs[j].state = "none" \/ Rank(transcript.status) >= Rank(WrittenAt(j))
  BY DEF DatabaseSound, RowsFollow
<1>6. transcript.status = "absent" => \A j \in Rows \ {"ready"} : jobs[j].state = "none"
  BY <1>1, <1>2, <1>5, Ranks
<1>7. transcript.status # "completed" /\ transcript.status # "error" =>
          \A r \in Renders : jobs[r].state = "none"
  BY <1>1, <1>3, <1>4, <1>5, StepNames
<1> QED BY <1>6, <1>7

LEMMA Putting ==
    ASSUME NEW table \in [Rows -> RowType], NEW j \in Rows
    PROVE  /\ Put(table, j) \in [Rows -> RowType]
           /\ Put(table, j)[j].state = "waiting"
           /\ \A k \in Rows \ {j} : Put(table, j)[k] = table[k]
BY DEF Put, NoJob, RowType, JobStates

LEMMA Cancelling ==
    ASSUME NEW table \in [Rows -> RowType], NEW j \in Rows
    PROVE  /\ Cancelled(table, j) \in [Rows -> RowType]
           /\ table[j].state # "none" => Cancelled(table, j)[j].state # "none"
           /\ table[j].state = "none" => Cancelled(table, j)[j].state = "none"
           /\ \A k \in Rows \ {j} : Cancelled(table, j)[k] = table[k]
BY DEF Cancelled, Waiting, NoJob, RowType, JobStates

LEMMA RenderIsFresh ==
    ASSUME \E r \in Renders : jobs[r].state = "none"
    PROVE  FreshRender \in Renders /\ jobs[FreshRender].state = "none"
BY DEF FreshRender

-----------------------------------------------------------------------------
\* The statements of the store

\* The types and the CHECKs of the three tables.
DatabaseTyped ==
    /\ lesson \in {"processing", "done"}
    /\ transcript \in [status : TranscriptStatuses, ext : Externals \cup {None},
                       error : BOOLEAN, vtt : BOOLEAN, text : 0..(EditLimit + 1)]
    /\ transcript.ext = None => transcript.status \in {"absent", "queued", "error"}
    /\ transcript.status = "error" => transcript.error
    /\ transcript.vtt => transcript.status = "completed"
    /\ jobs \in [Rows -> RowType]

LEMMA DatabaseParts ==
    DatabaseSound <=> DatabaseTyped /\ ProcessingHasJob /\ RowsFollow /\ TranscriptSound
BY Zenon DEF DatabaseSound, DatabaseTyped

\* Rows stay behind their transcript when it goes forward and every new row is
\* one of its step.
LEMMA RowsFollowOn ==
    ASSUME DatabaseSound, DatabaseTyped', Advance,
           \A j \in Rows : jobs'[j].state # "none" =>
               jobs[j].state # "none" \/ Rank(transcript'.status) >= Rank(WrittenAt(j))
    PROVE  RowsFollow'
<1>1. transcript.status \in TranscriptStatuses /\ transcript'.status \in TranscriptStatuses
  BY DEF DatabaseSound, DatabaseTyped
<1>2. Rank(transcript.status) <= Rank(transcript'.status)
  BY <1>1, LaterRanks DEF Advance
<1>3. /\ Rank(transcript.status) \in 0..5 /\ Rank(transcript'.status) \in 0..5
      /\ \A j \in Rows : Rank(WrittenAt(j)) \in 0..5
  BY <1>1, Ranks, Writings
<1>4. \A j \in Rows : jobs[j].state # "none" => Rank(transcript.status) >= Rank(WrittenAt(j))
  BY DEF DatabaseSound, RowsFollow
<1> QED BY <1>2, <1>3, <1>4 DEF RowsFollow

\* A statement that finds nothing to do.
LEMMA NoStep ==
    ASSUME DatabaseSound, UNCHANGED <<transcript, jobs, lesson, spent>>
    PROVE  DatabaseSound' /\ Advance
<1>1. DatabaseTyped' /\ ProcessingHasJob' /\ RowsFollow' /\ TranscriptSound'
  BY DatabaseParts DEF DatabaseTyped, ProcessingHasJob, RowsFollow, TranscriptSound, Live
<1>2. transcript.text \in 0..(EditLimit + 1)
  BY DEF DatabaseSound
<1>3. Advance
  BY <1>2, TranscriptionAssumption DEF Advance
<1> QED BY <1>1, <1>3, DatabaseParts DEF DatabaseTyped, DatabaseSound

LEMMA QueueTranscriptStep ==
    ASSUME DatabaseSound, QueueTranscript, UNCHANGED spent
    PROVE  /\ DatabaseSound' /\ Advance
           /\ Rank(transcript'.status) > Rank("absent")
<1>0. jobs \in [Rows -> RowType]
  BY DEF DatabaseSound
<1>1. CASE transcript.status # "absent"
  <2>1. DatabaseSound' /\ Advance
    BY <1>1, NoStep DEF QueueTranscript
  <2>2. transcript' = transcript /\ transcript.status \in TranscriptStatuses
    BY <1>1 DEF QueueTranscript, DatabaseSound
  <2> QED BY <1>1, <2>1, <2>2, Ranks DEF TranscriptStatuses
<1>2. CASE transcript.status = "absent"
  <2>1. /\ transcript' = [transcript EXCEPT !.status = "queued"]
        /\ jobs' = Put(jobs, "submit") /\ lesson' = lesson
    BY <1>2 DEF QueueTranscript
  <2>2. DatabaseTyped'
    BY <1>2, <2>1, StepNames, Putting DEF DatabaseTyped, DatabaseSound, TranscriptStatuses
  <2>3. transcript'.status = "queued" /\ transcript'.text = transcript.text
        /\ transcript'.ext = transcript.ext
    BY <2>1 DEF DatabaseSound
  <2>4. jobs'["submit"].state = "waiting" /\ \A j \in Rows \ {"submit"} : jobs'[j] = jobs[j]
    BY <1>0, <2>1, StepNames, Putting
  <2>5. Advance
    BY <1>2, <2>1, <2>3, <2>4, Laters, TranscriptionAssumption DEF DatabaseSound, Advance
  <2>6. RowsFollow'
    BY <2>2, <2>3, <2>4, <2>5, RowsFollowOn, Ranks, Writings
  <2>7. ProcessingHasJob'
    BY <2>3, <2>4, NextSteps DEF ProcessingHasJob, Live
  <2>8. TranscriptSound'
    BY <1>2, <2>3 DEF DatabaseSound, TranscriptSound
  <2> QED BY <2>2, <2>3, <2>5, <2>6, <2>7, <2>8, Ranks DEF DatabaseSound, DatabaseTyped
<1> QED BY <1>1, <1>2

LEMMA MarkTranscriptSubmittedStep ==
    ASSUME DatabaseSound, NEW x \in Externals, MarkTranscriptSubmitted(x), UNCHANGED spent,
           Rank(transcript.status) >= Rank("queued")
    PROVE  /\ DatabaseSound' /\ Advance
           /\ Rank(transcript'.status) > Rank("queued")
<1>0. jobs \in [Rows -> RowType]
  BY DEF DatabaseSound
<1>1. CASE transcript.status # "queued"
  <2>1. DatabaseSound' /\ Advance
    BY <1>1, NoStep DEF MarkTranscriptSubmitted
  <2>2. transcript' = transcript /\ transcript.status \in TranscriptStatuses
    BY <1>1 DEF MarkTranscriptSubmitted, DatabaseSound
  <2> QED BY <1>1, <2>1, <2>2, Ranks DEF TranscriptStatuses
<1>2. CASE transcript.status = "queued"
  <2>1. /\ transcript' = [transcript EXCEPT !.status = "submitted", !.ext = x]
        /\ jobs' = Put(jobs, "poll") /\ lesson' = lesson
    BY <1>2 DEF MarkTranscriptSubmitted
  <2>2. /\ transcript'.status = "submitted" /\ transcript'.text = transcript.text
        /\ transcript'.ext = x /\ transcript.ext = None
    BY <1>2, <2>1 DEF DatabaseSound, TranscriptSound
  <2>3. DatabaseTyped'
    BY <1>2, <2>1, StepNames, Putting DEF DatabaseTyped, DatabaseSound, TranscriptStatuses
  <2>4. jobs'["poll"].state = "waiting" /\ \A j \in Rows \ {"poll"} : jobs'[j] = jobs[j]
    BY <1>0, <2>1, StepNames, Putting
  <2>5. Advance
    BY <1>2, <2>1, <2>2, <2>4, Laters, TranscriptionAssumption DEF DatabaseSound, Advance
  <2>6. RowsFollow'
    BY <2>2, <2>3, <2>4, <2>5, RowsFollowOn, Ranks, Writings
  <2>7. ProcessingHasJob'
    BY <2>2, <2>4, NextSteps DEF ProcessingHasJob, Live
  <2>8. TranscriptSound'
    BY <1>2, <2>2 DEF DatabaseSound, TranscriptSound
  <2> QED BY <2>2, <2>3, <2>5, <2>6, <2>7, <2>8, Ranks DEF DatabaseSound, DatabaseTyped
<1> QED BY <1>1, <1>2

LEMMA TranscriptWebhookStep ==
    ASSUME DatabaseSound, NEW x, TranscriptWebhook(x), UNCHANGED spent
    PROVE  /\ DatabaseSound' /\ Advance
           /\ transcript.ext = x => transcript'.status # "submitted"
<1>0. jobs \in [Rows -> RowType]
  BY DEF DatabaseSound
<1>1. CASE ~(transcript.status = "submitted" /\ transcript.ext = x)
  BY <1>1, NoStep DEF TranscriptWebhook
<1>2. CASE transcript.status = "submitted" /\ transcript.ext = x
  <2>1. /\ transcript' = [transcript EXCEPT !.status = "fetching"]
        /\ jobs' = Cancelled(Put(jobs, "result"), "poll") /\ lesson' = lesson
    BY <1>2 DEF TranscriptWebhook
  <2>2. /\ transcript'.status = "fetching" /\ transcript'.text = transcript.text
        /\ transcript'.ext = transcript.ext
    BY <2>1 DEF DatabaseSound
  <2>3. /\ Put(jobs, "result") \in [Rows -> RowType]
        /\ Put(jobs, "result")["result"].state = "waiting"
        /\ \A k \in Rows \ {"result"} : Put(jobs, "result")[k] = jobs[k]
    BY <1>0, StepNames, Putting
  <2>4. /\ jobs' \in [Rows -> RowType]
        /\ jobs'["result"].state = "waiting"
        /\ \A j \in Rows \ {"result", "poll"} : jobs'[j] = jobs[j]
        /\ jobs'["poll"].state = "none" <=> jobs["poll"].state = "none"
    BY <2>1, <2>3, StepNames, Cancelling
  <2>5. DatabaseTyped'
    BY <1>2, <2>1, <2>4 DEF DatabaseTyped, DatabaseSound, TranscriptStatuses
  <2>6. Advance
    BY <1>2, <2>1, <2>2, <2>4, Laters, TranscriptionAssumption DEF DatabaseSound, Advance
  <2>7. RowsFollow'
    BY <2>2, <2>4, <2>5, <2>6, RowsFollowOn, Ranks, Writings
  <2>8. ProcessingHasJob'
    BY <2>2, <2>4, NextSteps DEF ProcessingHasJob, Live
  <2>9. TranscriptSound'
    BY <1>2, <2>2 DEF DatabaseSound, TranscriptSound
  <2> QED BY <2>2, <2>5, <2>6, <2>7, <2>8, <2>9 DEF DatabaseSound, DatabaseTyped
<1> QED BY <1>1, <1>2

LEMMA SaveUtterancesStep ==
    ASSUME DatabaseSound, SaveUtterances, UNCHANGED spent,
           Rank(transcript.status) >= Rank("fetching")
    PROVE  /\ DatabaseSound' /\ Advance
           /\ Rank(transcript'.status) > Rank("fetching")
<1>0. jobs \in [Rows -> RowType]
  BY DEF DatabaseSound
<1>1. CASE transcript.status # "fetching"
  <2>1. DatabaseSound' /\ Advance
    BY <1>1, NoStep DEF SaveUtterances, Saveable
  <2>2. transcript' = transcript /\ transcript.status \in TranscriptStatuses
    BY <1>1 DEF SaveUtterances, Saveable, DatabaseSound
  <2> QED BY <1>1, <2>1, <2>2, Ranks DEF TranscriptStatuses
<1>2. CASE transcript.status = "fetching"
  <2>1. /\ transcript' = [transcript EXCEPT !.status = "completed", !.text = 1]
        /\ jobs' = Put(jobs, FreshRender) /\ lesson' = lesson
    BY <1>2 DEF SaveUtterances, Saveable
  <2>2. FreshRender \in Renders /\ FreshRender \in Rows
    BY <1>2, Following, RenderIsFresh, TranscriptionAssumption, StepNames
  <2>3. /\ transcript'.status = "completed" /\ transcript'.text = 1
        /\ transcript'.ext = transcript.ext /\ transcript.text = 0
    BY <1>2, <2>1 DEF DatabaseSound, TranscriptSound
  <2>4. DatabaseTyped'
    <3>1. 1 \in 0..(EditLimit + 1)
      BY TranscriptionAssumption
    <3>2. transcript.ext # None
      BY <1>2 DEF DatabaseSound
    <3>3. jobs' \in [Rows -> RowType]
      BY <1>0, <2>1, <2>2, Putting
    <3> QED BY <1>2, <2>1, <2>3, <3>1, <3>2, <3>3
            DEF DatabaseTyped, DatabaseSound, TranscriptStatuses
  <2>5. jobs'[FreshRender].state = "waiting" /\ \A j \in Rows \ {FreshRender} : jobs'[j] = jobs[j]
    BY <1>0, <2>1, <2>2, Putting
  <2>6. Advance
    BY <1>2, <2>1, <2>2, <2>3, <2>5, Laters DEF DatabaseSound, Advance
  <2>7. RowsFollow'
    BY <2>2, <2>3, <2>4, <2>5, <2>6, RowsFollowOn, Ranks, Writings
  <2>8. ProcessingHasJob'
    BY <2>2, <2>3, <2>5, NextSteps DEF ProcessingHasJob, Live
  <2>9. TranscriptSound'
    BY <1>2, <2>3 DEF DatabaseSound, TranscriptSound
  <2> QED BY <2>3, <2>4, <2>6, <2>7, <2>8, <2>9, Ranks DEF DatabaseSound, DatabaseTyped
<1> QED BY <1>1, <1>2

LEMMA FinishTranscriptVTTStep ==
    ASSUME DatabaseSound, FinishTranscriptVTT, UNCHANGED spent
    PROVE  /\ DatabaseSound' /\ Advance
           /\ transcript.status = "completed" => lesson' = "done"
<1>1. CASE transcript.status # "completed"
  BY <1>1, NoStep DEF FinishTranscriptVTT
<1>2. CASE transcript.status = "completed"
  <2>1. /\ transcript' = [transcript EXCEPT !.vtt = TRUE, !.error = FALSE]
        /\ lesson' = "done" /\ jobs' = jobs
    BY <1>2 DEF FinishTranscriptVTT, Finished
  <2>2. /\ transcript'.status = "completed" /\ transcript'.text = transcript.text
        /\ transcript'.ext = transcript.ext /\ transcript.text \in 0..(EditLimit + 1)
    BY <1>2, <2>1 DEF DatabaseSound
  <2>3. DatabaseTyped'
    BY <1>2, <2>1 DEF DatabaseTyped, DatabaseSound
  <2>4. Advance
    BY <1>2, <2>1, <2>2, TranscriptionAssumption DEF Advance
  <2>5. RowsFollow' /\ ProcessingHasJob' /\ TranscriptSound'
    BY <1>2, <2>1, <2>2 DEF DatabaseSound, RowsFollow, ProcessingHasJob, TranscriptSound
  <2> QED BY <2>1, <2>3, <2>4, <2>5 DEF DatabaseSound, DatabaseTyped
<1> QED BY <1>1, <1>2

LEMMA FailTranscriptStep ==
    ASSUME DatabaseSound, FailTranscript, UNCHANGED spent, transcript.status # "absent"
    PROVE  DatabaseSound' /\ Advance /\ lesson' = "done"
<1>1. /\ transcript' = [transcript EXCEPT !.status = FailedStatus, !.error = TRUE]
      /\ lesson' = "done" /\ jobs' = jobs
  BY DEF FailTranscript, Finished
<1>2. /\ transcript'.status = FailedStatus /\ transcript'.text = transcript.text
      /\ transcript'.ext = transcript.ext /\ transcript.text \in 0..(EditLimit + 1)
      /\ transcript.status \in TranscriptStatuses
  BY <1>1 DEF DatabaseSound
<1>3. \/ FailedStatus = transcript.status
      \/ (FailedStatus = "error" /\ FailedStatus \in Later(transcript.status))
  BY <1>2, Laters DEF FailedStatus, TranscriptStatuses
<1>4. DatabaseTyped'
  BY <1>1, <1>2 DEF DatabaseTyped, DatabaseSound, FailedStatus, TranscriptStatuses
<1>5. Advance
  BY <1>1, <1>2, <1>3, TranscriptionAssumption DEF Advance
<1>6. RowsFollow'
  BY <1>1, <1>4, <1>5, RowsFollowOn
<1>7. ProcessingHasJob'
  BY <1>1 DEF ProcessingHasJob
<1>8. TranscriptSound'
  BY <1>1, <1>2 DEF DatabaseSound, TranscriptSound, FailedStatus
<1> QED BY <1>1, <1>4, <1>5, <1>6, <1>7, <1>8 DEF DatabaseSound, DatabaseTyped

LEMMA EditUtteranceStep ==
    ASSUME DatabaseSound, EditUtterance,
           spent \in [DOMAIN Limits -> Nat], \A b \in DOMAIN Limits : spent[b] <= Limits[b]
    PROVE  DatabaseSound' /\ Advance
<1>1. /\ transcript.text > 0 /\ transcript' = [transcript EXCEPT !.text = @ + 1]
      /\ spent' = [spent EXCEPT !["edit"] = @ + 1] /\ spent.edit < EditLimit /\ lesson' = lesson
      /\ spent.edit \in Nat
  BY DEF EditUtterance, Spend, Limits
<1>2. transcript.status = "completed" /\ transcript.text = 1 + spent.edit
  BY <1>1 DEF DatabaseSound, TranscriptSound
<1>3. /\ transcript'.status = "completed" /\ transcript'.text = 1 + spent'.edit
      /\ transcript'.ext = transcript.ext /\ transcript'.text \in 0..(EditLimit + 1)
      /\ transcript'.text > transcript.text
  <2>1. spent'.edit = spent.edit + 1
    BY <1>1 DEF Limits
  <2>2. transcript'.text = transcript.text + 1 /\ transcript'.status = transcript.status
        /\ transcript'.ext = transcript.ext
    BY <1>1 DEF DatabaseSound
  <2> QED BY <1>1, <1>2, <2>1, <2>2, TranscriptionAssumption
<1>4. jobs \in [Rows -> RowType]
  BY DEF DatabaseSound
<1>5. /\ jobs' \in [Rows -> RowType]
      /\ \A j \in Rows : jobs[j].state # "none" => jobs'[j] = jobs[j]
      /\ \A j \in Rows : jobs'[j] = jobs[j] \/ (j \in Renders /\ jobs'[j].state = "waiting")
  <2>1. CASE WaitingRenders # {}
    BY <1>4, <2>1 DEF EditUtterance
  <2>2. CASE WaitingRenders = {}
    <3>1. FreshRender \in Renders /\ FreshRender \in Rows /\ jobs[FreshRender].state = "none"
      BY <2>2, RenderIsFresh, StepNames DEF EditUtterance
    <3>2. jobs' = Put(jobs, FreshRender)
      BY <2>2 DEF EditUtterance
    <3> QED BY <1>4, <3>1, <3>2, Putting
  <2> QED BY <2>1, <2>2
<1>6. DatabaseTyped'
  <2>1. transcript' \in [status : TranscriptStatuses, ext : Externals \cup {None},
                          error : BOOLEAN, vtt : BOOLEAN, text : 0..(EditLimit + 1)]
    BY <1>1, <1>3 DEF DatabaseSound
  <2>2. transcript'.vtt = transcript.vtt /\ transcript'.error = transcript.error
    BY <1>1 DEF DatabaseSound
  <2> QED BY <1>1, <1>2, <1>3, <1>5, <2>1, <2>2 DEF DatabaseTyped, DatabaseSound
<1>7. Advance
  BY <1>1, <1>2, <1>3, <1>5, TranscriptionAssumption DEF DatabaseSound, Advance
<1>8. RowsFollow'
  BY <1>3, <1>5, <1>6, <1>7, RowsFollowOn, Ranks, Writings
<1>9. ProcessingHasJob'
  BY <1>1, <1>2, <1>3, <1>5, NextSteps, StepNames DEF DatabaseSound, ProcessingHasJob, Live
<1>10. TranscriptSound'
  BY <1>3 DEF TranscriptSound
<1> QED BY <1>6, <1>7, <1>8, <1>9, <1>10 DEF DatabaseSound, DatabaseTyped

-----------------------------------------------------------------------------
\* The queue and the workers

\* A row leaves the queue only when its step is behind the transcript.
LEMMA QueueStep ==
    ASSUME DatabaseSound, UNCHANGED <<lesson, transcript>>, spent'.edit = spent.edit,
           jobs' \in [Rows -> RowType],
           \A j \in Rows :
               /\ jobs'[j].state = "none" <=> jobs[j].state = "none"
               /\ Live(j) \/ jobs[j].state = "dead" =>
                      Live(j)' \/ jobs'[j].state = "dead" \/ Passed(j)
    PROVE  DatabaseSound' /\ Advance
<1>1. DatabaseTyped'
  BY DEF DatabaseSound, DatabaseTyped
<1>2. Advance
  BY TranscriptionAssumption DEF DatabaseSound, Advance
<1>3. RowsFollow'
  BY DEF DatabaseSound, RowsFollow
<1>4. TranscriptSound'
  BY DEF DatabaseSound, TranscriptSound
<1>5. ProcessingHasJob'
  <2>1. SUFFICES ASSUME lesson = "processing"
                 PROVE  \E j \in NextStep(transcript.status) : Live(j)' \/ jobs'[j].state = "dead"
    BY DEF ProcessingHasJob
  <2>2. PICK j \in NextStep(transcript.status) : Live(j) \/ jobs[j].state = "dead"
    BY <2>1 DEF DatabaseSound, ProcessingHasJob
  <2>3. j \in Rows /\ Rank(transcript.status) = Rank(WrittenAt(j))
    <3>1. transcript.status \in TranscriptStatuses
      BY DEF DatabaseSound
    <3> QED BY <3>1, NextSteps, StepNames, Writings DEF TranscriptStatuses
  <2>4. ~Passed(j)
    <3>1. Rank(transcript.status) \in 0..5
      BY Ranks DEF DatabaseSound
    <3> QED BY <2>1, <2>3, <3>1 DEF Passed
  <2> QED BY <2>2, <2>3, <2>4
<1> QED BY <1>1, <1>2, <1>3, <1>4, <1>5 DEF DatabaseSound, DatabaseTyped

\* A worker another actor's step does not touch may still rely on what it did.
LEMMA HandStays ==
    ASSUME Inv, DatabaseSound', Advance, NEW w \in Workers, hand'[w] = hand[w]
    PROVE  HandSound(w)'
<1>1. /\ DatabaseSound /\ HandSound(w)
      /\ hand[w] \in HandType
  BY InvParts
<1>2. /\ transcript.status \in TranscriptStatuses /\ transcript'.status \in TranscriptStatuses
      /\ lesson' \in {"processing", "done"}
  BY <1>1 DEF DatabaseSound
<1>3. Rank(transcript.status) <= Rank(transcript'.status)
  BY <1>2, LaterRanks DEF Advance
<1>4. /\ Rank(transcript.status) \in 0..5 /\ Rank(transcript'.status) \in 0..5
      /\ Rank(hand[w].seen) \in 0..5
      /\ \A j \in Rows : Rank(WrittenAt(j)) \in 0..5
  BY <1>1, <1>2, Ranks, Writings DEF HandType
<1>5. SUFFICES ASSUME hand[w].stage # "idle" PROVE HandSound(w)'
  BY DEF HandSound
<1>6. hand[w].job \in Rows /\ jobs'[hand[w].job].state # "none"
  BY <1>1, <1>5 DEF HandSound, Advance
<1>7. Passed(hand[w].job) => Passed(hand[w].job)'
  BY <1>3, <1>4, <1>6 DEF Passed, Advance
<1>8. hand[w].ext = transcript.ext /\ hand[w].ext # None => hand[w].ext = transcript'.ext
  BY DEF Advance
<1>9. hand[w].stage \in {"read", "called"} =>
          Rank(WrittenAt(hand[w].job)) <= Rank(hand[w].seen) /\ Rank(hand[w].seen) <= Rank(transcript'.status)
  BY <1>1, <1>3, <1>4, <1>5, <1>6 DEF HandSound
<1> QED BY <1>1, <1>5, <1>6, <1>7, <1>8, <1>9 DEF HandSound

LEMMA OneHandMoves ==
    ASSUME Inv, DatabaseSound', Advance, NEW w \in Workers, NEW h \in HandType,
           hand' = [hand EXCEPT ![w] = h], HandSound(w)'
    PROVE  hand' \in [Workers -> HandType] /\ \A v \in Workers : HandSound(v)'
<1>1. hand \in [Workers -> HandType]
  BY InvParts
<1>2. ASSUME NEW v \in Workers, v # w
      PROVE  HandSound(v)'
  BY <1>1, <1>2, HandStays
<1> QED BY <1>1, <1>2

LEMMA IdleTyped == Idle \in HandType
<1>1. 0 \in 0..(EditLimit + 1)
  BY TranscriptionAssumption
<1> QED BY <1>1 DEF Idle, HandType, Stages, Outcomes, TranscriptStatuses

LEMMA HandReturns ==
    ASSUME Inv, DatabaseSound', Advance, NEW w \in Workers, NEW outcome \in Outcomes,
           Returns(w, outcome), hand[w].stage # "idle",
           outcome = "ok" =>
               lesson' = "done" \/ Rank(transcript'.status) > Rank(WrittenAt(hand[w].job))
    PROVE  hand' \in [Workers -> HandType] /\ \A v \in Workers : HandSound(v)'
<1> DEFINE h == [Idle EXCEPT !.stage = "settling", !.job = hand[w].job,
                             !.attempt = hand[w].attempt, !.outcome = outcome]
<1>1. hand[w] \in HandType /\ hand \in [Workers -> HandType] /\ HandSound(w) /\ DatabaseSound
  BY InvParts
<1>2. hand[w].job \in Rows /\ hand[w].attempt \in Nat \ {0} /\ jobs[hand[w].job].state # "none"
  BY <1>1 DEF HandSound
<1>3. h \in HandType /\ h.stage = "settling" /\ h.job = hand[w].job /\ h.outcome = outcome
      /\ h.attempt = hand[w].attempt
  BY <1>1, IdleTyped DEF HandType, Stages, Idle
<1>4. hand' = [hand EXCEPT ![w] = h]
  BY DEF Returns
<1>5. hand'[w] = h
  BY <1>1, <1>4
<1> HIDE DEF h
<1>6. HandSound(w)'
  BY <1>2, <1>3, <1>5 DEF HandSound, Advance, Passed
<1> QED BY <1>3, <1>4, <1>6, OneHandMoves

LEMMA InvNext ==
    ASSUME DatabaseSound', OthersTyped',
           hand' \in [Workers -> HandType], \A w \in Workers : HandSound(w)'
    PROVE  Inv'
BY Zenon DEF Inv, TypeOK, DatabaseSound, OthersTyped, HandType, RowType

LEMMA Spending ==
    ASSUME OthersTyped, NEW what \in {"edit", "fault", "stop"}, Spend(what)
    PROVE  /\ spent' \in [DOMAIN Limits -> Nat]
           /\ \A b \in DOMAIN Limits : spent'[b] <= Limits[b]
           /\ what # "edit" => spent'.edit = spent.edit
BY TranscriptionAssumption DEF OthersTyped, Spend, Limits

LEMMA DatabaseStays ==
    ASSUME DatabaseSound, UNCHANGED <<lesson, transcript, jobs>>, spent'.edit = spent.edit
    PROVE  DatabaseSound' /\ Advance
<1>1. jobs' \in [Rows -> RowType]
  BY DEF DatabaseSound
<1> QED BY <1>1, QueueStep DEF Live

-----------------------------------------------------------------------------
\* Every action keeps the invariant and goes forward

LEMMA InitKeepsInv == Init => Inv
<1> SUFFICES ASSUME Init PROVE Inv
  OBVIOUS
<1>1. DatabaseTyped
  <2>1. \A state \in JobStates : NoJob(state) \in RowType
    BY DEF NoJob, RowType
  <2>2. jobs \in [Rows -> RowType]
    BY <2>1 DEF Init, JobStates
  <2>3. transcript \in [status : TranscriptStatuses, ext : Externals \cup {None},
                        error : BOOLEAN, vtt : BOOLEAN, text : 0..(EditLimit + 1)]
    BY TranscriptionAssumption DEF Init, TranscriptStatuses
  <2> QED BY <2>2, <2>3 DEF Init, DatabaseTyped
<1>2. \A j \in Rows : jobs[j].state = IF j = "ready" THEN "waiting" ELSE "none"
  BY DEF Init, NoJob
<1>3. ProcessingHasJob
  BY <1>2, NextSteps, StepNames DEF Init, ProcessingHasJob, Live
<1>4. RowsFollow
  BY <1>2, Ranks, Writings DEF Init, RowsFollow
<1>5. TranscriptSound
  BY DEF Init, TranscriptSound
<1>6. OthersTyped
  BY TranscriptionAssumption DEF Init, OthersTyped, Limits
<1>7. hand \in [Workers -> HandType] /\ \A w \in Workers : hand[w].stage = "idle"
  BY IdleTyped DEF Init, Idle
<1> QED BY <1>1, <1>3, <1>4, <1>5, <1>6, <1>7, InvParts, DatabaseParts DEF HandSound

LEMMA ReadyStep ==
    ASSUME Inv, NEW w \in Workers, NEW asr \in BOOLEAN, Ready(w, asr)
    PROVE  Inv' /\ Advance
<1>1. DatabaseSound /\ OthersTyped /\ OthersTyped'
  BY InvParts DEF Ready, OthersTyped
<1>2. DatabaseSound' /\ Advance /\ (lesson' = "done" \/ Rank(transcript'.status) > Rank("absent"))
  <2>1. CASE asr
    BY <1>1, <2>1, QueueTranscriptStep DEF Ready
  <2>2. CASE ~asr
    <3>1. UNCHANGED <<transcript, jobs, spent>> /\ lesson' = "done"
      BY <2>2 DEF Ready, Finished
    <3>2. DatabaseSound'
      BY <1>1, <3>1 DEF DatabaseSound, ProcessingHasJob, RowsFollow, TranscriptSound
    <3>3. Advance
      BY <1>1, <3>1, TranscriptionAssumption DEF Advance, DatabaseSound
    <3> QED BY <3>1, <3>2, <3>3
  <2> QED BY <2>1, <2>2
<1>3. hand[w].job = "ready" /\ hand[w].stage # "idle" /\ Returns(w, "ok")
  BY DEF Ready, At
<1>4. hand' \in [Workers -> HandType] /\ \A v \in Workers : HandSound(v)'
  BY <1>2, <1>3, HandReturns, Writings DEF Outcomes
<1> QED BY <1>1, <1>2, <1>4, InvNext

LEMMA ReadStep ==
    ASSUME Inv, NEW w \in Workers, Read(w)
    PROVE  Inv' /\ Advance
<1> DEFINE h == [hand[w] EXCEPT !.stage = "read", !.seen = transcript.status, !.ext = transcript.ext]
<1>1. DatabaseSound /\ OthersTyped /\ OthersTyped' /\ hand[w] \in HandType /\ HandSound(w)
      /\ hand \in [Workers -> HandType]
  BY InvParts DEF Read, OthersTyped
<1>2. DatabaseSound' /\ Advance
  BY <1>1, NoStep DEF Read
<1>3. transcript.status \in TranscriptStatuses /\ transcript.ext \in Externals \cup {None}
      /\ (transcript.status = "submitted" => transcript.ext # None)
      /\ transcript' = transcript /\ jobs' = jobs
  BY <1>1 DEF DatabaseSound, Read
<1>4. hand' = [hand EXCEPT ![w] = h]
  BY <1>1 DEF Read
<1>5. h \in HandType /\ h.stage = "read" /\ h.job = hand[w].job /\ h.attempt = hand[w].attempt
      /\ h.seen = transcript.status /\ h.ext = transcript.ext
  BY <1>1, <1>3 DEF HandType, Stages
<1>6. hand[w].job \in Rows /\ hand[w].job # "ready" /\ hand[w].attempt \in Nat \ {0}
      /\ jobs[hand[w].job].state # "none"
      /\ Rank(WrittenAt(hand[w].job)) <= Rank(transcript.status)
      /\ Rank(transcript.status) \in 0..5
  BY <1>1, <1>3, Ranks DEF HandSound, Read, DatabaseSound, RowsFollow
<1>7. hand'[w] = h
  BY <1>1, <1>4
<1> HIDE DEF h
<1>8. HandSound(w)'
  BY <1>3, <1>5, <1>6, <1>7 DEF HandSound
<1> QED BY <1>1, <1>2, <1>4, <1>5, <1>8, OneHandMoves, InvNext

LEMMA SkipStep ==
    ASSUME Inv, NEW w \in Workers, Skip(w)
    PROVE  Inv' /\ Advance
<1>1. DatabaseSound /\ OthersTyped /\ OthersTyped' /\ hand[w] \in HandType /\ HandSound(w)
  BY InvParts DEF Skip, OthersTyped
<1>2. DatabaseSound' /\ Advance /\ transcript' = transcript
  BY <1>1, NoStep DEF Skip
<1>3. /\ hand[w].job \in Rows \ {"ready"} /\ hand[w].seen \in TranscriptStatuses
      /\ Rank(WrittenAt(hand[w].job)) <= Rank(hand[w].seen)
      /\ Rank(hand[w].seen) <= Rank(transcript.status)
      /\ hand[w].seen # Expected(hand[w].job)
  BY <1>1 DEF HandSound, Skip, HandType
<1>4. /\ hand[w].seen # WrittenAt(hand[w].job) /\ WrittenAt(hand[w].job) \in TranscriptStatuses
      /\ transcript.status \in TranscriptStatuses
  BY <1>1, <1>3, Writings DEF DatabaseSound
<1>5. Rank(transcript'.status) > Rank(WrittenAt(hand[w].job))
  BY <1>2, <1>3, <1>4, Ranks DEF TranscriptStatuses
<1> QED BY <1>1, <1>2, <1>5, HandReturns, InvNext DEF Skip, Outcomes

LEMMA NotConfiguredStep ==
    ASSUME Inv, NEW w \in Workers, NotConfigured(w)
    PROVE  Inv' /\ Advance
<1>1. DatabaseSound /\ OthersTyped /\ OthersTyped' /\ hand[w] \in HandType /\ HandSound(w)
  BY InvParts DEF NotConfigured, OthersTyped
<1>2. transcript.status # "absent"
  BY <1>1, Following DEF HandSound, NotConfigured, MayStep
<1>3. DatabaseSound' /\ Advance /\ lesson' = "done"
  BY <1>1, <1>2, FailTranscriptStep DEF NotConfigured
<1>4. hand[w].stage # "idle"
  BY DEF NotConfigured, MayStep
<1> QED BY <1>1, <1>3, <1>4, HandReturns, InvNext DEF NotConfigured, Outcomes

LEMMA GiveUpStep ==
    ASSUME Inv, NEW w \in Workers, GiveUp(w)
    PROVE  Inv' /\ Advance
<1>1. DatabaseSound /\ OthersTyped /\ OthersTyped' /\ hand[w] \in HandType /\ HandSound(w)
  BY InvParts DEF GiveUp, OthersTyped
<1>2. transcript.status # "absent"
  BY <1>1, Following DEF HandSound, GiveUp
<1>3. DatabaseSound' /\ Advance /\ lesson' = "done"
  BY <1>1, <1>2, FailTranscriptStep DEF GiveUp
<1> QED BY <1>1, <1>3, HandReturns, InvNext DEF GiveUp, Outcomes

LEMMA SubmitCallStep ==
    ASSUME Inv, NEW w \in Workers, NEW x \in Externals, SubmitCall(w, x)
    PROVE  Inv' /\ Advance
<1> DEFINE h == [hand[w] EXCEPT !.stage = "called", !.ext = x]
<1>1. DatabaseSound /\ OthersTyped /\ hand[w] \in HandType /\ HandSound(w)
      /\ hand \in [Workers -> HandType]
  BY InvParts
<1>2. OthersTyped'
  BY <1>1 DEF OthersTyped, SubmitCall
<1>3. DatabaseSound' /\ Advance /\ transcript' = transcript /\ jobs' = jobs
  BY <1>1, NoStep DEF SubmitCall
<1>4. hand' = [hand EXCEPT ![w] = h]
  BY <1>1 DEF SubmitCall
<1>5. /\ h \in HandType /\ h.stage = "called" /\ h.job = hand[w].job /\ h.attempt = hand[w].attempt
      /\ h.seen = hand[w].seen /\ h.ext = x
  BY <1>1 DEF HandType, Stages
<1>6. hand'[w] = h
  BY <1>1, <1>4
<1>7. hand[w].seen = WrittenAt(hand[w].job) /\ hand[w].job = "submit" /\ hand[w].stage = "read"
  BY StepNames, Writings DEF SubmitCall, MayStep
<1> HIDE DEF h
<1>8. HandSound(w)'
  BY <1>1, <1>3, <1>5, <1>6, <1>7 DEF HandSound
<1> QED BY <1>1, <1>2, <1>3, <1>4, <1>5, <1>8, OneHandMoves, InvNext

LEMMA SubmitWriteStep ==
    ASSUME Inv, NEW w \in Workers, SubmitWrite(w)
    PROVE  Inv' /\ Advance
<1>1. DatabaseSound /\ OthersTyped /\ OthersTyped' /\ hand[w] \in HandType /\ HandSound(w)
  BY InvParts DEF SubmitWrite, OthersTyped
<1>2. /\ hand[w].job = "submit" /\ hand[w].stage = "called" /\ hand[w].ext \in Externals
      /\ jobs["submit"].state # "none"
  BY <1>1 DEF HandSound, SubmitWrite, At
<1>3. Rank(transcript.status) >= Rank("queued")
  BY <1>1, <1>2, StepNames, Writings DEF DatabaseSound, RowsFollow
<1>4. DatabaseSound' /\ Advance /\ Rank(transcript'.status) > Rank("queued")
  BY <1>1, <1>2, <1>3, MarkTranscriptSubmittedStep DEF SubmitWrite
<1> QED BY <1>1, <1>2, <1>4, HandReturns, InvNext, Writings DEF SubmitWrite, Outcomes

LEMMA GetTranscriptStep ==
    ASSUME Inv, NEW w \in Workers, GetTranscript(w)
    PROVE  Inv' /\ Advance
<1> DEFINE h == [hand[w] EXCEPT !.stage = "called"]
<1>1. DatabaseSound /\ OthersTyped /\ OthersTyped' /\ hand[w] \in HandType /\ HandSound(w)
      /\ hand \in [Workers -> HandType]
  BY InvParts DEF GetTranscript, OthersTyped
<1>2. DatabaseSound' /\ Advance /\ transcript' = transcript /\ jobs' = jobs
  BY <1>1, NoStep DEF GetTranscript
<1>3. hand' = [hand EXCEPT ![w] = h] /\ hand'[w] = h
  BY <1>1 DEF GetTranscript
<1>4. /\ h \in HandType /\ h.stage = "called" /\ h.job = hand[w].job /\ h.attempt = hand[w].attempt
      /\ h.seen = hand[w].seen /\ h.ext = hand[w].ext
  BY <1>1 DEF HandType, Stages
<1>5. /\ hand[w].seen = WrittenAt(hand[w].job) /\ hand[w].job \in {"poll", "result"}
      /\ hand[w].stage = "read"
  BY StepNames, Writings DEF GetTranscript, MayStep
<1> HIDE DEF h
<1>6. HandSound(w)'
  BY <1>1, <1>2, <1>3, <1>4, <1>5 DEF HandSound
<1> QED BY <1>1, <1>2, <1>3, <1>4, <1>6, OneHandMoves, InvNext

LEMMA PollWriteStep ==
    ASSUME Inv, NEW w \in Workers, PollWrite(w)
    PROVE  Inv' /\ Advance
<1>1. DatabaseSound /\ OthersTyped /\ OthersTyped' /\ hand[w] \in HandType /\ HandSound(w)
  BY InvParts DEF PollWrite, OthersTyped
<1>2. /\ hand[w].job = "poll" /\ hand[w].stage = "called" /\ hand[w].ext = transcript.ext
      /\ jobs["poll"].state # "none"
  BY <1>1, Writings DEF HandSound, PollWrite, At
<1>3. Rank(transcript.status) >= Rank("submitted")
  BY <1>1, <1>2, StepNames, Writings DEF DatabaseSound, RowsFollow
<1>4. DatabaseSound' /\ Advance /\ transcript'.status # "submitted"
  BY <1>1, <1>2, TranscriptWebhookStep DEF PollWrite
<1>5. transcript.status \in TranscriptStatuses /\ transcript'.status \in TranscriptStatuses
  BY <1>1, <1>4 DEF DatabaseSound
<1>6. Rank(transcript'.status) > Rank("submitted")
  BY <1>3, <1>4, <1>5, Ranks, Laters DEF Advance, TranscriptStatuses
<1> QED BY <1>1, <1>2, <1>4, <1>6, HandReturns, InvNext, Writings DEF PollWrite, Outcomes

LEMMA ResultWriteStep ==
    ASSUME Inv, NEW w \in Workers, ResultWrite(w)
    PROVE  Inv' /\ Advance
<1>1. DatabaseSound /\ OthersTyped /\ OthersTyped' /\ hand[w] \in HandType /\ HandSound(w)
  BY InvParts DEF ResultWrite, OthersTyped
<1>2. /\ hand[w].job = "result" /\ hand[w].stage = "called"
      /\ jobs["result"].state # "none"
  BY <1>1 DEF HandSound, ResultWrite, At
<1>3. Rank(transcript.status) >= Rank("fetching") /\ transcript.status # "absent"
  BY <1>1, <1>2, StepNames, Writings, Ranks DEF DatabaseSound, RowsFollow
<1>4. DatabaseSound' /\ Advance /\ (lesson' = "done" \/ Rank(transcript'.status) > Rank("fetching"))
  BY <1>1, <1>3, SaveUtterancesStep, FailTranscriptStep DEF ResultWrite
<1> QED BY <1>1, <1>2, <1>4, HandReturns, InvNext, Writings DEF ResultWrite, Outcomes

LEMMA RenderReadStep ==
    ASSUME Inv, NEW w \in Workers, RenderRead(w)
    PROVE  Inv' /\ Advance
<1> DEFINE h == [hand[w] EXCEPT !.stage = "called", !.text = transcript.text]
<1>1. DatabaseSound /\ OthersTyped /\ OthersTyped' /\ hand[w] \in HandType /\ HandSound(w)
      /\ hand \in [Workers -> HandType]
  BY InvParts DEF RenderRead, OthersTyped
<1>2. DatabaseSound' /\ Advance /\ transcript' = transcript /\ jobs' = jobs
  BY <1>1, NoStep DEF RenderRead
<1>3. hand' = [hand EXCEPT ![w] = h] /\ hand'[w] = h
  BY <1>1 DEF RenderRead
<1>4. transcript.text \in 0..(EditLimit + 1)
  BY <1>1 DEF DatabaseSound
<1>5. /\ h \in HandType /\ h.stage = "called" /\ h.job = hand[w].job /\ h.attempt = hand[w].attempt
      /\ h.seen = hand[w].seen
  BY <1>1, <1>4 DEF HandType, Stages
<1>6. /\ hand[w].seen = WrittenAt(hand[w].job) /\ hand[w].job \in Renders
      /\ hand[w].job \notin {"ready", "submit", "poll"} /\ hand[w].stage = "read"
  BY StepNames, Writings DEF RenderRead, MayStep
<1> HIDE DEF h
<1>7. HandSound(w)'
  BY <1>1, <1>2, <1>3, <1>5, <1>6 DEF HandSound
<1> QED BY <1>1, <1>2, <1>3, <1>5, <1>7, OneHandMoves, InvNext

LEMMA RenderPutStep ==
    ASSUME Inv, NEW w \in Workers, RenderPut(w)
    PROVE  Inv' /\ Advance
<1> DEFINE h == [hand[w] EXCEPT !.stage = "put"]
<1>1. DatabaseSound /\ OthersTyped /\ hand[w] \in HandType /\ HandSound(w)
      /\ hand \in [Workers -> HandType]
  BY InvParts
<1>2. OthersTyped'
  BY <1>1 DEF OthersTyped, RenderPut, HandType
<1>3. DatabaseSound' /\ Advance /\ transcript' = transcript /\ jobs' = jobs
  BY <1>1, NoStep DEF RenderPut
<1>4. hand' = [hand EXCEPT ![w] = h] /\ hand'[w] = h
  BY <1>1 DEF RenderPut
<1>5. h \in HandType /\ h.stage = "put" /\ h.job = hand[w].job /\ h.attempt = hand[w].attempt
  BY <1>1 DEF HandType, Stages
<1>6. hand[w].job \in Renders /\ hand[w].job # "ready" /\ hand[w].stage = "called"
  BY StepNames DEF RenderPut
<1> HIDE DEF h
<1>7. HandSound(w)'
  BY <1>1, <1>3, <1>4, <1>5, <1>6 DEF HandSound
<1> QED BY <1>1, <1>2, <1>3, <1>4, <1>5, <1>7, OneHandMoves, InvNext

LEMMA RenderWriteStep ==
    ASSUME Inv, NEW w \in Workers, RenderWrite(w)
    PROVE  Inv' /\ Advance
<1>1. DatabaseSound /\ OthersTyped /\ OthersTyped' /\ hand[w] \in HandType /\ HandSound(w)
  BY InvParts DEF RenderWrite, OthersTyped
<1>2. hand[w].job \in Renders /\ hand[w].job \in Rows /\ jobs[hand[w].job].state # "none"
  BY <1>1, StepNames DEF HandSound, RenderWrite
<1>3. transcript.status \in {"completed", "error"}
  BY <1>1, <1>2, Following DEF HandSound
<1>4. DatabaseSound' /\ Advance /\ lesson' = "done"
  <2>1. DatabaseSound' /\ Advance /\ (transcript.status = "completed" => lesson' = "done")
    BY <1>1, FinishTranscriptVTTStep DEF RenderWrite
  <2>2. transcript.status = "error" => lesson = "done"
    BY <1>1 DEF DatabaseSound, TranscriptSound
  <2> QED BY <1>3, <2>1, <2>2 DEF Advance
<1> QED BY <1>1, <1>4, HandReturns, InvNext DEF RenderWrite, Outcomes

LEMMA FailsStep ==
    ASSUME Inv, NEW w \in Workers, Fails(w)
    PROVE  Inv' /\ Advance
<1>1. DatabaseSound /\ OthersTyped /\ OthersTyped' /\ hand[w] \in HandType /\ HandSound(w)
      /\ hand \in [Workers -> HandType]
  BY InvParts DEF Fails, OthersTyped
<1>2. DatabaseSound' /\ Advance /\ jobs' = jobs
  BY <1>1, NoStep DEF Fails
<1>3. hand[w].stage # "idle"
  BY DEF Fails, CanFail, MayStep
<1>4. CASE ~GivesUp(hand[w])
  BY <1>1, <1>2, <1>3, <1>4, HandReturns, InvNext DEF Fails, Outcomes
<1>5. CASE GivesUp(hand[w])
  <2> DEFINE h == [Idle EXCEPT !.stage = "failing", !.job = hand[w].job, !.attempt = hand[w].attempt]
  <2>1. hand' = [hand EXCEPT ![w] = h] /\ hand'[w] = h
    BY <1>1, <1>5 DEF Fails
  <2>2. h \in HandType /\ h.stage = "failing" /\ h.job = hand[w].job /\ h.attempt = hand[w].attempt
    BY <1>1, IdleTyped DEF HandType, Stages, Idle
  <2>3. hand[w].job # "ready"
    BY <1>5 DEF GivesUp
  <2> HIDE DEF h
  <2>4. HandSound(w)'
    BY <1>1, <1>2, <1>3, <2>1, <2>2, <2>3 DEF HandSound
  <2> QED BY <1>1, <1>2, <2>1, <2>2, <2>4, OneHandMoves, InvNext
<1> QED BY <1>4, <1>5

LEMMA BreaksStep ==
    ASSUME Inv, NEW w \in Workers, Breaks(w) \/ Interrupted(w)
    PROVE  Inv' /\ Advance
<1>1. DatabaseSound /\ OthersTyped /\ hand[w] \in HandType
  BY InvParts
<1>2. PICK what \in {"fault", "stop"} : Spend(what)
  BY DEF Breaks, Interrupted
<1>3. OthersTyped' /\ spent'.edit = spent.edit
  BY <1>1, <1>2, Spending DEF OthersTyped, Breaks, Interrupted
<1>4. DatabaseSound' /\ Advance
  BY <1>1, <1>3, DatabaseStays DEF Breaks, Interrupted
<1>5. hand[w].stage # "idle"
  BY DEF Breaks, Interrupted, CanFail, MayStep
<1>6. PICK outcome \in {"error", "interrupted"} : Returns(w, outcome)
  BY DEF Breaks, Interrupted
<1> QED BY <1>3, <1>4, <1>5, <1>6, HandReturns, InvNext DEF Outcomes

LEMMA IdleIsSound ==
    ASSUME Inv, DatabaseSound', Advance, NEW w \in Workers, hand' = [hand EXCEPT ![w] = Idle]
    PROVE  hand' \in [Workers -> HandType] /\ \A v \in Workers : HandSound(v)'
<1>1. hand \in [Workers -> HandType]
  BY InvParts
<1>2. hand'[w].stage = "idle"
  BY <1>1 DEF Idle
<1>3. HandSound(w)'
  BY <1>2 DEF HandSound
<1> QED BY <1>3, IdleTyped, OneHandMoves

LEMMA CrashStep ==
    ASSUME Inv, NEW w \in Workers, Crash(w)
    PROVE  Inv' /\ Advance
<1>1. DatabaseSound /\ OthersTyped
  BY InvParts
<1>2. OthersTyped' /\ spent'.edit = spent.edit
  BY <1>1, Spending DEF OthersTyped, Crash
<1>3. DatabaseSound' /\ Advance
  BY <1>1, <1>2, DatabaseStays DEF Crash
<1> QED BY <1>2, <1>3, IdleIsSound, InvNext DEF Crash

LEMMA SettleStep ==
    ASSUME Inv, NEW w \in Workers, Settle(w)
    PROVE  Inv' /\ Advance
<1> DEFINE j == hand[w].job
<1>1. DatabaseSound /\ OthersTyped /\ hand[w] \in HandType /\ HandSound(w)
      /\ jobs \in [Rows -> RowType]
  BY InvParts DEF DatabaseSound
<1>2. j \in Rows /\ hand[w].attempt \in Nat \ {0}
      /\ (hand[w].outcome = "ok" => Passed(j))
  BY <1>1 DEF Settle, HandSound
<1>3. OthersTyped'
  BY <1>1, <1>2 DEF OthersTyped, Settle
<1>4. CASE ~Owns(w)
  <2>1. DatabaseSound' /\ Advance
    BY <1>1, <1>4, NoStep DEF Settle
  <2> QED BY <1>3, <2>1, IdleIsSound, InvNext DEF Settle
<1>5. CASE Owns(w)
  <2> DEFINE row == SettledRow(jobs[j], hand[w])
  <2>1. jobs[j] \in RowType /\ jobs[j].attempts = hand[w].attempt /\ jobs[j].state \in {"held", "stale"}
    BY <1>1, <1>2, <1>5 DEF Owns
  <2>2. jobs[j].attempts \in Nat /\ jobs[j].attempts - 1 \in Nat
    BY <1>2, <2>1
  <2>3. \/ hand[w].outcome = "ok" /\ row = NoJob("gone")
        \/ row = [NoJob("waiting") EXCEPT !.attempts = jobs[j].attempts - 1]
        \/ row = [NoJob("dead") EXCEPT !.attempts = jobs[j].attempts]
        \/ row = [NoJob("waiting") EXCEPT !.attempts = jobs[j].attempts]
    BY DEF SettledRow
  <2>4. row \in RowType /\ row.state \in {"gone", "waiting", "dead"}
        /\ (row.state = "gone" => hand[w].outcome = "ok")
    BY <2>2, <2>3 DEF NoJob, RowType, JobStates
  <2>5. jobs' = [jobs EXCEPT ![j] = row]
    BY <1>5 DEF Settle
  <2> HIDE DEF row
  <2>6. jobs' \in [Rows -> RowType] /\ jobs'[j] = row /\ \A k \in Rows \ {j} : jobs'[k] = jobs[k]
    BY <1>1, <1>2, <2>4, <2>5
  <2>7. \A k \in Rows :
            /\ jobs'[k].state = "none" <=> jobs[k].state = "none"
            /\ Live(k) \/ jobs[k].state = "dead" => Live(k)' \/ jobs'[k].state = "dead" \/ Passed(k)
    BY <1>2, <2>1, <2>4, <2>6 DEF Live
  <2>8. DatabaseSound' /\ Advance
    BY <1>1, <2>6, <2>7, QueueStep DEF Settle
  <2> QED BY <1>3, <2>8, IdleIsSound, InvNext DEF Settle
<1> QED BY <1>4, <1>5

LEMMA ClaimStep ==
    ASSUME Inv, NEW w \in Workers, NEW j \in Rows, Claim(w, j)
    PROVE  Inv' /\ Advance
<1>1. DatabaseSound /\ OthersTyped /\ OthersTyped' /\ hand \in [Workers -> HandType]
      /\ jobs \in [Rows -> RowType] /\ hand[w].stage = "idle" /\ HandSound(w)
  BY InvParts DEF DatabaseSound, OthersTyped, Claim
<1>2. jobs[j] \in RowType /\ jobs[j].state \in {"waiting", "stale"} /\ jobs[j].attempts + 1 \in Nat \ {0}
  BY <1>1 DEF Claim, RowType
<1>3. CASE jobs[j].attempts + 1 > MaxAttempts
  <2> DEFINE row == [NoJob("dead") EXCEPT !.attempts = jobs[j].attempts + 1]
  <2>1. row \in RowType /\ row.state = "dead"
    BY <1>2 DEF NoJob, RowType, JobStates
  <2>2. jobs' = [jobs EXCEPT ![j] = row] /\ hand' = hand
    BY <1>3 DEF Claim
  <2> HIDE DEF row
  <2>3. jobs' \in [Rows -> RowType] /\ jobs'[j] = row /\ \A k \in Rows \ {j} : jobs'[k] = jobs[k]
    BY <1>1, <2>1, <2>2
  <2>4. \A k \in Rows :
            /\ jobs'[k].state = "none" <=> jobs[k].state = "none"
            /\ Live(k) \/ jobs[k].state = "dead" => Live(k)' \/ jobs'[k].state = "dead" \/ Passed(k)
    BY <1>2, <2>1, <2>3 DEF Live
  <2>5. DatabaseSound' /\ Advance
    BY <1>1, <2>3, <2>4, QueueStep DEF Claim
  <2>6. \A v \in Workers : HandSound(v)'
    BY <2>2, <2>5, HandStays
  <2> QED BY <1>1, <2>2, <2>5, <2>6, InvNext
<1>4. CASE ~(jobs[j].attempts + 1 > MaxAttempts)
  <2> DEFINE row == [state |-> "held", holder |-> w, attempts |-> jobs[j].attempts + 1]
             h == [Idle EXCEPT !.stage = "claimed", !.job = j, !.attempt = jobs'[j].attempts]
  <2>1. row \in RowType /\ row.state = "held" /\ row.attempts = jobs[j].attempts + 1
    BY <1>2 DEF RowType, JobStates
  <2>2. jobs' = [jobs EXCEPT ![j] = row] /\ hand' = [hand EXCEPT ![w] = h]
    BY <1>4 DEF Claim
  <2>3. jobs' \in [Rows -> RowType] /\ jobs'[j] = row /\ \A k \in Rows \ {j} : jobs'[k] = jobs[k]
    BY <1>1, <2>1, <2>2
  <2>4. \A k \in Rows :
            /\ jobs'[k].state = "none" <=> jobs[k].state = "none"
            /\ Live(k) \/ jobs[k].state = "dead" => Live(k)' \/ jobs'[k].state = "dead" \/ Passed(k)
    BY <1>2, <2>1, <2>3 DEF Live
  <2>5. DatabaseSound' /\ Advance
    BY <1>1, <2>3, <2>4, QueueStep DEF Claim
  <2>6. h \in HandType /\ h.stage = "claimed" /\ h.job = j /\ h.attempt = jobs[j].attempts + 1
    BY <1>2, <2>1, <2>3, IdleTyped DEF HandType, Stages, Idle
  <2>7. hand'[w] = h
    BY <1>1, <2>2
  <2> HIDE DEF h, row
  <2>8. HandSound(w)'
    BY <1>2, <2>1, <2>3, <2>6, <2>7 DEF HandSound
  <2> QED BY <1>1, <2>2, <2>5, <2>6, <2>8, OneHandMoves, InvNext
<1> QED BY <1>3, <1>4

LEMMA LockExpiresStep ==
    ASSUME Inv, NEW j \in Rows, LockExpires(j)
    PROVE  Inv' /\ Advance
<1>1. DatabaseSound /\ OthersTyped /\ jobs \in [Rows -> RowType]
  BY InvParts DEF DatabaseSound
<1>2. OthersTyped' /\ spent'.edit = spent.edit
  BY <1>1, Spending DEF OthersTyped, LockExpires
<1>3. /\ jobs' \in [Rows -> RowType] /\ jobs'[j].state = "stale" /\ jobs[j].state = "held"
      /\ \A k \in Rows \ {j} : jobs'[k] = jobs[k]
  BY <1>1 DEF LockExpires, RowType, JobStates
<1>4. \A k \in Rows :
          /\ jobs'[k].state = "none" <=> jobs[k].state = "none"
          /\ Live(k) \/ jobs[k].state = "dead" => Live(k)' \/ jobs'[k].state = "dead" \/ Passed(k)
  BY <1>3 DEF Live
<1>5. DatabaseSound' /\ Advance
  BY <1>1, <1>2, <1>3, <1>4, QueueStep DEF LockExpires
<1>6. hand' = hand /\ \A v \in Workers : HandSound(v)'
  BY <1>5, HandStays DEF LockExpires
<1> QED BY <1>2, <1>5, <1>6, InvParts, InvNext

\* AssemblyAI, its webhook and the teacher touch no worker.
LEMMA OutsideStep ==
    ASSUME Inv,
           \/ \E x \in Externals : ProviderEnds(x) \/ Webhook(x)
           \/ EditUtterance
    PROVE  Inv' /\ Advance
<1>1. DatabaseSound /\ OthersTyped
  BY InvParts
<1>2. OthersTyped' /\ DatabaseSound' /\ Advance /\ hand' = hand
  <2>1. CASE \E x \in Externals : ProviderEnds(x)
    BY <1>1, <2>1, NoStep DEF OthersTyped, ProviderEnds
  <2>2. CASE \E x \in Externals : Webhook(x)
    BY <1>1, <2>2, TranscriptWebhookStep DEF OthersTyped, Webhook
  <2>3. CASE EditUtterance
    <3>1. Spend("edit") /\ UNCHANGED <<hand, provider, vtt, failed>>
      BY <2>3 DEF EditUtterance
    <3>2. OthersTyped'
      BY <1>1, <3>1, Spending DEF OthersTyped
    <3>3. DatabaseSound' /\ Advance
      BY <1>1, <2>3, EditUtteranceStep DEF OthersTyped
    <3> QED BY <3>1, <3>2, <3>3
  <2> QED BY <2>1, <2>2, <2>3
<1>3. \A v \in Workers : HandSound(v)'
  BY <1>2, HandStays
<1> QED BY <1>2, <1>3, InvParts, InvNext

\* Every step keeps the invariant and moves the transcript forward, if at all.
LEMMA NextStepLemma ==
    ASSUME Inv, [Next]_vars
    PROVE  Inv' /\ Advance
<1>1. CASE UNCHANGED vars
  <2>1. DatabaseSound' /\ Advance /\ OthersTyped' /\ hand' = hand
    BY <1>1, InvParts, NoStep DEF vars, OthersTyped
  <2> QED BY <2>1, HandStays, InvParts, InvNext
<1>2. ASSUME NEW w \in Workers, Work(w) \/ Crash(w) \/ Breaks(w) \/ Interrupted(w)
      PROVE  Inv' /\ Advance
  BY <1>2, ReadyStep, ReadStep, SkipStep, NotConfiguredStep, SubmitCallStep, SubmitWriteStep,
     GetTranscriptStep, PollWriteStep, ResultWriteStep, RenderReadStep, RenderPutStep,
     RenderWriteStep, FailsStep, GiveUpStep, SettleStep, ClaimStep, CrashStep, BreaksStep
     DEF Work, Handle
<1> QED BY <1>1, <1>2, LockExpiresStep, OutsideStep DEF Next

-----------------------------------------------------------------------------
\* The theorems

LEMMA Invariant == Spec => []Inv
<1>1. Init => Inv
  BY InitKeepsInv
<1>2. Inv /\ [Next]_vars => Inv'
  BY NextStepLemma
<1> QED BY <1>1, <1>2, PTL DEF Spec

\* The tables, the workers and the file keep their types, and the CHECKs of
\* migration 0008 hold in every state.
THEOREM TypeCorrect == Spec => []TypeOK
BY Invariant, PTL DEF Inv

\* The chain recording_ready, asr_submit, asr_poll, asr_result, vtt_render never
\* loses its link: a lesson in processing has its next job, live or dead.
THEOREM ProcessingHasJobCorrect == Spec => []ProcessingHasJob
BY Invariant, PTL DEF Inv

\* No repeat, late webhook, overrun or crash takes a transcript back, changes
\* its AssemblyAI id or overwrites what the teacher edited.
THEOREM ForwardOnlyCorrect == Spec => ForwardOnly
<1>1. Inv /\ [Next]_vars =>
          [/\ transcript'.status = transcript.status \/ transcript'.status \in Later(transcript.status)
           /\ transcript.ext # None => transcript'.ext = transcript.ext
           /\ transcript'.text >= transcript.text]_vars
  BY NextStepLemma DEF Advance
<1> QED BY <1>1, Invariant, PTL DEF Spec, ForwardOnly

-----------------------------------------------------------------------------
\* One worker and the VTT

RenderDue == \E r \in Renders : Waiting(jobs, r)
DeadRender == \E r \in Renders : jobs[r].state = "dead"
Rendered == transcript.vtt /\ vtt = transcript.text

\* What the worker is about to write, or has written, is the current text; or
\* another render waits, or one is dead.
UpToDate(text) == text = transcript.text \/ RenderDue \/ DeadRender

\* The worker's render will bring the VTT up to date, fail or give up.
Rendering(w) ==
    /\ hand[w].stage # "idle" /\ hand[w].job \in Renders
    /\ hand[w].stage = "settling" => hand[w].outcome # "ok"

\* The only worker owns the render it is busy with.
RenderOwned(w) ==
    /\ hand[w].stage = "idle" => hand[w].job = None
    /\ hand[w].stage # "idle" /\ hand[w].job \in Renders =>
           /\ Owns(w)
           /\ hand[w].stage = "called" => UpToDate(hand[w].text)
           /\ hand[w].stage = "put" => UpToDate(vtt)

\* A render of a worker that crashed
Abandoned(w) == \E r \in Renders : Live(r) /\ hand[w].job # r

RenderSound(w) ==
    /\ RenderOwned(w)
    /\ transcript.status = "completed" =>
           Rendered \/ RenderDue \/ DeadRender \/ transcript.error \/ Rendering(w) \/ Abandoned(w)

\* A statement that leaves the renders, the text and, but for a failure, the
\* outcome of the last render alone.
LeavesRenders ==
    /\ \A r \in Renders : jobs'[r] = jobs[r]
    /\ transcript'.text = transcript.text
    /\ transcript'.status = "completed" =>
           /\ transcript.status = "completed"
           /\ transcript'.error \/ (transcript'.error = transcript.error /\ transcript'.vtt = transcript.vtt)

LEMMA RendersAlone ==
    ASSUME NEW w \in Workers, RenderSound(w), vtt' = vtt, LeavesRenders,
           \/ hand'[w] = hand[w]
           \/ /\ hand[w].stage # "idle" /\ hand'[w].stage # "idle"
              /\ hand'[w].job = hand[w].job /\ hand[w].job \notin Renders
    PROVE  RenderSound(w)'
<1>1. (RenderDue <=> RenderDue') /\ (DeadRender <=> DeadRender')
  BY DEF RenderDue, DeadRender, Waiting, LeavesRenders
<1>2. Abandoned(w) => Abandoned(w)'
  BY DEF Abandoned, Live, LeavesRenders
<1>3. Rendering(w) => Rendering(w)'
  BY DEF Rendering
<1>4. RenderOwned(w)'
  BY <1>1 DEF RenderSound, RenderOwned, UpToDate, Owns, LeavesRenders
<1>5. transcript'.status = "completed" /\ Rendered => Rendered' \/ transcript'.error
  BY DEF Rendered, LeavesRenders
<1> QED BY <1>1, <1>2, <1>3, <1>4, <1>5 DEF RenderSound, LeavesRenders

LEMMA Leaving ==
    ASSUME DatabaseSound,
           \/ UNCHANGED <<transcript, jobs>>
           \/ QueueTranscript \/ FailTranscript
           \/ \E x \in Externals \cup {None} : MarkTranscriptSubmitted(x) \/ TranscriptWebhook(x)
    PROVE  LeavesRenders
<1> USE DEF LeavesRenders
<1>1. jobs \in [Rows -> RowType] /\ \A r \in Renders : r \in Rows \ {"submit", "poll", "result"}
  BY StepNames DEF DatabaseSound
<1>2. \A r \in Renders : Put(jobs, "submit")[r] = jobs[r] /\ Put(jobs, "poll")[r] = jobs[r]
  BY <1>1, StepNames, Putting
<1>3. \A r \in Renders : Cancelled(Put(jobs, "result"), "poll")[r] = jobs[r]
  <2>1. Put(jobs, "result") \in [Rows -> RowType] /\ \A r \in Renders : Put(jobs, "result")[r] = jobs[r]
    BY <1>1, StepNames, Putting
  <2> QED BY <1>1, <2>1, StepNames, Cancelling
<1>4. CASE UNCHANGED <<transcript, jobs>>
  BY <1>4
<1>5. CASE QueueTranscript
  BY <1>2, <1>5 DEF QueueTranscript, DatabaseSound
<1>6. CASE FailTranscript
  BY <1>6 DEF FailTranscript, FailedStatus, DatabaseSound
<1>7. ASSUME NEW x \in Externals \cup {None}, MarkTranscriptSubmitted(x)
      PROVE  LeavesRenders
  BY <1>2, <1>7 DEF MarkTranscriptSubmitted, DatabaseSound
<1>8. ASSUME NEW x \in Externals \cup {None}, TranscriptWebhook(x)
      PROVE  LeavesRenders
  BY <1>3, <1>8 DEF TranscriptWebhook, DatabaseSound
<1> QED BY <1>4, <1>5, <1>6, <1>7, <1>8

\* The worker at a job that is no render
LEMMA OtherJobStep ==
    ASSUME Inv, NEW w \in Workers, RenderSound(w), hand[w].job \notin Renders,
           Handle(w) \/ Breaks(w) \/ Interrupted(w)
    PROVE  RenderSound(w)'
<1>1. DatabaseSound /\ HandSound(w) /\ hand[w] \in HandType /\ hand \in [Workers -> HandType]
  BY InvParts
<1>2. hand[w].stage # "idle" /\ hand[w].stage # "put" /\ ~RenderRead(w) /\ ~RenderPut(w) /\ ~RenderWrite(w)
  BY <1>1 DEF HandSound, Handle, Ready, Read, Skip, NotConfigured, SubmitCall, SubmitWrite, GetTranscript,
     PollWrite, ResultWrite, RenderRead, RenderPut, RenderWrite, Fails, GiveUp, Breaks, Interrupted,
     At, MayStep, CanFail
<1>3. hand'[w].stage # "idle" /\ hand'[w].job = hand[w].job
  <2>1. ASSUME NEW outcome, Returns(w, outcome)
        PROVE  hand'[w].stage # "idle" /\ hand'[w].job = hand[w].job
    BY <1>1, <2>1 DEF Returns, Idle
  <2>2. CASE Read(w) \/ (\E x \in Externals : SubmitCall(w, x)) \/ GetTranscript(w)
    BY <1>1, <2>2 DEF Read, SubmitCall, GetTranscript, HandType
  <2>3. CASE Fails(w)
    BY <1>1, <2>1, <2>3 DEF Fails, Idle
  <2> QED BY <1>2, <2>1, <2>2, <2>3 DEF Handle, Ready, Skip, NotConfigured, SubmitWrite, PollWrite,
             ResultWrite, GiveUp, Breaks, Interrupted
<1>4. ASSUME LeavesRenders, vtt' = vtt
      PROVE  RenderSound(w)'
  BY <1>2, <1>3, <1>4, RendersAlone
<1>5. CASE Read(w) \/ Skip(w) \/ (\E x \in Externals : SubmitCall(w, x)) \/ GetTranscript(w)
           \/ Fails(w) \/ Breaks(w) \/ Interrupted(w)
  BY <1>1, <1>4, <1>5, Leaving DEF Read, Skip, SubmitCall, GetTranscript, Fails, Breaks, Interrupted
<1>6. CASE \E asr \in BOOLEAN : Ready(w, asr)
  BY <1>1, <1>4, <1>6, Leaving DEF Ready
<1>7. CASE NotConfigured(w) \/ GiveUp(w)
  BY <1>1, <1>4, <1>7, Leaving DEF NotConfigured, GiveUp
<1>8. CASE SubmitWrite(w) \/ PollWrite(w)
  <2>1. hand[w].ext \in Externals \cup {None}
    BY <1>1 DEF HandType
  <2> QED BY <1>1, <1>4, <1>8, <2>1, Leaving DEF SubmitWrite, PollWrite
<1>9. CASE ResultWrite(w)
  <2>1. CASE FailTranscript \/ UNCHANGED <<transcript, jobs>>
    BY <1>1, <1>4, <1>9, <2>1, Leaving DEF ResultWrite
  <2>2. CASE SaveUtterances /\ Saveable
    <3>1. FreshRender \in Renders /\ FreshRender \in Rows /\ jobs \in [Rows -> RowType]
      BY <1>1, <2>2, Following, RenderIsFresh, TranscriptionAssumption, StepNames DEF Saveable, DatabaseSound
    <3>2. RenderDue'
      BY <2>2, <3>1, Putting DEF SaveUtterances, RenderDue, Waiting
    <3>3. RenderOwned(w)'
      BY <1>2, <1>3 DEF RenderOwned
    <3> QED BY <3>2, <3>3 DEF RenderSound
  <2> QED BY <1>9, <2>1, <2>2 DEF ResultWrite, SaveUtterances
<1> QED BY <1>2, <1>5, <1>6, <1>7, <1>8, <1>9 DEF Handle

\* The worker at a render that goes on, fails or gives up
LEMMA RenderGoesOn ==
    ASSUME NEW w \in Workers, RenderSound(w), Rendering(w)', RenderOwned(w)'
    PROVE  RenderSound(w)'
BY DEF RenderSound

LEMMA RenderStep ==
    ASSUME Inv, NEW w \in Workers, RenderSound(w), hand[w].job \in Renders,
           Handle(w) \/ Breaks(w) \/ Interrupted(w)
    PROVE  RenderSound(w)'
<1>1. DatabaseSound /\ HandSound(w) /\ hand[w] \in HandType /\ hand \in [Workers -> HandType]
  BY InvParts
<1>2. hand[w].job \notin {"ready", "submit", "poll", "result"} /\ WrittenAt(hand[w].job) = "completed"
      /\ Expected(hand[w].job) = "completed" /\ hand[w].job # None
  BY StepNames, Writings
<1>3. hand[w].stage # "idle" /\ jobs' = jobs
  BY <1>2 DEF Handle, Ready, Read, Skip, NotConfigured, SubmitCall, SubmitWrite, GetTranscript,
     PollWrite, ResultWrite, RenderRead, RenderPut, RenderWrite, Fails, GiveUp, Breaks, Interrupted,
     At, MayStep, CanFail, FailTranscript, FinishTranscriptVTT
<1>4. Owns(w) /\ (hand[w].stage = "called" => UpToDate(hand[w].text))
      /\ (hand[w].stage = "put" => UpToDate(vtt))
  BY <1>3 DEF RenderSound, RenderOwned
<1>5. ASSUME hand'[w].stage \notin {"idle", "called", "put"}, hand'[w].job = hand[w].job,
             hand'[w].attempt = hand[w].attempt
      PROVE  RenderOwned(w)'
  BY <1>3, <1>4, <1>5 DEF RenderOwned, Owns
<1>6. ASSUME NEW outcome, Returns(w, outcome)
      PROVE  hand'[w].stage = "settling" /\ hand'[w].outcome = outcome /\ RenderOwned(w)'
             /\ hand'[w].job = hand[w].job
  <2>1. hand'[w].stage = "settling" /\ hand'[w].outcome = outcome /\ hand'[w].job = hand[w].job
        /\ hand'[w].attempt = hand[w].attempt
    BY <1>1, <1>6 DEF Returns, Idle
  <2> QED BY <1>5, <2>1
<1>7. CASE Read(w)
  <2>1. hand'[w].stage = "read" /\ hand'[w].job = hand[w].job /\ hand'[w].attempt = hand[w].attempt
    BY <1>1, <1>7 DEF Read, HandType
  <2> QED BY <1>5, <2>1, RenderGoesOn DEF Rendering
<1>8. CASE RenderRead(w)
  <2>1. /\ hand'[w].stage = "called" /\ hand'[w].job = hand[w].job /\ hand'[w].attempt = hand[w].attempt
        /\ hand'[w].text = transcript.text /\ transcript' = transcript
    BY <1>1, <1>8 DEF RenderRead, HandType
  <2>2. RenderOwned(w)'
    BY <1>3, <1>4, <2>1 DEF RenderOwned, Owns, UpToDate
  <2> QED BY <2>1, <2>2, RenderGoesOn DEF Rendering
<1>9. CASE RenderPut(w)
  <2>1. /\ hand'[w].stage = "put" /\ hand'[w].job = hand[w].job /\ hand'[w].attempt = hand[w].attempt
        /\ transcript' = transcript /\ vtt' = hand[w].text /\ hand[w].stage = "called"
    BY <1>1, <1>9 DEF RenderPut, HandType
  <2>2. UpToDate(vtt)'
    BY <1>3, <1>4, <2>1 DEF UpToDate, RenderDue, DeadRender, Waiting
  <2>3. RenderOwned(w)'
    BY <1>3, <1>4, <2>1, <2>2 DEF RenderOwned, Owns
  <2> QED BY <2>1, <2>3, RenderGoesOn DEF Rendering
<1>10. CASE RenderWrite(w)
  <2>1. Returns(w, "ok") /\ FinishTranscriptVTT /\ vtt' = vtt /\ UpToDate(vtt)
    BY <1>4, <1>10 DEF RenderWrite
  <2>2. transcript'.status = "completed" => transcript'.vtt /\ transcript'.text = transcript.text
    BY <1>1, <2>1 DEF FinishTranscriptVTT, DatabaseSound
  <2>3. transcript'.status = "completed" => Rendered' \/ RenderDue' \/ DeadRender'
    BY <1>3, <2>1, <2>2 DEF UpToDate, Rendered, RenderDue, DeadRender, Waiting
  <2> QED BY <1>6, <2>1, <2>3 DEF RenderSound
<1>11. CASE NotConfigured(w) \/ GiveUp(w)
  <2>1. Returns(w, "ok") /\ FailTranscript
    BY <1>11 DEF NotConfigured, GiveUp
  <2>2. transcript'.error
    BY <1>1, <2>1 DEF FailTranscript, DatabaseSound
  <2> QED BY <1>6, <2>1, <2>2 DEF RenderSound
<1>12. CASE Skip(w)
  <2>1. /\ Returns(w, "ok") /\ transcript' = transcript /\ hand[w].seen # "completed"
        /\ Rank("completed") <= Rank(hand[w].seen) /\ Rank(hand[w].seen) <= Rank(transcript.status)
        /\ hand[w].seen \in TranscriptStatuses
    BY <1>1, <1>2, <1>12 DEF Skip, HandSound, HandType
  <2>2. transcript'.status # "completed"
    BY <2>1, Ranks DEF TranscriptStatuses
  <2> QED BY <1>6, <2>1, <2>2 DEF RenderSound
<1>13. CASE Fails(w)
  <2>1. CASE GivesUp(hand[w])
    <3>1. hand'[w].stage = "failing" /\ hand'[w].job = hand[w].job /\ hand'[w].attempt = hand[w].attempt
      BY <1>1, <1>13, <2>1 DEF Fails, Idle
    <3> QED BY <1>5, <3>1, RenderGoesOn DEF Rendering
  <2>2. CASE ~GivesUp(hand[w])
    BY <1>6, <1>13, <2>2, RenderGoesOn DEF Fails, Rendering
  <2> QED BY <2>1, <2>2
<1>14. CASE Breaks(w) \/ Interrupted(w)
  BY <1>6, <1>14, RenderGoesOn DEF Breaks, Interrupted, Rendering
<1>15. ~(\E asr \in BOOLEAN : Ready(w, asr)) /\ ~(\E x \in Externals : SubmitCall(w, x))
       /\ ~SubmitWrite(w) /\ ~GetTranscript(w) /\ ~PollWrite(w) /\ ~ResultWrite(w)
  BY <1>2 DEF Ready, SubmitCall, SubmitWrite, GetTranscript, PollWrite, ResultWrite, At
<1> QED BY <1>7, <1>8, <1>9, <1>10, <1>11, <1>12, <1>13, <1>14, <1>15 DEF Handle

LEMMA RenderSettles ==
    ASSUME Inv, NEW w \in Workers, RenderSound(w), Settle(w)
    PROVE  RenderSound(w)'
<1> DEFINE j == hand[w].job
<1>1. HandSound(w) /\ hand \in [Workers -> HandType] /\ jobs \in [Rows -> RowType]
  BY InvParts DEF DatabaseSound
<1>2. j \in Rows /\ hand'[w].stage = "idle" /\ hand'[w].job = None
      /\ UNCHANGED <<transcript, vtt>>
  BY <1>1 DEF Settle, HandSound, Idle
<1>3. RenderOwned(w)' /\ \A r \in Renders : hand'[w].job # r
  BY <1>2, StepNames DEF RenderOwned
<1>4. CASE j \notin Renders \/ ~Owns(w)
  <2>1. \A r \in Renders : jobs'[r] = jobs[r]
    <3>1. jobs' = jobs \/ (Owns(w) /\ jobs' = [jobs EXCEPT ![j] = SettledRow(jobs[j], hand[w])])
      BY DEF Settle
    <3> QED BY <1>1, <1>2, <1>4, <3>1, StepNames
  <2>2. ~Rendering(w)
    BY <1>4 DEF RenderSound, RenderOwned, Rendering
  <2> QED BY <1>2, <1>3, <2>1, <2>2
          DEF RenderSound, Rendered, RenderDue, DeadRender, Abandoned, Waiting, Live
<1>5. CASE j \in Renders /\ Owns(w)
  <2>1. jobs' = [jobs EXCEPT ![j] = SettledRow(jobs[j], hand[w])] /\ jobs[j].state \in {"held", "stale"}
    BY <1>5 DEF Settle, Owns
  <2>2. jobs'[j] = SettledRow(jobs[j], hand[w]) /\ \A r \in Rows \ {j} : jobs'[r] = jobs[r]
    BY <1>1, <1>2, <2>1
  <2>3. CASE hand[w].outcome = "ok"
    <3>1. ~Rendering(w)
      BY <2>3 DEF Rendering, Settle
    <3>2. RenderDue => RenderDue'
      BY <2>1, <2>2, StepNames DEF RenderDue, Waiting
    <3>3. DeadRender => DeadRender'
      BY <2>1, <2>2, StepNames DEF DeadRender
    <3>4. Abandoned(w) => Abandoned(w)'
      BY <1>3, <2>2, StepNames DEF Abandoned, Live
    <3> QED BY <1>2, <1>3, <3>1, <3>2, <3>3, <3>4 DEF RenderSound, Rendered
  <2>4. CASE hand[w].outcome # "ok"
    <3>1. \/ SettledRow(jobs[j], hand[w]) = [NoJob("waiting") EXCEPT !.attempts = jobs[j].attempts - 1]
          \/ SettledRow(jobs[j], hand[w]) = [NoJob("dead") EXCEPT !.attempts = jobs[j].attempts]
          \/ SettledRow(jobs[j], hand[w]) = [NoJob("waiting") EXCEPT !.attempts = jobs[j].attempts]
      BY <2>4 DEF SettledRow
    <3>2. jobs'[j].state \in {"waiting", "dead"}
      BY <2>2, <3>1 DEF NoJob
    <3> QED BY <1>3, <1>5, <3>2 DEF RenderSound, RenderDue, DeadRender, Waiting
  <2> QED BY <2>3, <2>4
<1> QED BY <1>4, <1>5

LEMMA RenderClaimed ==
    ASSUME Inv, NEW w \in Workers, RenderSound(w), NEW j \in Rows, Claim(w, j)
    PROVE  RenderSound(w)'
<1>1. hand \in [Workers -> HandType] /\ jobs \in [Rows -> RowType] /\ hand[w].stage = "idle"
      /\ UNCHANGED <<transcript, vtt>>
  BY InvParts DEF DatabaseSound, Claim
<1>2. ~Rendering(w) /\ hand[w].job = None
  BY <1>1 DEF Rendering, RenderSound, RenderOwned
<1>3. CASE jobs[j].attempts + 1 > MaxAttempts
  <2>1. /\ jobs' = [jobs EXCEPT ![j] = [NoJob("dead") EXCEPT !.attempts = jobs[j].attempts + 1]]
        /\ hand' = hand
    BY <1>3 DEF Claim
  <2>2. jobs'[j].state = "dead" /\ \A r \in Rows \ {j} : jobs'[r] = jobs[r]
    BY <1>1, <2>1 DEF NoJob
  <2>3. RenderOwned(w)'
    BY <1>1, <1>2, <2>1 DEF RenderOwned
  <2>4. CASE j \in Renders
    BY <2>2, <2>3, <2>4 DEF RenderSound, DeadRender
  <2>5. CASE j \notin Renders
    BY <1>1, <1>2, <2>1, <2>2, <2>3, <2>5, StepNames
       DEF RenderSound, Rendered, RenderDue, DeadRender, Abandoned, Waiting, Live
  <2> QED BY <2>4, <2>5
<1>4. CASE ~(jobs[j].attempts + 1 > MaxAttempts)
  <2> DEFINE row == [state |-> "held", holder |-> w, attempts |-> jobs[j].attempts + 1]
  <2>1. /\ jobs' = [jobs EXCEPT ![j] = row]
        /\ hand' = [hand EXCEPT ![w] = [Idle EXCEPT !.stage = "claimed", !.job = j, !.attempt = jobs'[j].attempts]]
    BY <1>4 DEF Claim
  <2>2. jobs'[j] = row /\ \A r \in Rows \ {j} : jobs'[r] = jobs[r]
    BY <1>1, <2>1
  <2>3. hand'[w].stage = "claimed" /\ hand'[w].job = j /\ hand'[w].attempt = jobs'[j].attempts
    BY <1>1, <2>1 DEF Idle
  <2>4. RenderOwned(w)'
    BY <2>2, <2>3 DEF RenderOwned, Owns
  <2>5. CASE j \in Renders
    BY <2>3, <2>4, <2>5 DEF RenderSound, Rendering
  <2>6. CASE j \notin Renders
    BY <1>1, <1>2, <2>2, <2>3, <2>4, <2>6, StepNames
       DEF RenderSound, Rendered, RenderDue, DeadRender, Abandoned, Waiting, Live
  <2> QED BY <2>5, <2>6
<1> QED BY <1>3, <1>4

LEMMA RenderCrashes ==
    ASSUME Inv, NEW w \in Workers, RenderSound(w), Crash(w)
    PROVE  RenderSound(w)'
<1>1. hand \in [Workers -> HandType]
  BY InvParts
<1>2. hand'[w].stage = "idle" /\ hand'[w].job = None /\ UNCHANGED <<transcript, vtt, jobs>>
  BY <1>1 DEF Crash, Idle
<1>3. RenderOwned(w)' /\ \A r \in Renders : hand'[w].job # r
  BY <1>2, StepNames DEF RenderOwned
<1>4. Rendering(w) => Abandoned(w)'
  BY <1>2, <1>3 DEF RenderSound, RenderOwned, Rendering, Owns, Abandoned, Live
<1> QED BY <1>2, <1>3, <1>4
        DEF RenderSound, Rendered, RenderDue, DeadRender, Abandoned, Waiting, Live

LEMMA RenderLockExpires ==
    ASSUME Inv, NEW w \in Workers, RenderSound(w), NEW j \in Rows, LockExpires(j)
    PROVE  RenderSound(w)'
<1>1. jobs \in [Rows -> RowType] /\ UNCHANGED <<transcript, vtt, hand>> /\ jobs[j].state = "held"
  BY InvParts DEF DatabaseSound, LockExpires
<1>2. /\ jobs'[j].state = "stale" /\ jobs'[j].holder = jobs[j].holder /\ jobs'[j].attempts = jobs[j].attempts
      /\ \A r \in Rows \ {j} : jobs'[r] = jobs[r]
  BY <1>1 DEF LockExpires, RowType
<1>3. (RenderDue => RenderDue') /\ (DeadRender => DeadRender') /\ (Abandoned(w) => Abandoned(w)')
  BY <1>1, <1>2, StepNames DEF RenderDue, DeadRender, Abandoned, Waiting, Live
<1>4. hand[w].job \in Renders /\ Owns(w) => Owns(w)'
  BY <1>1, <1>2, StepNames DEF Owns
<1>5. RenderOwned(w)'
  BY <1>1, <1>3, <1>4 DEF RenderSound, RenderOwned, UpToDate
<1> QED BY <1>1, <1>3, <1>5 DEF RenderSound, Rendered, Rendering

LEMMA RenderOutside ==
    ASSUME Inv, NEW w \in Workers, RenderSound(w),
           \/ \E x \in Externals : ProviderEnds(x) \/ Webhook(x)
           \/ EditUtterance
    PROVE  RenderSound(w)'
<1>1. DatabaseSound /\ jobs \in [Rows -> RowType]
  BY InvParts DEF DatabaseSound
<1>2. CASE \E x \in Externals : ProviderEnds(x) \/ Webhook(x)
  BY <1>1, <1>2, Leaving, RendersAlone DEF ProviderEnds, Webhook
<1>3. CASE EditUtterance
  <2>1. RenderDue' /\ \A r \in Renders : jobs[r].state # "none" => jobs'[r] = jobs[r]
    <3>1. CASE WaitingRenders # {}
      BY <1>3, <3>1 DEF EditUtterance, WaitingRenders, RenderDue
    <3>2. CASE WaitingRenders = {}
      <4>1. FreshRender \in Renders /\ FreshRender \in Rows /\ jobs[FreshRender].state = "none"
        BY <1>3, <3>2, RenderIsFresh, StepNames DEF EditUtterance
      <4>2. jobs' = Put(jobs, FreshRender)
        BY <1>3, <3>2 DEF EditUtterance
      <4> QED BY <1>1, <4>1, <4>2, Putting, StepNames DEF RenderDue, Waiting
    <3> QED BY <3>1, <3>2
  <2>2. hand' = hand
    BY <1>3 DEF EditUtterance
  <2>3. hand[w].job \in Renders /\ Owns(w) => Owns(w)'
    BY <2>1, <2>2 DEF Owns
  <2>4. RenderOwned(w)'
    BY <2>1, <2>2, <2>3 DEF RenderSound, RenderOwned, UpToDate
  <2> QED BY <2>1, <2>4 DEF RenderSound
<1> QED BY <1>2, <1>3

\* With one worker, for any number of rerenders, edits, crashes, stops and
\* overruns: once no render is left, the VTT has the teacher's last edit, or the
\* transcript says it failed, or a dead render does.
THEOREM VttIsCurrentCorrect ==
    ASSUME NEW w, Workers = {w}
    PROVE  Spec => []VttIsCurrent
<1>1. Init => RenderSound(w)
  BY DEF Init, RenderSound, RenderOwned, Idle
<1>2. Inv /\ RenderSound(w) /\ [Next]_vars => RenderSound(w)'
  <2>1. SUFFICES ASSUME Inv, RenderSound(w), [Next]_vars PROVE RenderSound(w)'
    OBVIOUS
  <2>2. CASE UNCHANGED vars
    BY <2>1, <2>2, InvParts, Leaving, RendersAlone DEF vars
  <2>3. CASE Handle(w) \/ Breaks(w) \/ Interrupted(w)
    BY <2>1, <2>3, OtherJobStep, RenderStep
  <2>4. CASE Settle(w) \/ Crash(w) \/ \E j \in Rows : Claim(w, j)
    BY <2>1, <2>4, RenderSettles, RenderCrashes, RenderClaimed
  <2> QED BY <2>1, <2>2, <2>3, <2>4, RenderLockExpires, RenderOutside DEF Next, Work
<1>3. Inv /\ RenderSound(w) => VttIsCurrent
  <2>1. SUFFICES ASSUME RenderSound(w), transcript.status = "completed",
                        \A r \in Renders : ~Live(r)
                 PROVE  Rendered \/ transcript.error \/ DeadRender
    BY Zenon DEF VttIsCurrent, DeadRender, Rendered
  <2>2. ~RenderDue /\ ~Abandoned(w)
    BY <2>1 DEF RenderDue, Abandoned, Waiting, Live
  <2>3. ~Rendering(w)
    BY <2>1 DEF RenderSound, RenderOwned, Rendering, Owns, Live
  <2> QED BY <2>1, <2>2, <2>3 DEF RenderSound
<1> QED BY <1>1, <1>2, <1>3, Invariant, PTL DEF Spec

=============================================================================
