# Lingua Class: TLA+ models, model checking and proofs

These modules model the backend of Lingua Class (`src/backend`), a platform for
a language school: lessons in a video room with a whiteboard and files, their
recordings and transcripts, and the vocabulary that grows out of them. All state
of record is in Postgres; one `api` process serves requests and webhooks,
`worker` processes run background jobs, files are in S3, and LiveKit (video),
AssemblyAI (speech recognition), Google Calendar and the LLM are external. What
is hard in it is not any one statement but what happens between two of them: a
handler runs outside transactions, webhooks are repeated, reordered or lost,
requests of several tabs meet on one row, processes are stopped in the middle.

## 1. The system

| Component | State | Operations | Hard behaviour | What makes it correct |
|---|---|---|---|---|
| Job queue (`jobs/jobs.go`, `jobs/runner.go`) | table `jobs`; a worker's current `Job` | Enqueue, EnqueueOnce, Cancel; claim, process, call, settle; revival by `SetGoogleToken` | several workers; crash, stall, SIGTERM, lost reply at any point | a late outcome never settles a row, the handler's starts are bounded, no event is lost by folding, every job ends |
| Scheduler (`jobs/schedule.go`) | `job_schedules.slot` | Tick, claimPeriod | several workers tick at once, each on its own snapshot of `jobs` | one live job of a kind |
| Lesson recording (`store/recordings.go`, `httpapi/webhooks.go`) | `lessons.status`, `recording_s3_key`; `lesson_recordings` | room_started / participant_joined, egress_ended, recording_sweep, recording_ready | racing, repeated, late and lost webhooks; a call to LiveKit under a row lock | one segment per session, closing never overtakes a start, the best segment wins, the lesson ends |
| Lessons (`store/lessons.go`) | `lessons`, `lesson_participants` | create, reschedule, cancel | the row's lock against recording, files, board, calendar and guests | each component follows the lesson |
| Transcription (`store/transcripts.go`, `worker/asr.go`) | `transcripts`, `utterances`, the VTT file, five kinds of jobs | QueueTranscript ... FinishTranscriptVTT, FailTranscript, webhook, EditUtterance | webhook against poll, crash between two jobs of the chain, edits against rerenders | a lesson never waits without a job, edits survive and reach the VTT |
| Whiteboard (`store/whiteboards.go`, `worker/whiteboard.go`) | `whiteboards.scene`, version, the snapshot file | open, save and merge, snapshot, close | admission and save are two transactions; the snapshot reads, writes and marks in three steps | merging loses no newer element, the last scene gets its snapshot, no orphan file |
| Calendar sync (`worker/calendar.go`, `store/calendar.go`) | Google token, `gcal_event_id`, events at Google | upsert, remove, connect, disconnect, clear token | calls that reach Google though their outcome is lost, reconnecting | with no job left, and none dead, the calendar shows the lesson; a removal catches up |
| Materials (`store/materials.go`, `httpapi/materials.go`) | `materials`, objects in S3 | create, confirm, delete, material_files_delete | confirm against delete, the browser's upload link | a ready row has the file that was checked, no file outlives its row |
| Accounts (`store/users.go`, `invites.go`, `groups.go`, `httpapi/auth.go`, `users.go`) | `users`, `sessions`, `invites`, `group_members` | login, set password, edit, archive, return, accept invite | rights are read before they are used | no session outlives the password or archive, an admin remains |
| Rooms and guests (`store/guests.go`, `httpapi/rooms.go`, `users.go`) | guest links, participants, guest sessions, tokens of a room | issue link, join, reschedule, cleanup; token, archive | joins do not wait for each other; a token outlives what it was signed on | a join is by the link of the moment, sessions follow the event, who is archived is out |
| Groups (`store/groups.go`) | `groups`, `group_members` | create, rename, add, remove | a student leaves between the check and the write | within Accounts |
| Vocabulary and SRS (`store/srs.go`, `srs/srs.go`, `user_terms.go`) | `user_terms`, `srs_cards`, `srs_reviews`, `cloze_attempts` | add, remove, review, answer | repeated requests, two tabs, an old api process, removed words | a request counts once, card, journal and status agree |
| Lesson terms (`store/lesson_terms.go`) | candidates, clicks, `lesson_terms` | click, collect from the board, SetLessonTerms, AssignLessonTerms | decisions on a snapshot; DELETE and INSERT under READ COMMITTED | the list is one list, assignment takes nothing away |
| Cloze (`httpapi/cloze.go`, `store/cloze.go`) | items, options, misses, attempts | feed, distractors, answer, removal by hand | five queries of a feed, a paid call in between | one set of options for life, no word hidden for an hour by mistake |
| Practice and LLM (`store/practice.go`, `textgen/`, `httpapi/explain.go`) | `llm_usage`, `term_explanations`, `generated_texts` | reserve, call, save; pages | a paid call whose user left, a text added between two pages | the daily limit, one explanation for all, no text twice, no own text left out |
| Harvester (`harvester/`, `store/subtitles.go`) | videos, subtitles, pause in memory | PollFeeds, FetchSubtitles, FailHarvest | nothing locks a video that is being fetched | a video is not failed for ever nor fetched twice |
| Dictionary imports (`dictionary/`, `tatoeba/`) | `definitions`, `tatoeba_*`, the rows of runs | begin or resume, batch, finish | an interrupted run, a new version of the source, a second source | the result of a clean import |
| Practice videos, external clients, web frontend, deployment | none of record | - | - | - |

They interact through Postgres only: a request or a webhook changes rows and
enqueues jobs in one transaction, a worker claims a job, calls an external
service, and writes the outcome conditionally on what it expects the row to be.
`closeLessonIfOver` hands the recording to the transcription by a
`recording_ready` job, and the transcription hands the lesson back by
`finishLesson`; `CancelLesson` and `RescheduleLesson` compete for the lesson's
row with the recording, the guests and the calendar, and enqueue
`calendar_sync` and `material_files_delete`.

`PROJECT.json` lists, under `hazards`, what in this code a test hardly reaches,
each at its line, and the properties that cover it.

## 2. Modules

| Module | Contents |
|---|---|
| `JobQueue`, `JobQueueProperties`, `MCJobQueue` | the queue, its producers, the workers' processes; what it promises; instances for TLC |
| `JobQueueInvariant`, `JobQueueProofs`, `JobQueueEventProofs` | the inductive invariant and the theorems |
| `LessonRecording`, `LessonRecordingProperties`, `MCLessonRecording` | the recording of one lesson |
| `LessonRecordingProofs` | its inductive invariant and the theorems |
| `LessonLifecycle` | the abstract row of a lesson, which `LessonRecording` implements |
| `Transcription`, `TranscriptionProperties`, `MCTranscription` | the transcript of one lesson, on top of the queue's promises |
| `TranscriptionProofs` | its inductive invariant and the theorems |
| `CalendarSync`, `Scheduler`, `Harvester`, `DictionaryImport`, `TatoebaImport` | what runs in the background |
| `Background`, `MCBackground` | their composition for any constants, and the instance for TLC |
| `BackgroundProofs`, `ImportProofs` | the theorems about scheduler, harvesters and calendar; about the two imports |
| `Whiteboard`, `Materials`, `Accounts`, `GuestEvents`, `RoomAccess` | boards, files, accounts, rooms |
| `Vocabulary`, `LessonCandidates`, `LessonDictionary`, `ClozeOptions`, `ClozeFeed`, `Explanations`, `PracticeTexts` | words and exercises |
| `Requests`, `MCRequests` | the composition of the last two rows for any constants, and the instance for TLC |
| `RequestsProofs` | the theorems about them |

A name with `Mutant` in it is a deliberately wrong form of the definition that
follows it; no specification uses one. Putting one in the place of the original
must make a run fail, which shows that the property can see that bug.

`Background` and `Requests` each hold several components that share no
state. A behaviour is of one of them, chosen at its start by `part`; the others
stay in their initial state, so the state spaces add up and do not multiply.
`TypeOK` speaks of the part that moves. Parts that may begin in several ways (a
teacher with a student or two admins, an event's end, the candidates of a
lesson, whether the LLM is configured, the words being learned) do so only in
their own behaviours. The properties are stated and proved in these two modules;
the `MC` modules only name values.

### JobQueue

`jobs[j]` is a row, `fresh` before its identity value is issued and `gone` once
deleted; `due` stands for `run_at <= now()` and `stale` for `locked_at` older than
twice `HandlerTimeout`. `hand[w]` is what process `w` has in memory. One step is
one SQL statement or one piece of Go between two of them:

| Code | Action |
|---|---|
| `Enqueue`, `EnqueueOnce`, `Cancel` | `Enqueue`, `EnqueueOnce`, `Cancel` |
| `SetGoogleToken`, its `UPDATE jobs` | `Revive` |
| the clock | `BecomeDue`, `LockExpires` |
| `claim`; its reply lost | `Claim`, `ClaimReplyLost` |
| `process`: over the limit; the handler is called | `GiveUp`, `Call` |
| `call` returns nil, an error (panic, timeout), interrupted | `Return` |
| `settle`; the statement fails | `Settle`, `SettleFails` |
| SIGTERM, `Run` returns, crash, container restart | `Sigterm`, `Exit`, `Crash`, `Restart` |

A restarted container keeps hostname and pid, hence `locked_by`: the model lets
a worker come back under its own name, the harder case for the ownership token.
`MayOverrun` says whether a live worker may hold a job past the lock's age; the
code's timeouts exclude it but for a handler that ignores its context or a
suspended process. History variables (`hist`, `wanted`, and `epoch` and
`upToDate` of a hand) observe and never guard.

`Scheduler` is the producer on a clock. `claimPeriod` is one statement, in two
steps: `ClaimBegins` takes `now()` and the snapshot of `jobs`, `ClaimEnds` has
waited for the row of `job_schedules` and acts on the row as it then is but on
the jobs as they were.

### LessonRecording and LessonLifecycle

Lessons share no state, so one is enough. `phase` is where the clock is in the
room's window. `StartLessonRecording` is the one transaction that spans a call
(`StartBegin` takes the row, `StartCall` starts the Egress, `StartCommit` or
`StartAbort` ends it); the others are one step each and take the row `SKIP LOCKED`
or wait for it. LiveKit may deliver any webhook any number of times, in any
order, or never; a `room_started` may have no sid (`NoSid`). The sweep
(`SweepBegin`, `SweepStop`, `SweepMarkLost`, `SweepClose`) is taken apart at its
calls. `excused` is a history variable: the segments that closing could not wait for.
The last attempt of `recording_ready` may fail (`ReadyDies`), and so may that of
one of the transcript's jobs (`TranscriptDies`): `dead` keeps which of them did,
and the lesson then waits in `processing` for a webhook that may never come.

`LessonLifecycle` says what the row promises a reader: scheduled, live,
processing, done; cancelled only before it began; a recording chosen once, except
that a lesson closed without any takes one that came late. `Lifecycle` is its
`Spec` under the mapping of the row's columns.

### Transcription

One transcript; the jobs of each kind are its links. Of the queue it keeps what
`JobQueue` shows: a claim increments attempts, only the last claim settles, a
claim over `MaxAttempts` buries the row. Each handler is `Read` (the row of
the transcript), a call (`SubmitCall`, `GetTranscript`, `RenderRead` and
`RenderPut`) and a write (`SubmitWrite`, `PollWrite`, `ResultWrite`,
`RenderWrite`), so that webhooks, edits and other workers come in between.
`Fails` is any error of a step, `GiveUp` the `FailTranscript` of the last attempt,
`Breaks` a panic or a `FailTranscript` that fails. Utterances are a version number.

### Background

| Module | Code → actions |
|---|---|
| `CalendarSync` | one lesson: `createLesson`, `RescheduleLesson`, `CancelLesson`; the consent screen `StartConsent`, then `SetGoogleToken` or `ConsentFails`; `Disconnect`; `Revoke` is Google's. The upsert job reads the lesson (`ReadLesson`), the token (`ReadToken`), calls Google (`WriteEvent`, or `UpsertRevoked` with the clearing of the token) and looks again (`Recheck`, `RemoveStale`); the removal job is `ClaimRemoval`, `RemovalReadsToken`, `RemoveEvent`, `RemovalRevoked`; both may fail or have their lock expire. An upsert that is not settled goes back to the queue or is dead (`Unsettled`): which attempt of its row a worker holds is not told apart, so it may die at the first fault; the removal counts its attempts |
| `Harvester` | `Poll` of the feeds, `Take` (the pause and `NextVideoToHarvest`), how yt-dlp ends (`Succeeds`, `IsBlocked`, `Breaks`, `NoRunner`), `SaveSubtitles`, `FailHarvest`, `Restart` (the pause is lost) |
| `DictionaryImport` | `BeginNew`, `Resume` and `Restart` of a run, `WriteBatch` with its checkpoint, `Finish`, `Empty`; `Abort` between any two transactions; `Publish` is a new version of the source |
| `TatoebaImport` | the same with two phases (`WriteRussian`, `TurnToEnglish`, `WriteEnglish`) and `Abandon` of a run of an older export; ids of the two languages are taken to differ, as Tatoeba's do |

### Requests

| Module | Code → actions |
|---|---|
| `Whiteboard` | `Admit` (the check that the room is open), `OpenWhiteboard`, `SaveScene` (merge by version and nonce, tombstones dropped when the scene is full, the job in the same transaction; what sorting and dropping give is stated as the sequences they may result in, `Ordered` and `Picked`), `Refuse`; the snapshot job `Claim`, `Read`, `PutObject`, `MarkSnapshot`, `Fail` and `LockExpires`, after which the row waits again or is dead (`Unsettled`); `CancelLesson` with its deletion job, `DeleteObject` |
| `Materials` | confirm: `LoadToConfirm`, `CheckUpload`, `CopyUpload`, `CheckFile`, `ConfirmRow`, `DropConfirmedUpload`; removal: `LoadToRemove`, `RemoveUpload`, `RemoveFile`, `DeleteRow`, `RemovalFails`; `Abort` of the api anywhere; the browser `Put`s until `LinkExpires`; the bucket's rule `LifecycleDropsUpload`; the job `JobDropsUpload`, `JobDropsFile`, `JobRetries` |
| `Accounts` | a login is `CheckLogin` and `OpenSession`; a request finds its session (`Enter`), checks rights (`Authorize`, `GivesUp`) and writes (`SetPassword`, `UpdateUserProfile`, `DeactivateUser`, `ReactivateUser`); `AcceptInvite`, `CreateInvite`, `CreateUser`, `ChangeGroup`, `SessionEnds`, `InviteEnds` |
| `GuestEvents` | `JoinAsGuest` as `LockLesson` (`FOR KEY SHARE`), `CountGuests`, `CommitJoin` or `Rollback`; `IssueLink`, `RevokeLink`, `RescheduleLesson`, `CancelLesson` wait for it; `Cleanup` of expired guests |
| `RoomAccess` | `LoadSession` and `SignToken`; `DeactivateUser`, `ListLessons` (`LiveLessonsOf`), `RemoveParticipant` or `RemovalFails`; LiveKit's `EnterRoom`, `LeaveRoom`. For who is not in the room LiveKit answers 404, which the code takes as success (`livekitapi/room.go:22-25`); the model lets his token end or stay good |
| `Vocabulary` | an answer or review is `Ask` (stamped), `LockCard`, `Commit` or `Rollback`; `SaveUserTerm`, `DeleteUserTerm`, `CreateClozeItem`; `SaveByOldApi` and `BackfillSRSCards` are the upgrade during which an old api still runs. The FSRS formulas are reduced to the state of a card and an interval out of `Intervals` |
| `LessonCandidates` | a click decides on its snapshot (`ClickBegins`, `ClickEnds`); the board is read and counted (`CollectReads`, `SaveWhiteboardCandidates`) |
| `LessonDictionary` | `SetBegins`, `SetDeletes`, `SetInserts`, `SetCommits`; `AssignBegins`, then `AssignOne` per student and word |
| `ClozeOptions` | `Feed` (GET) and `Distractors` (POST) plan on what they read, then `Reserve`, `Answer`, `Save`, `PinLLM`, `PinList`, `Reread`; `RemoveBegins` and `RemoveCommits` are the recipe of `docs/architecture/decisions.md:2241-2245` for a bad set of options |
| `ClozeFeed` | a feed is `Begins`, `ReadsItems`, `ReadsTexts`, then per word `GivesUnanswered`, `GivesNew`, `GivesAnswered` or `FindsGone`, `Ends` with the notes of words without a sentence; a search reads any so many texts of each kind as the `LIMIT`s of its queries allow (`Searched`), whether they are items already or not. `NewText`, `DeleteMaterial`, `ImportBatch` (sentences are seen at once) and `ImportFinishes` (the notes become stale, old sentences go), `AddWord`, `RemoveWord`, `HourPasses` come in between |
| `Explanations` | `Ask`, `Reserve`, `Call` or `CallFails`, `Save`; `Crash`, `Midnight` |
| `PracticeTexts` | `Reserve`, the drafts (`Passes`, `Misses`, `Fails`), `Save`; `FirstPage`, `NextPage` (a page of `ORDER BY` and `LIMIT` is stated as the set of texts found that no other text found precedes, `Pages`). Each page takes its own sample of the corpus, any `CandidateLimit` sentences of each word (`Candidates`), and `ReadForSure` are those in every such sample; `Learn` changes the dictionary, `Import` the corpus |

## 3. Runs

| Run | Instance | Question |
|---|---|---|
| `queue_overrun` | 2 workers, 2 rows of one key, `MaxAttempts` 2, 2 faults, 1 SIGTERM, holders may overrun | is any late outcome written, any job started too often, any event lost |
| `queue_revival` | 2 workers, a snapshot row and a calendar deletion, 1 fault, 1 SIGTERM, 1 revival, fairness | does a revival of a claimed or dead job keep it exclusive and live to its end |
| `queue_burial` (violated) | as the first, no overrun | is a job buried without a run always an abandoned one |
| `recording_safety` | 3 Egresses, 2 sessions and the empty sid, 1 reschedule, 1 failed sweep | can racing webhooks start two segments, or closing overtake a start |
| `recording_liveness` | 2 Egresses, 1 session and the empty sid, 2 reschedules, fairness | does the lesson end or wait for a dead job, does an accepted recording reach it, does its row move only as `LessonLifecycle` allows |
| `transcript_rerender` | 1 worker, 1 edit, 1 fault, 1 interruption, the key may go, fairness | does the lesson leave processing, does the VTT get every edit |
| `transcript_overrun` | 2 workers, 2 ids, 1 edit, 1 fault, holders may overrun | does the chain lose a link, are edits overwritten |
| `transcript_late_poll` (violated) | 1 worker, no fault | does an accepted webhook disarm a late poll |
| `transcript_stuck` (violated) | 1 worker, 1 fault | is a lesson stuck in processing only by crashes |
| `background` | calendar, scheduler, harvester, imports, about 867 000 states | see below |
| `requests` | twelve components, about 1.2 million states | see below |
| `dictionary_two_sources` (violated) | the imports of two sources | does a resumed import give the dictionary of a clean one |

Bounds of the queue and of a lesson. `MaxAttempts` 2 has a first, a last and an
over-limit attempt. Two workers and two rows are enough for a holder, a claimant
of the same row and a second row the event could have been folded into; more of
them are covered by the proofs. Faults (crash, overrun, lost reply) are bounded
because each is an external event; two let a crash follow an overrun. Three
Egresses give an active one, a complete one and a late one. Rows of `vtt_render`
are as many as edits plus the first.

Bounds and questions of `background`:

| Part | Property | Instance |
|---|---|---|
| calendar | `CalendarFollowsLesson`, `RemovalCatchesUp` | 2 workers, 2 times, 2 attempts, 1 move, 2 tokens, 1 fault: a stale upsert under a new one, an upsert that dies, a reconnect under a removal. With 1 fault and 2 attempts the condition `faults < MaxAttempts` of `RemovalCatchesUp` always holds here |
| schedule | `OneLiveJob` | 3 tickers, 3 periods: two that saw no job and a third behind them |
| harvest | `HarvestOnce` | 2 machines, 2 videos, 1 attempt, pauses of up to 2 |
| dictionary | `ImportedDictionary` | 2 sources, 2 versions of each with repeated, bad and no lines, batches of 2, 3 runs: a run before, an interrupted one, one after |
| tatoeba | `ImportedCorpus` | 3 exports that lose sentences and pairs, batches of 2, 1 translation, 4 runs |

Bounds and questions of `requests` (requests, words and people are symmetric):

| Part | Property | Instance |
|---|---|---|
| board | `Boards` | 3 elements in 5 versions, room for 2, 2 saves, 2 snapshot workers, 1 fault; a request sends an element or the first two; the fault may be the death of a snapshot job |
| material | `Files` | 2 requests, 2 declared contents and a bad one, 1 fault |
| account | `Logins` | an owner, an admin or teacher, an invitee; 2 requests, 2 changes, 1 login (the proof covers more changes: a teacher's request about a student made an admin meanwhile needs 3) |
| event, room | `Access` | 2 joins, a cap of 1, 3 accounts, a clock of 2; 2 archives, 1 lost call |
| card | `Cards` | 2 words, 1 key, 2 requests, 2 journal rows |
| click | `Candidates` | 3 words, 2 students, a cap of 1, 2 edits of the board |
| list | `LessonWords` | 2 words, 1 student, 2 requests |
| options | `OptionsOnce` | 2 users of 1 sentence, a limit of 1, 2 answers, 1 removal |
| feed | `FeedComplete` | 2 words that compete for 2 sentences of materials and 1 of the corpus; a search reads 1 of each, a feed has 2 items; 1 loss of a word or a material. Transcripts and generated texts, which differ from these only in that a note does not wait for them or in when they appear, are left to the proof |
| explain, practice | `Practising` | 2 users, 2 keys, 2 days, a limit of 1; 2 lemmas, corpora of up to 3 sentences of one length, 1 candidate a word, pages of 1, 2 generations, 1 import or change of the dictionary |

In each, two requests are what a race needs, and a third (a new ticker, guest or
answer) is there where the second alone cannot show the error.
`CHECK_DEADLOCK FALSE`: every system here stops when its bounds are used up
and nothing is left to do.

Symmetry is used in safety runs only: workers with equal handlers, rows of the
same key, sessions, AssemblyAI ids, requests, words.

Fairness. Workers: `Run` polls for ever and `process` always goes on to `settle`;
a crashed container is restarted (`restart: unless-stopped`). The clock: `run_at`
comes and locks age. The sweep: the scheduler queues it every period. Open
transactions end. The calendar's workers go on, and locks expire. Of
`recording_ready` and of a transcript `LessonRecording` assumes what `EveryJobEnds`
and `ProcessingEnds` show: their jobs end, done or dead. Nothing is
assumed of LiveKit, AssemblyAI, Google, teachers or producers: `LiveLessonEnds`,
`RecordingReachesLesson` and `ProcessingEnds` hold though they never act;
`RemovalCatchesUp` needs a token that stays good. `requests` is safety only.

What the runs found (also in `PROJECT.json`, `findings`):

- `queue_burial`: `process` notes on a job buried above the limit that all its
  claims were abandoned; one crash after ordinary errors is enough, and the note
  then replaces the real `last_error`.
- `transcript_stuck`: by the same path a transcript job is buried without its
  handler, and the lesson stays in `processing`, though ADR-016 expects that
  only of a worker that crashed on every attempt.
- `transcript_late_poll`: `FailTranscript` is not conditional on the status the
  step worked on; the last attempt of `asr_poll` turns `fetching` into `error` when
  the webhook came in while it ran.
- `dictionary_two_sources`: `finishRun` deletes the articles of every run but its
  own, also those an unfinished run of another source has already passed: when
  that one resumes, its first lines are missing from the dictionary.

What the properties excuse is what the code does not rule out; each excuse is a
history variable or a named condition, and stands in the comment of its property:

| Excuse | In | Why |
|---|---|---|
| `dead` | `LiveLessonEnds` | a job the lesson waits for ran out of attempts (`runner.go:167,184`): it stays in `processing`, as ADR-016 says and `transcript_stuck` shows |
| `straddled` | `OneLiveJob` | a tick before a period's start and one after it: the later statement's snapshot lacks the job of the earlier (`schedule.go:62-64`) |
| `overlap`, `stray` | `CalendarFollowsLesson` | two workers write one event after a lock expired; an upsert that dies between its call and its recheck |
| `lapsed` | `CalendarFollowsLesson`, `Boards` | an upsert or a snapshot failed `MaxAttempts` times, through an outage of Google or of storage, and is dead (`runner.go:184`): the calendar or the snapshot stays behind until the next move, scene or closing queues another. Nothing in the code revives the dead row of an upsert or a snapshot |
| `shared` | `HarvestOnce` | a video two machines had taken fails once more for each |
| `crossed` | `ImportedDictionary` | the finding above |
| `lostPut`, `overlap` | `Boards` | a worker died between writing and marking the object; two snapshots after a lock expired |
| `overlap`, `late`, `lost` | `Files` | two confirms at once, a confirm between the two deletions of a removal, a request that died |
| `late`, `crossed` | `Logins` | a session written after the password it was checked by was changed (`store/users.go:198`); an edit by somebody just demoted or archived (`users.go:167-168`), or by a teacher whose student was made an admin after the check |
| `lateToken`, `margin` | `Access` | a token signed after the archive; `LiveLessonsOf` (`store/users.go:233-240`) looks between start and end while the room is open 15 minutes longer on both sides |
| `absent` | `Access` | he was not in the room when he was to be removed: the 404 is success to the code, and that it ends his token is not verified (`docs/architecture/decisions.md:1212-1215`), so he may enter with a token signed before |
| `bare`, `byHand` | `Cards` | words of an old api; a status the student set |
| `crossed` | `Candidates` | two parses of two scenes at once |
| `mixed` | `LessonWords` | two lists saved at once, against the comment in `httpapi/lesson_terms.go:249-251` |
| `stranded` | `OptionsOnce` | an item whose set was removed by hand while it was shown; the feed's GET may then show the answer alone (`httpapi/cloze.go:114-118`) |
| `returned` | `FeedComplete` | a word removed and added while a feed was looking |
| `cut` | `FeedComplete` | the search for the word read its limit of texts (`store/cloze.go:163-169`), items among them, and left others unread; or it met a text just deleted (below). Until the hour is over the word has no new item though sentences of it are unread |
| `unfinished` | `FeedComplete` | sentences of a batch of the corpus are seen before `finished_at` makes older notes stale |
| `ReadForSure` | `Practising` | a word in more sentences than a search takes has a sample of them, another on each page (`store/practice.go:106-113`, ADR-035): only own texts and sentences of rare words are sure to be shown |
| `steady` | `Practising` | the dictionary changed between two pages |

Two disagreements with comments are in the models and have no run of their own.
`mixed` above is one. The other is `FindsGone`: `CreateClozeItem` takes a violated
foreign key for the word removed (`store/cloze.go:345`, `httpapi/cloze.go:356-359`),
but it is also what comes when the text of the sentence was deleted between the
search and the insertion; the search for the word then ends, and the word is
noted as one without sentences though its other texts were not tried.

## 4. Proofs

### The job queue

These theorems are about `Spec` of `JobQueue` for every value of its constants
under `JobQueueAssumption`: any number of jobs, workers, keys, attempts and faults.

`JobQueueInvariant` proves `Inv`, the conjunction of

- `TypeOK`;
- `AttemptsFromOne`: a worker's attempt is at least 1 and only what is over
  `MaxAttempts` is buried without a run. Needed because a revival sets `attempts`
  to 0: no token fits the revived row;
- `RevivedBefore`: the last revival of a row is not later than its last claim;
- `OwnerIsCurrent`: the worker whose name and attempt match a row made the last
  claim of it, after its last revival, and once it runs, the row's count of
  starts includes its own. `TokenIsLatest` is the first of these three and not
  inductive alone: an interruption hands a start back, which keeps the count of
  starts a natural number only if the owner's own start was counted.

`NextCases` splits a step into the actions, one lemma per action shows that it
keeps `Inv`. The theorems:

| Theorem | States |
|---|---|
| `TypeCorrect` | `TypeOK` |
| `TokenCorrect` | `TokenIsLatest` |
| `LeavingCorrect` | the action property `LeavesByLastClaim`, from `Inv` and what one step does to one row (`RowSteps`) |
| `DeadCorrect` | `DeadIsExhausted` |
| `ExclusiveCorrect` | `Exclusive`, assuming `MayOverrun = FALSE`: a holder's row keeps its lock (`HolderHasLock`) until it settles |
| `EventCorrect` | `EventIsCovered`, from the stronger `EventCover`: the live row that stands for an event is one whose owner, if any, cannot end with nil without having started after the event |

### The recording of a lesson

`LessonRecordingProofs` is about `Spec` of `LessonRecording` under
`LessonRecordingAssumption`: any finite set of Egresses of distinct sizes, any
sessions, any number of reschedules and failed sweeps. Its `Inv` adds to the four
invariants of the run `recording_safety`

- `StarterSound`: while a start holds the row the lesson has not left the room
  and nobody else records the session. `OneActivePerSession` is not inductive
  without it: the segments are read at the start of the transaction and the new
  one is inserted at its end;
- `RecordingSound`: only a lesson that left the room has a recording, and the
  job `recording_ready` and the transcript need one;
- `FailedIsKnown`: a segment that was not given up as lost failed because its
  Egress did, so no webhook makes it complete after the recording was chosen.
  `BiggestWins` needs it.

`BiggestIsBiggest` shows that `CHOOSE` finds the biggest of finitely many
segments (the least set of bigger ones, by well-foundedness); `ClosingStep` says
what closing may do to the row; `EndingStep` covers `egress_ended` and both
statements of the sweep at once, `QuietStep` everything that leaves row, segments
and start alone.

| Theorem | States |
|---|---|
| `TypeCorrect`, `OneActiveCorrect`, `ClosedCorrect`, `BiggestCorrect` | the four invariants |
| `LifecycleCorrect` | `LessonRecording` implements `LessonLifecycle`: `Init` maps to its `Init`, every step from `Inv` to a step of it or a stutter (`LifecycleStep`) |

### The transcript of a lesson

`TranscriptionProofs` is about `Spec` of `Transcription` under
`TranscriptionAssumption`: any number of workers, ids, attempts, edits and faults,
overruns or not. Its `Inv` adds to `TypeOK` and `ProcessingHasJob`

- `RowsFollow` and `TranscriptSound`: a row of the chain exists from the status
  that writes it on, and what the transcript holds fits its status;
- `HandSound`: what a worker read was true once, and nothing since went back; it
  reports success only when its step is behind the transcript. `ProcessingHasJob`
  needs it: the next job is queued in the transaction that moves the status, so a
  job may leave the queue only when the status has moved past it.

`Advance` says what every step keeps; `ForwardOnly` is its consequence.
`VttIsCurrentCorrect` assumes one worker, as the deployment has: with two the file
of an old render may replace a newer one (`hazards`).

| Theorem | States |
|---|---|
| `TypeCorrect`, `ProcessingHasJobCorrect`, `VttIsCurrentCorrect` | the invariants |
| `ForwardOnlyCorrect` | the action property `ForwardOnly` |

### The background jobs

`BackgroundProofs` and `ImportProofs` are about `Spec` of `Background` under
`BackgroundAssumption`: any number of tickers, machines, calendar workers, videos,
times, tokens and faults; any sequence of exports and dumps and any size of
batch. `ScheduleSteps` and its like reduce a step to one of a part.

| Theorem | Inductive invariant |
|---|---|
| `OneLiveJobCorrect` | `ScheduleInv`: unless one straddled a period's start, the statements under way are of one period, and one still to insert a job saw none and finds none (`OnePeriod`) |
| `HarvestOnceCorrect` | `HarvestInv`: the fetches of a video under way and its attempts add up to no more than allowed (`FewFetches`, a count of the machines), and a second fetch marks the video `shared` (`OneFetch`) |
| `CalendarCorrect` | `CalendarInv`: without an overlap one worker writes (`OneWriter`); the calendar shows the lesson and nobody is about to write another time, or an upsert waits, was just claimed or writes the time of now with the token of now, or one has died since the last that read the lesson (`Covered`); whoever wrote the event of a cancelled lesson will look at it again (`Rechecked`) |
| `CorpusCorrect` | `CorpusInv`: there is one unfinished run (`OnePass`), its rows are what the lines before its checkpoint give (`Progress`), no pair lacks a sentence (`Whole`), and the pairs of the last finished run stay (`Preserved`) |
| `DictionaryCorrect` | `DictionaryInv`: a running import that nothing crossed has the articles of the lines before its checkpoint (`Articles`), and those of the last finished run are kept until another finishes (`LastKept`) |
| `TypesCorrect` | `TypeOK` of all five parts |

The assumptions say of the data what the code relies on: batches are not empty,
the ids of the two languages of a Tatoeba export differ, each dump names its source.

### The handlers of requests

`RequestsProofs` is about `Spec` of `Requests` under `RequestsAssumption`: the set
of requests under way is finite, as are the lemmas and the students, limits are
natural numbers, values that stand for nothing differ from those that stand for
something; scenes, corpora, words, users of the LLM, days and faults are any.
`Accounts` has its three people and any number of requests and changes.
`PartsAlone` splits a step into one of a part that leaves the others alone.

| Theorem | Inductive invariant and what it is needed for |
|---|---|
| `FilesCorrect` | `FilesInv`: unless two confirms overlapped there is one, and the file it is about to mark is the one it looked at (`OneConfirm`, `FileChecked`); a file put back behind a removal is still looked at by somebody (`FileLookedAt`) |
| `LoginsCorrect` | `LoginsInv`: whoever is logged in exists, and a request allowed was allowed to somebody of the role it was checked by (`Authored`) |
| `CandidatesCorrect` | `CandidatesInv`: candidates and clicks on new words together leave the cap by fewer than the requests (`RoomForClicks`); parses that did not cross read scenes in order (`ParsedInOrder`) |
| `AccessCorrect` | `EventInv`: whoever holds the event's row has its link and end (`JoinsAgree`); guests and counted joins leave the cap by fewer than the requests (`RoomForJoins`). `RoomInv`: a token or a person in the room needs the room's window; after a removal that found the archived person there he has neither |
| `LessonWordsCorrect` | `LessonWordsInv`: an unmixed list deletes and inserts exactly what separates it from the one there is (`SavesWhole`); what an assignment has passed the student has, or removed (`AssignsAll`) |
| `OptionsCorrect` | `OptionsInv`: what an item was shown with is what its pin stands for (`PinnedSets`); calls under way count against the places taken (`CallsHavePlaces`) |
| `FeedCorrect` | `FeedInv`: a running feed has read every sentence with a time unless one came (`SeesSources`), a word it will note without having been cut short has every sentence read as an item, its pairs differ in their sentences (`BatchOnce`), a removed word has no note |
| `CardsCorrect` | `CardsInv`: journal rows are numbered and keyed once (`Journals`), repetitions count them (`CardsFollowJournal`); whoever holds a card's lock found the word and was stamped before (`LockersHaveCards`) |
| `PractisingCorrect` | `ExplainInv`: what was shown is cached and stays (`ShownIsCached`), a place is paid, reserved or lost (`PaidOrReserved`). `PracticeInv`: what was shown lies before the cursor and what was not after it (`BetweenPages`); calls made and left stay within the places (`CallsLeft`) |
| `BoardsCorrect` | `BoardInv`: a known object is keyed, to be deleted or about to be marked (`ObjectInv`); without overlap one snapshot is under way and the mark is behind (`SnapshotInv`); a board behind has a job that waits, begins or has read its last scene, or one has died since the last that read it (`PendingInv`) |
| `TypeCorrect` | the invariants above with the bounds of what is counted (`BoardBounds`, `EventBounds`, `ClickBounds` and the like, one lemma `...BoundsStep` each): what is copied by a request between its steps (a version, the end of an event, the number of an answer) is bounded together with what it was copied from |

The lemmas about operators: `SceneGoesForward` (merging, sorting and dropping
tombstones keep every element or a newer one, `MergeGoesForward`,
`FitDropsTombstones`), `PickedFrom` and `OrderedFrom` (a subsequence and a
reordering have the elements they were made of), `BeforeTransitive` and
`KeyOfText` (the order of pages).

One proof attempt found an error of the model: `AdminRemains` does not hold when
a teacher's request to archive a student, checked while he was one, is carried
out after he was made an admin and archived the other admin; it takes three
changes, the run has two. The code has that gap (rights are read before they are
used, `httpapi/users.go`), and `Stale` of `Accounts` now names it among what
`crossed` excuses.

### Only model-checked

Liveness and ENABLED are out of the prover's reach: `EveryJobEnds`,
`LiveLessonEnds`, `RecordingReachesLesson`, `ProcessingEnds` and
`RemovalCatchesUp`. Every other property of a passing run is a theorem.

## 5. Not modelled

Of the modelled components:

- the queue: backoff lengths and the order `run_at, id` of claims (any due row may
  be claimed, a superset); the text of errors;
- transcription: `MapSpeaker`, which touches neither status nor VTT, and the reads
  of the viewer;
- lessons: the copy of a group into `lesson_participants` and the checks of times;
- groups: creating and naming them, single statements without interaction;
- vocabulary: the cache of translations (`store/terms.go`) and the FSRS formulas,
  which are floating point: the model keeps states, and an interval is any of a
  small set;
- words and texts: parsing of scenes, finding words in sentences, prompts,
  coverage and the lemmatiser are data to the models;
- texts and their limits: every sentence of the feed has every word, and the
  order in which a search reads them is left open (it may read any so many of a kind, a
  superset);
- materials: a `material_files_delete` job that dies with its attempts
  (`JobRetries` puts it back for ever): a file "owed to a job" may in the code be
  owed to a dead one, which only an administrator can put back;
- limits of the LLM: the daily counter `explain` is shared by explanations and
  cloze options in the code and a counter each here, where no property compares them;
- reviews: `Reviewed` leaves out that a good answer may leave a learning card in
  learning, one of several steps, which no property tells apart;
- the harvester: the parsing of feeds and VTT, and columns nothing reads.

Not modelled as components: practice videos (read-only queries by `OFFSET`, where
a video harvested between two pages repeats or skips a row), the external
clients (modelled as external where they are called), the web frontend, the
deployment and backup scripts.

## 6. Plan

What is left, in this order:

1. An abstract specification of the queue (a job is pending, then done, dropped
   or dead; every start belongs to a pending job) and its refinement by `JobQueue`.
2. `Accounts` for any set of people.
3. `MapSpeaker` and the cache of translations, if they come to interact with more.
