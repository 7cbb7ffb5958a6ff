---------------------------- MODULE CalendarSync ----------------------------
(***************************************************************************)
(* The event of one lesson in the teacher's Google Calendar.  Creating or  *)
(* moving the lesson queues an upsert, cancelling it queues the removal of *)
(* the event, connecting a calendar queues the first and revives the       *)
(* second (store/calendar.go, store/lessons.go); the worker reads the      *)
(* lesson, then the token, and calls Google with what it has read          *)
(* (worker/calendar.go).  Google is external: an event with a used id      *)
(* conflicts on insert, also when it was deleted.                          *)
(***************************************************************************)
EXTENDS Naturals, FiniteSets

CONSTANTS
    Times,        \* starts of the lesson
    NoTime,       \* no event
    Workers,
    MaxAttempts,  \* attempts of a job
    MoveLimit,    \* bound: moves of the lesson
    TokenLimit,   \* bound: tokens granted
    FaultLimit    \* bound: crashes, errors, locks that expire under a worker

\* Assumed of the constants wherever the module is instantiated.
CalendarAssumption ==
    /\ NoTime \notin Times
    /\ MaxAttempts \in Nat \ {0} /\ {MoveLimit, TokenLimit, FaultLimit} \subseteq Nat

VARIABLES
    lesson,    \* state and time of the lesson, and whether it has gcal_event_id
    consent,   \* the teacher is on Google's consent screen
    token,     \* google_refresh_token, 0 for NULL
    granted,   \* tokens Google has given out
    revoked,   \* those that no longer work
    event,     \* the event's time at Google
    used,      \* an event with the id was once inserted
    upserts,   \* calendar_sync rows of the lesson that wait
    removal,   \* the calendar_sync row that removes the event
    hand,      \* what each worker holds
    moves, faults,  \* bounds used up
    overlap,   \* history: two workers wrote the event at once
    stray,     \* history: a worker gave up between its call and the recheck
    lapsed     \* history: an upsert is dead, and none has read the lesson since

vars == <<lesson, consent, token, granted, revoked, event, used, upserts,
          removal, hand, moves, faults, overlap, stray, lapsed>>

\* attempt: which attempt of the removal the worker holds; for an upsert, 1
\* while the worker owns the row.
Idle == [job |-> "none", at |-> "idle", time |-> NoTime, token |-> 0, attempt |-> 0]

Init ==
    /\ lesson = [state |-> "none", time |-> NoTime, id |-> FALSE]
    /\ consent = FALSE /\ token = 0 /\ granted = 0 /\ revoked = {}
    /\ event = NoTime /\ used = FALSE
    /\ upserts = 0 /\ removal = [state |-> "none", attempts |-> 0]
    /\ hand = [w \in Workers |-> Idle]
    /\ moves = 0 /\ faults = 0 /\ overlap = FALSE /\ stray = FALSE /\ lapsed = FALSE

google == <<event, used>>
account == <<consent, token, granted, revoked>>
queue == <<upserts, removal, hand>>
rest == <<moves, faults, overlap, stray, lapsed>>

calendarConnected == token # 0

QueueSyncMutantKnownOnly(l) == calendarConnected /\ l.id

\* queueCalendarSync: only for a connected calendar, in the transaction that
\* changes the lesson.
QueueSync(l) == calendarConnected

-----------------------------------------------------------------------------
\* The lesson

CreateLesson(t) ==
    LET created == [state |-> "scheduled", time |-> t, id |-> FALSE]
    IN  /\ lesson.state = "none"
        /\ lesson' = [created EXCEPT !.id = QueueSync(created)]
        /\ upserts' = IF QueueSync(created) THEN upserts + 1 ELSE upserts
        /\ UNCHANGED <<account, google, removal, hand, rest>>

RescheduleLesson(t) ==
    /\ lesson.state = "scheduled" /\ t # lesson.time /\ moves < MoveLimit
    /\ moves' = moves + 1
    /\ lesson' = [lesson EXCEPT !.time = t, !.id = @ \/ QueueSync(lesson)]
    /\ upserts' = IF QueueSync(lesson) THEN upserts + 1 ELSE upserts
    /\ UNCHANGED <<account, google, removal, hand, faults, overlap, stray, lapsed>>

\* CancelLesson queues the removal also without a connected calendar: it
\* waits for a token.
CancelLesson ==
    /\ lesson.state = "scheduled"
    /\ lesson' = [lesson EXCEPT !.state = "gone"]
    /\ removal' = IF lesson.id THEN [removal EXCEPT !.state = "waiting"] ELSE removal
    /\ UNCHANGED <<account, google, upserts, hand, rest>>

-----------------------------------------------------------------------------
\* Connecting the calendar

\* handleGoogleStart seals the flow for this teacher.
StartConsent ==
    /\ ~consent /\ granted < TokenLimit /\ consent' = TRUE
    /\ UNCHANGED <<lesson, token, granted, revoked, google, queue, rest>>

\* Denied, expired or answered with another state: nothing is connected.
ConsentFails ==
    /\ consent /\ consent' = FALSE
    /\ UNCHANGED <<lesson, token, granted, revoked, google, queue, rest>>

RevivedMutantDeadOnly(job) ==
    IF job.state = "dead" THEN [state |-> "waiting", attempts |-> 0] ELSE job

\* The waiting or dead removal starts over; one that is held keeps its lock,
\* but the attempt that holds it no longer counts.
Revived(job) ==
    [state |-> IF job.state = "dead" THEN "waiting" ELSE job.state, attempts |-> 0]

ResyncedMutantKnownOnly == lesson.state = "scheduled" /\ lesson.id

\* The lessons SetGoogleToken syncs again.
Resynced == lesson.state = "scheduled"

\* handleGoogleCallback with a good code: SetGoogleToken.
SetGoogleToken ==
    /\ consent /\ consent' = FALSE
    /\ granted' = granted + 1 /\ token' = granted + 1
    /\ lesson' = [lesson EXCEPT !.id = @ \/ Resynced]
    /\ upserts' = IF Resynced THEN upserts + 1 ELSE upserts
    /\ removal' = Revived(removal)
    /\ UNCHANGED <<revoked, google, hand, rest>>

Disconnect ==
    /\ token # 0 /\ token' = 0
    /\ UNCHANGED <<lesson, consent, granted, revoked, google, queue, rest>>

\* revokeGoogle after a disconnect, if Google answers; or the teacher takes
\* the access away in the Google account.
Revoke(n) ==
    /\ n \in (1..granted) \ revoked /\ revoked' = revoked \cup {n}
    /\ UNCHANGED <<lesson, consent, token, granted, google, queue, rest>>

-----------------------------------------------------------------------------
\* The worker's upsert

Goes(w, stage) == hand' = [hand EXCEPT ![w].at = stage]
Done(w) == hand' = [hand EXCEPT ![w] = Idle]

ClaimUpsert(w) ==
    /\ hand[w].at = "idle" /\ upserts > 0
    /\ upserts' = upserts - 1
    /\ hand' = [hand EXCEPT ![w] = [Idle EXCEPT !.job = "upsert", !.at = "claimed",
                                                !.attempt = 1]]
    /\ UNCHANGED <<lesson, account, google, removal, rest>>

\* CalendarLessonByID: the event is built from the lesson as it is now.
ReadLesson(w) ==
    /\ hand[w].job = "upsert" /\ hand[w].at = "claimed"
    /\ IF lesson.state = "gone" THEN Done(w)
       ELSE hand' = [hand EXCEPT ![w].at = "read", ![w].time = lesson.time]
    /\ overlap' = (overlap \/ \E v \in Workers \ {w} : hand[v].at \in {"read", "call"})
    /\ lapsed' = (lapsed /\ hand[w].attempt = 0)
    /\ UNCHANGED <<lesson, account, google, upserts, removal, moves, faults, stray>>

\* withCalendar without a token: an upsert is skipped, see SetGoogleToken.
ReadToken(w) ==
    /\ hand[w].job = "upsert" /\ hand[w].at = "read"
    /\ IF token = 0 THEN Done(w)
       ELSE hand' = [hand EXCEPT ![w].at = "call", ![w].token = token]
    /\ UNCHANGED <<lesson, account, google, upserts, removal, rest>>

\* ClearGoogleToken: only the token the worker had.
Cleared(n) == IF token = n THEN 0 ELSE token

\* Insert, or Update on a conflict: the event is written as it was read.
WriteEvent(w) ==
    /\ hand[w].at = "call" /\ hand[w].token \notin revoked
    /\ hand[w].job = "upsert"
    /\ event' = hand[w].time /\ used' = TRUE
    /\ Goes(w, "written")
    /\ UNCHANGED <<lesson, account, upserts, removal, rest>>

UpsertRevoked(w) ==
    /\ hand[w].at \in {"call", "stale"} /\ hand[w].token \in revoked
    /\ hand[w].job = "upsert"
    /\ token' = Cleared(hand[w].token) /\ Done(w)
    /\ stray' = (stray \/ hand[w].at = "stale")
    /\ UNCHANGED <<lesson, consent, granted, revoked, google, upserts, removal, moves, faults, overlap, lapsed>>

RecheckMutantNone(w) ==
    /\ hand[w].at = "written" /\ Done(w)
    /\ UNCHANGED <<lesson, account, google, upserts, removal, rest>>

\* LessonExists: the lesson may have been cancelled during the call.
Recheck(w) ==
    /\ hand[w].at = "written"
    /\ IF lesson.state = "gone" THEN Goes(w, "stale") ELSE Done(w)
    /\ UNCHANGED <<lesson, account, google, upserts, removal, rest>>

RemoveStale(w) ==
    /\ hand[w].at = "stale" /\ hand[w].token \notin revoked
    /\ event' = NoTime /\ Done(w)
    /\ UNCHANGED <<lesson, account, used, upserts, removal, rest>>

\* The row waits for another attempt, or that was the last and it is dead:
\* which attempt of its row a worker holds is not told apart.
Unsettled ==
    \/ upserts' = upserts + 1 /\ UNCHANGED lapsed
    \/ lapsed' = TRUE /\ UNCHANGED upserts

\* An error of the database or of Google, or the worker dies.
UpsertFails(w) ==
    /\ hand[w].job = "upsert" /\ faults < FaultLimit /\ faults' = faults + 1
    /\ IF hand[w].attempt = 1 THEN Unsettled ELSE UNCHANGED <<upserts, lapsed>>
    /\ Done(w)
    /\ stray' = (stray \/ hand[w].at \in {"written", "stale"})
    /\ UNCHANGED <<lesson, account, google, removal, moves, overlap>>

\* The lock of an upsert expires: another worker may take it, or buries it.
UpsertLockExpires(w) ==
    /\ hand[w].job = "upsert" /\ hand[w].attempt = 1
    /\ faults < FaultLimit /\ faults' = faults + 1
    /\ Unsettled /\ hand' = [hand EXCEPT ![w].attempt = 0]
    /\ UNCHANGED <<lesson, account, google, removal, moves, overlap, stray>>

-----------------------------------------------------------------------------
\* The worker's removal

ClaimRemoval(w) ==
    /\ hand[w].at = "idle" /\ removal.state = "waiting"
    /\ removal' = [state |-> "held", attempts |-> removal.attempts + 1]
    /\ hand' = [hand EXCEPT ![w] = [Idle EXCEPT !.job = "removal", !.at = "claimed",
                                                !.attempt = removal.attempts + 1]]
    /\ UNCHANGED <<lesson, account, google, upserts, rest>>

Owns(w) == removal.state = "held" /\ removal.attempts = hand[w].attempt

RetriedMutantForEver(job) == [job EXCEPT !.state = "waiting"]

\* A failed row is retried until its attempts are used up.
Retried(job) == [job EXCEPT !.state = IF job.attempts < MaxAttempts THEN "waiting" ELSE "dead"]

\* The outcome of an attempt counts only for its owner.
Settle(w, outcome) ==
    /\ Done(w)
    /\ removal' = IF ~Owns(w) THEN removal
                  ELSE IF outcome = "done" THEN [removal EXCEPT !.state = "done"]
                  ELSE Retried(removal)

\* withCalendar of a removal: without a token the attempt fails.
RemovalReadsToken(w) ==
    /\ hand[w].job = "removal" /\ hand[w].at = "claimed"
    /\ IF token = 0 THEN Settle(w, "failed")
       ELSE hand' = [hand EXCEPT ![w].at = "call", ![w].token = token] /\ UNCHANGED removal
    /\ UNCHANGED <<lesson, account, google, upserts, rest>>

RemoveEvent(w) ==
    /\ hand[w].job = "removal" /\ hand[w].at = "call"
    /\ hand[w].token \notin revoked
    /\ event' = NoTime /\ Settle(w, "done")
    /\ UNCHANGED <<lesson, account, used, upserts, rest>>

RemovalRevoked(w) ==
    /\ hand[w].job = "removal" /\ hand[w].at = "call" /\ hand[w].token \in revoked
    /\ token' = Cleared(hand[w].token) /\ Settle(w, "failed")
    /\ UNCHANGED <<lesson, consent, granted, revoked, google, upserts, rest>>

RemovalFails(w) ==
    /\ hand[w].job = "removal" /\ faults < FaultLimit /\ faults' = faults + 1
    /\ Settle(w, "failed")
    /\ UNCHANGED <<lesson, account, google, upserts, moves, overlap, stray, lapsed>>

\* The lock of a removal expires and the row goes back: nobody works on it any
\* more, ...
Expires ==
    /\ removal.state = "held" /\ removal' = Retried(removal)
    /\ UNCHANGED <<lesson, account, google, upserts, hand, moves, overlap, stray, lapsed>>

RemovalAbandoned ==
    /\ Expires /\ UNCHANGED faults
    /\ \A w \in Workers : hand[w].job # "removal"

\* ... or its worker hangs.
RemovalLockExpires ==
    /\ Expires /\ faults < FaultLimit /\ faults' = faults + 1
    /\ \E w \in Workers : hand[w].job = "removal"

-----------------------------------------------------------------------------

Upsert(w) ==
    \/ ClaimUpsert(w) \/ ReadLesson(w) \/ ReadToken(w) \/ WriteEvent(w)
    \/ UpsertRevoked(w) \/ Recheck(w) \/ RemoveStale(w)

Removal(w) ==
    \/ ClaimRemoval(w) \/ RemovalReadsToken(w) \/ RemoveEvent(w) \/ RemovalRevoked(w)

Work(w) == Upsert(w) \/ Removal(w)

Teacher ==
    \/ \E t \in Times : CreateLesson(t) \/ RescheduleLesson(t)
    \/ CancelLesson \/ StartConsent \/ ConsentFails \/ SetGoogleToken
    \/ Disconnect \/ \E n \in 1..TokenLimit : Revoke(n)

Next ==
    \/ Teacher
    \/ \E w \in Workers : Work(w) \/ UpsertFails(w) \/ UpsertLockExpires(w) \/ RemovalFails(w)
    \/ RemovalAbandoned \/ RemovalLockExpires

\* The workers poll, and locks expire.
Fairness ==
    /\ \A w \in Workers : WF_vars(Work(w))
    /\ WF_vars(RemovalAbandoned)

Spec == Init /\ [][Next]_vars /\ Fairness

-----------------------------------------------------------------------------

TypeOK ==
    /\ lesson.state \in {"none", "scheduled", "gone"}
    /\ {lesson.time, event} \subseteq Times \cup {NoTime}
    /\ token \in 0..granted /\ granted \in 0..TokenLimit /\ revoked \subseteq 1..granted
    /\ upserts \in Nat /\ removal.attempts \in 0..MaxAttempts
    /\ removal.state \in {"none", "waiting", "held", "dead", "done"}

Quiet == upserts = 0 /\ \A w \in Workers : hand[w].job # "upsert"

\* With no upsert waiting or under way, the calendar of a connected teacher
\* shows the time of the lesson, however moves, disconnects, new tokens and
\* retries were interleaved; unless two workers wrote the event at once, or an
\* upsert ran out of attempts and none has come after it.
CalendarIsCurrent ==
    /\ lesson.state = "scheduled" /\ token # 0 /\ token \notin revoked
    /\ Quiet /\ ~overlap /\ ~lapsed
    => event = lesson.time

\* A removal that is done leaves no event behind, though an upsert of the
\* cancelled lesson may have been under way; unless that one gave up between
\* its call and the recheck.
RemovedStaysRemoved ==
    removal.state = "done" /\ Quiet /\ ~stray => event = NoTime

\* The event of a cancelled lesson goes away once the teacher has a working
\* token and keeps it, though the removal failed, died or was under way with
\* the old one when the calendar was connected again; unless errors alone use
\* up the attempts of a job.
RemovalCatchesUp ==
    <>[](token # 0 /\ token \notin revoked) /\ [](faults < MaxAttempts) =>
        [](lesson.state = "gone" /\ lesson.id => <>(removal.state = "done"))
=============================================================================
