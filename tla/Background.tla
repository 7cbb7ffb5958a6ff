----------------------------- MODULE Background -----------------------------
(***************************************************************************)
(* What runs in the background beside the job queue: the calendar jobs of  *)
(* one lesson, the scheduler, the harvester and the two imports.  They     *)
(* share no state, so a behaviour is of one part, chosen at the start, and *)
(* the others stay in their initial state: one specification stands for    *)
(* the five, one by one.                                                   *)
(***************************************************************************)
EXTENDS Integers, FiniteSets, Sequences

CONSTANTS
    \* CalendarSync
    Times, FirstTimes, NoTime, CalendarWorkers, CalendarAttempts, MoveLimit, TokenLimit,
    FaultLimit,
    \* Scheduler
    Tickers, PeriodLimit,
    \* Harvester
    Machines, Videos, HarvestAttempts, MaxWait, Horizon,
    \* DictionaryImport
    Sources, Dumps, NoEntry, DictionaryBatch, DictionaryRuns,
    \* TatoebaImport
    Exports, MaxTranslations, CorpusBatch, CorpusRuns,
    \* both imports
    NoJob

VARIABLES
    part,
    \* CalendarSync
    lesson, consent, token, granted, revoked, event, used, upserts, removal,
    hand, moves, faults, overlap, stray, lapsed,
    \* Scheduler
    period, slot, live, tick, straddled,
    \* Harvester
    now, video, fetching, pace, shared,
    \* DictionaryImport
    version, runs, definitions, job, last, settled, crossed,
    \* TatoebaImport
    export, passes, sentences, links, loader, corpus, clean

Calendar == INSTANCE CalendarSync WITH
    Workers <- CalendarWorkers, MaxAttempts <- CalendarAttempts

Schedule == INSTANCE Scheduler

Harvest == INSTANCE Harvester WITH MaxAttempts <- HarvestAttempts, job <- fetching

Dictionary == INSTANCE DictionaryImport WITH
    Dump <- Dumps, BatchLines <- DictionaryBatch, RunLimit <- DictionaryRuns

Corpus == INSTANCE TatoebaImport WITH
    Dump <- Exports, BatchLines <- CorpusBatch, RunLimit <- CorpusRuns,
    version <- export, runs <- passes, job <- loader, last <- corpus, settled <- clean

\* Times are alike: FirstTimes, when the lesson may be created, need not be all.
ASSUME BackgroundAssumption ==
    /\ Calendar!CalendarAssumption /\ Schedule!SchedulerAssumption
    /\ Harvest!HarvesterAssumption
    /\ Dictionary!DictionaryAssumption /\ Corpus!CorpusAssumption
    /\ FirstTimes \subseteq Times

calendar == <<lesson, consent, token, granted, revoked, event, used, upserts, removal,
              hand, moves, faults, overlap, stray, lapsed>>
schedule == <<period, slot, live, tick, straddled>>
harvest == <<now, video, fetching, pace, shared>>
dictionary == <<version, runs, definitions, job, last, settled, crossed>>
tatoeba == <<export, passes, sentences, links, loader, corpus, clean>>
vars == <<part, calendar, schedule, harvest, dictionary, tatoeba>>

Init ==
    /\ part \in {"calendar", "schedule", "harvest", "dictionary", "tatoeba"}
    /\ Calendar!Init /\ Schedule!Init /\ Harvest!Init /\ Dictionary!Init /\ Corpus!Init

\* A step of a part leaves the others as they are.
Others(p) ==
    /\ UNCHANGED part
    /\ p # "calendar" => UNCHANGED calendar
    /\ p # "schedule" => UNCHANGED schedule
    /\ p # "harvest" => UNCHANGED harvest
    /\ p # "dictionary" => UNCHANGED dictionary
    /\ p # "tatoeba" => UNCHANGED tatoeba

CalendarNext ==
    \/ \E t \in FirstTimes : part = "calendar" /\ Calendar!CreateLesson(t) /\ Others("calendar")
    \/ \E t \in Times : part = "calendar" /\ Calendar!RescheduleLesson(t) /\ Others("calendar")
    \/ part = "calendar" /\ Calendar!CancelLesson /\ Others("calendar")
    \/ part = "calendar" /\ Calendar!StartConsent /\ Others("calendar")
    \/ part = "calendar" /\ Calendar!ConsentFails /\ Others("calendar")
    \/ part = "calendar" /\ Calendar!SetGoogleToken /\ Others("calendar")
    \/ part = "calendar" /\ Calendar!Disconnect /\ Others("calendar")
    \/ \E n \in 1..TokenLimit : part = "calendar" /\ Calendar!Revoke(n) /\ Others("calendar")
    \/ part = "calendar" /\ Calendar!RemovalAbandoned /\ Others("calendar")
    \/ part = "calendar" /\ Calendar!RemovalLockExpires /\ Others("calendar")
    \/ \E w \in CalendarWorkers :
        \/ part = "calendar" /\ Calendar!ClaimUpsert(w) /\ Others("calendar")
        \/ part = "calendar" /\ Calendar!ReadLesson(w) /\ Others("calendar")
        \/ part = "calendar" /\ Calendar!ReadToken(w) /\ Others("calendar")
        \/ part = "calendar" /\ Calendar!WriteEvent(w) /\ Others("calendar")
        \/ part = "calendar" /\ Calendar!UpsertRevoked(w) /\ Others("calendar")
        \/ part = "calendar" /\ Calendar!Recheck(w) /\ Others("calendar")
        \/ part = "calendar" /\ Calendar!RemoveStale(w) /\ Others("calendar")
        \/ part = "calendar" /\ Calendar!UpsertFails(w) /\ Others("calendar")
        \/ part = "calendar" /\ Calendar!UpsertLockExpires(w) /\ Others("calendar")
        \/ part = "calendar" /\ Calendar!ClaimRemoval(w) /\ Others("calendar")
        \/ part = "calendar" /\ Calendar!RemovalReadsToken(w) /\ Others("calendar")
        \/ part = "calendar" /\ Calendar!RemoveEvent(w) /\ Others("calendar")
        \/ part = "calendar" /\ Calendar!RemovalRevoked(w) /\ Others("calendar")
        \/ part = "calendar" /\ Calendar!RemovalFails(w) /\ Others("calendar")

ScheduleNext ==
    \/ part = "schedule" /\ Schedule!PeriodTurns /\ Others("schedule")
    \/ part = "schedule" /\ Schedule!JobLeaves /\ Others("schedule")
    \/ \E w \in Tickers :
        \/ part = "schedule" /\ Schedule!ClaimBegins(w) /\ Others("schedule")
        \/ part = "schedule" /\ Schedule!ClaimEnds(w) /\ Others("schedule")
        \/ part = "schedule" /\ Schedule!ClaimFails(w) /\ Others("schedule")

HarvestNext ==
    \/ part = "harvest" /\ Harvest!Tick /\ Others("harvest")
    \/ \E feed \in SUBSET Videos : part = "harvest" /\ Harvest!Poll(feed) /\ Others("harvest")
    \/ \E m \in Machines :
        \/ \E v \in Videos : part = "harvest" /\ Harvest!Take(m, v) /\ Others("harvest")
        \/ part = "harvest" /\ Harvest!IsBlocked(m) /\ Others("harvest")
        \/ part = "harvest" /\ Harvest!Succeeds(m) /\ Others("harvest")
        \/ part = "harvest" /\ Harvest!Breaks(m) /\ Others("harvest")
        \/ part = "harvest" /\ Harvest!NoRunner(m) /\ Others("harvest")
        \/ part = "harvest" /\ Harvest!SaveSubtitles(m) /\ Others("harvest")
        \/ part = "harvest" /\ Harvest!FailHarvest(m) /\ Others("harvest")
        \/ part = "harvest" /\ Harvest!Restart(m) /\ Others("harvest")

DictionaryNext ==
    \/ \E s \in Sources :
        \/ part = "dictionary" /\ Dictionary!BeginNew(s) /\ Others("dictionary")
        \/ part = "dictionary" /\ Dictionary!Resume(s) /\ Others("dictionary")
        \/ part = "dictionary" /\ Dictionary!Restart(s) /\ Others("dictionary")
        \/ part = "dictionary" /\ Dictionary!Publish(s) /\ Others("dictionary")
    \/ part = "dictionary" /\ Dictionary!WriteBatch /\ Others("dictionary")
    \/ part = "dictionary" /\ Dictionary!Finish /\ Others("dictionary")
    \/ part = "dictionary" /\ Dictionary!Empty /\ Others("dictionary")
    \/ part = "dictionary" /\ Dictionary!Abort /\ Others("dictionary")

CorpusNext ==
    \/ part = "tatoeba" /\ Corpus!Resume /\ Others("tatoeba")
    \/ part = "tatoeba" /\ Corpus!Abandon /\ Others("tatoeba")
    \/ part = "tatoeba" /\ Corpus!NewRun /\ Others("tatoeba")
    \/ part = "tatoeba" /\ Corpus!WriteRussian /\ Others("tatoeba")
    \/ part = "tatoeba" /\ Corpus!TurnToEnglish /\ Others("tatoeba")
    \/ part = "tatoeba" /\ Corpus!WriteEnglish /\ Others("tatoeba")
    \/ part = "tatoeba" /\ Corpus!Finish /\ Others("tatoeba")
    \/ part = "tatoeba" /\ Corpus!Empty /\ Others("tatoeba")
    \/ part = "tatoeba" /\ Corpus!Abort /\ Others("tatoeba")
    \/ part = "tatoeba" /\ Corpus!Publish /\ Others("tatoeba")

Next == CalendarNext \/ ScheduleNext \/ HarvestNext \/ DictionaryNext \/ CorpusNext

\* Only the calendar's workers are promised to go on.
Spec == Init /\ [][Next]_vars /\ Calendar!Fairness

\* The dictionary alone, for the claim the code does not keep.
DictionarySpec == Init /\ part = "dictionary" /\ [][Next]_vars

-----------------------------------------------------------------------------
\* The types of the state of the part that moves.
TypeOK ==
    /\ part = "calendar" => Calendar!TypeOK
    /\ part = "schedule" => Schedule!TypeOK
    /\ part = "harvest" => Harvest!TypeOK
    /\ part = "dictionary" => Dictionary!TypeOK
    /\ part = "tatoeba" => Corpus!TypeOK

\* The teacher's calendar: with no job left, and no upsert dead, it shows the lesson's time, and
\* once the event of a cancelled lesson was removed nothing brings it back,
\* however moves, cancels, reconnects, retries and expired locks interleave
\* (worker/calendar.go; CalendarSync names what is excused).
CalendarFollowsLesson == Calendar!CalendarIsCurrent /\ Calendar!RemovedStaysRemoved

\* The event of a cancelled lesson goes away in the end once the teacher has a
\* working token and keeps it (store/calendar.go SetGoogleToken).
RemovalCatchesUp == Calendar!RemovalCatchesUp

\* However many workers tick, restart or die, a periodic kind has one live job
\* (jobs/schedule.go claimPeriod; ticks on both sides of a period's start are
\* excused).
OneLiveJob == Schedule!OneLiveJob

\* Overlapping harvesters do not fail a video for ever or fetch it again once
\* its subtitles are stored (harvester.go, store/subtitles.go).
HarvestOnce == Harvest!HarvestOnce

\* An import interrupted, resumed or restarted ends in the dictionary of a
\* clean one and loses nothing before its end (dictionary/import.go; runs of
\* two sources that crossed are excused).
ImportedDictionary == Dictionary!ImportedDictionary

\* The same comment of Import without the excuse: a repeated or resumed import
\* of a source gives the same dictionary.
SameAsClean == Dictionary!SameAsClean

\* The same of the corpus, which has one run at a time, and no statement of its
\* end breaks a foreign key (tatoeba/import.go).
ImportedCorpus == Corpus!ImportedCorpus
=============================================================================
