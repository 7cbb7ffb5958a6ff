-------------------------- MODULE BackgroundProofs --------------------------
(***************************************************************************)
(* What the scheduler, the harvesters and the calendar jobs promise,       *)
(* proved of Background for every value of its constants.                  *)
(***************************************************************************)
EXTENDS Background, FiniteSetTheorems, TLAPS

\* A step is a step of the scheduler or leaves its state as it is.
LEMMA ScheduleSteps ==
    ASSUME [Next]_vars
    PROVE  \/ UNCHANGED schedule
           \/ Schedule!PeriodTurns \/ Schedule!JobLeaves
           \/ \E w \in Tickers : \/ Schedule!ClaimBegins(w) \/ Schedule!ClaimEnds(w)
                                 \/ Schedule!ClaimFails(w)
  <1>1. CASE UNCHANGED vars
    BY <1>1 DEF vars
  <1>2. CASE ScheduleNext
    BY <1>2 DEF ScheduleNext
  <1>3. CASE CalendarNext \/ HarvestNext \/ DictionaryNext \/ CorpusNext
    <2>1. \E p \in {"calendar", "harvest", "dictionary", "tatoeba"} : Others(p)
      BY <1>3 DEF CalendarNext, HarvestNext, DictionaryNext, CorpusNext
    <2>2. QED
      BY <2>1 DEF Others
  <1>4. QED
    BY <1>1, <1>2, <1>3 DEF Next

-----------------------------------------------------------------------------
\* The scheduler

ScheduleTypes ==
    /\ period \in 1..PeriodLimit /\ slot \in 0..PeriodLimit
    /\ live \in Nat /\ straddled \in BOOLEAN
    /\ tick \in [Tickers -> [period : 0..PeriodLimit, blocked : BOOLEAN]]

\* Unless a statement straddled a period's start, those under way are of one
\* period, and one that is still to insert a job saw none and finds none.
OnePeriod ==
    ~straddled =>
        /\ \A v, w \in Tickers : tick[v].period # 0 /\ tick[w].period # 0 =>
                                     tick[v].period = tick[w].period
        /\ \A w \in Tickers : ~tick[w].blocked /\ slot < tick[w].period => live = 0
        /\ live <= 1

ScheduleInv == ScheduleTypes /\ OnePeriod

LEMMA ScheduleStep == ScheduleInv /\ [Next]_vars => ScheduleInv'
  <1> SUFFICES ASSUME ScheduleInv, [Next]_vars PROVE ScheduleInv'
      OBVIOUS
  <1> USE DEF ScheduleInv, ScheduleTypes, OnePeriod
  <1>0. PeriodLimit \in Nat
    BY BackgroundAssumption DEF Schedule!SchedulerAssumption
  <1>1. CASE UNCHANGED schedule
    BY <1>1 DEF schedule
  <1>2. CASE Schedule!PeriodTurns
    BY <1>0, <1>2 DEF Schedule!PeriodTurns
  <1>3. CASE Schedule!JobLeaves
    BY <1>0, <1>3 DEF Schedule!JobLeaves
  <1>4. ASSUME NEW w \in Tickers, Schedule!ClaimBegins(w) PROVE ScheduleInv'
    <2>1. /\ tick' = [tick EXCEPT ![w] = [period |-> period, blocked |-> live > 0]]
          /\ UNCHANGED <<period, slot, live>>
          /\ straddled' = (straddled \/ \E v \in Tickers : tick[v].period \notin {0, period})
      BY <1>4 DEF Schedule!ClaimBegins, Schedule!Blocked
    <2>2. [period |-> period, blocked |-> live > 0] \in [period : 0..PeriodLimit, blocked : BOOLEAN]
      BY <1>0
    <2>3. ScheduleTypes'
      <3>1. straddled' \in BOOLEAN
        BY <2>1
      <3>2. QED
        BY <2>1, <2>2, <3>1
    <2>4. OnePeriod'
      <3>1. /\ tick'[w].period = period /\ (~tick'[w].blocked => ~(live > 0))
            /\ \A v \in Tickers : v # w => tick'[v] = tick[v]
        BY <2>1
      <3>2. ~straddled' => ~straddled /\ \A v \in Tickers : tick[v].period \in {0, period}
        BY <2>1
      <3>3. QED
        BY <1>0, <2>1, <3>1, <3>2
    <2>5. QED
      BY <2>3, <2>4
  <1>5. ASSUME NEW w \in Tickers, Schedule!ClaimEnds(w) PROVE ScheduleInv'
    BY <1>0, <1>5 DEF Schedule!ClaimEnds, Schedule!Advances, Schedule!Idle
  <1>6. ASSUME NEW w \in Tickers, Schedule!ClaimFails(w) PROVE ScheduleInv'
    BY <1>0, <1>6 DEF Schedule!ClaimFails, Schedule!Idle
  <1>7. QED
    BY <1>1, <1>2, <1>3, <1>4, <1>5, <1>6, ScheduleSteps

LEMMA ScheduleInit == Init => ScheduleInv
  <1> SUFFICES ASSUME Init PROVE ScheduleInv
      OBVIOUS
  <1>1. PeriodLimit \in Nat \ {0}
    BY BackgroundAssumption DEF Schedule!SchedulerAssumption
  <1>2. /\ period = 1 /\ slot = 0 /\ live = 0 /\ straddled = FALSE
        /\ tick = [w \in Tickers |-> [period |-> 0, blocked |-> FALSE]]
    BY DEF Init, Schedule!Init, Schedule!Idle
  <1>3. [period |-> 0, blocked |-> FALSE] \in [period : 0..PeriodLimit, blocked : BOOLEAN]
    BY <1>1
  <1>4. ScheduleTypes
    <2>1. tick \in [Tickers -> [period : 0..PeriodLimit, blocked : BOOLEAN]]
      BY <1>2, <1>3
    <2>2. straddled \in BOOLEAN
      BY <1>2
    <2>3. period \in 1..PeriodLimit /\ slot \in 0..PeriodLimit /\ live \in Nat
      BY <1>1, <1>2
    <2>4. QED
      BY <2>1, <2>2, <2>3 DEF ScheduleTypes
  <1>5. OnePeriod
    BY <1>2 DEF OnePeriod
  <1>6. QED
    BY <1>4, <1>5 DEF ScheduleInv

\* However many workers tick, a periodic kind has one live job, unless two
\* ticks met on both sides of a period's start.
THEOREM OneLiveJobCorrect == Spec => []OneLiveJob
  <1>1. ScheduleInv => OneLiveJob
    BY DEF ScheduleInv, OnePeriod, OneLiveJob, Schedule!OneLiveJob
  <1>2. QED
    BY <1>1, ScheduleInit, ScheduleStep, PTL DEF Spec

-----------------------------------------------------------------------------
\* The harvesters

LEMMA HarvestSteps ==
    ASSUME [Next]_vars
    PROVE  \/ UNCHANGED harvest
           \/ Harvest!Tick \/ \E feed \in SUBSET Videos : Harvest!Poll(feed)
           \/ \E m \in Machines, v \in Videos : Harvest!Take(m, v)
           \/ \E m \in Machines : \/ Harvest!IsBlocked(m) \/ Harvest!Succeeds(m)
                                  \/ Harvest!Breaks(m) \/ Harvest!NoRunner(m)
                                  \/ Harvest!SaveSubtitles(m) \/ Harvest!FailHarvest(m)
                                  \/ Harvest!Restart(m)
  <1>1. CASE UNCHANGED vars
    BY <1>1 DEF vars
  <1>2. CASE HarvestNext
    BY <1>2 DEF HarvestNext
  <1>3. CASE CalendarNext \/ ScheduleNext \/ DictionaryNext \/ CorpusNext
    <2>1. \E p \in {"calendar", "schedule", "dictionary", "tatoeba"} : Others(p)
      BY <1>3 DEF CalendarNext, ScheduleNext, DictionaryNext, CorpusNext
    <2>2. QED
      BY <2>1 DEF Others
  <1>4. QED
    BY <1>1, <1>2, <1>3 DEF Next

Video == [known : BOOLEAN, stored : BOOLEAN, attempts : Nat, error : BOOLEAN, due : Nat]
Fetch == [step : {"fetch", "save", "fail"}, video : Videos, since : Nat]
Pace == [strikes : Nat, until : Int]

HarvestTypes ==
    /\ now \in Nat /\ now <= Horizon
    /\ video \in [Videos -> Video]
    /\ fetching \in [Machines -> Fetch \cup {Harvest!Idle}]
    /\ pace \in [Machines -> Pace]
    /\ shared \subseteq Videos

\* The attempts of a video and its fetches under way, each of which may fail.
FewFetches(v) ==
    video[v].attempts + Cardinality(Harvest!Holders(v))
        <= HarvestAttempts - 1 + Cardinality(Machines)

\* A video that only one machine had at a time is fetched while attempts are
\* left and nothing is stored.
OneFetch(v) ==
    v \notin shared =>
        /\ \A m, n \in Harvest!Holders(v) : m = n
        /\ Harvest!Holders(v) # {} => video[v].attempts < HarvestAttempts /\ ~video[v].stored
        /\ video[v].attempts <= HarvestAttempts
        /\ video[v].stored => ~video[v].error

\* A fetch began after its machine's pause, which is never longer than MaxWait.
AfterPause ==
    \A m \in Machines :
        /\ fetching[m].step # "idle" => fetching[m].since >= pace[m].until
        /\ pace[m].until <= now + MaxWait

HarvestInv ==
    /\ HarvestTypes
    /\ \A v \in Videos : FewFetches(v) /\ OneFetch(v)
    /\ AfterPause

LEMMA HarvestConstants ==
    /\ IsFiniteSet(Machines) /\ Cardinality(Machines) \in Nat
    /\ HarvestAttempts \in Nat /\ HarvestAttempts >= 1
    /\ MaxWait \in Nat /\ Horizon \in Nat
  <1>1. IsFiniteSet(Machines)
    BY BackgroundAssumption DEF Harvest!HarvesterAssumption, Harvest!IsFiniteSet, IsFiniteSet
  <1>2. QED
    BY <1>1, BackgroundAssumption, FS_CardinalityType DEF Harvest!HarvesterAssumption

LEMMA SameCardinality == Harvest!Cardinality(Machines) = Cardinality(Machines)
  BY DEF Harvest!Cardinality, Cardinality

LEMMA HoldersCounted ==
    ASSUME NEW v
    PROVE  /\ IsFiniteSet(Harvest!Holders(v)) /\ Cardinality(Harvest!Holders(v)) \in Nat
           /\ Cardinality(Harvest!Holders(v)) <= Cardinality(Machines)
           /\ IsFiniteSet(Harvest!Holders(v)') /\ Cardinality(Harvest!Holders(v)') \in Nat
  <1>1. Harvest!Holders(v) \subseteq Machines /\ Harvest!Holders(v)' \subseteq Machines
    BY DEF Harvest!Holders
  <1>2. QED
    BY <1>1, HarvestConstants, FS_Subset, FS_CardinalityType

\* A step that lets go of videos or does nothing with them.
LEMMA FewerHolders ==
    ASSUME HarvestInv, HarvestTypes', NEW v \in Videos,
           Harvest!Holders(v)' \subseteq Harvest!Holders(v),
           shared' = shared,
           \/ video'[v] = video[v]
           \/ video'[v].attempts = 0 /\ ~video'[v].stored /\ ~video'[v].error
    PROVE  FewFetches(v)' /\ OneFetch(v)'
  <1>1. Cardinality(Harvest!Holders(v)') <= Cardinality(Harvest!Holders(v))
    BY HoldersCounted, FS_Subset
  <1>2. video[v] \in Video /\ video'[v] \in Video
    BY DEF HarvestInv, HarvestTypes
  <1>3. video[v].attempts \in Nat /\ video'[v].attempts \in Nat
        /\ video'[v].attempts <= video[v].attempts
    BY <1>2 DEF Video
  <1>4. video'[v].attempts + Cardinality(Harvest!Holders(v)')
            <= HarvestAttempts - 1 + Cardinality(Machines)
    <2>1. video[v].attempts + Cardinality(Harvest!Holders(v))
            <= HarvestAttempts - 1 + Cardinality(Machines)
      BY DEF HarvestInv, FewFetches
    <2>2. QED
      BY <1>1, <1>3, <2>1, HoldersCounted, HarvestConstants
  <1>5. OneFetch(v)'
    BY <1>3, HarvestConstants DEF HarvestInv, OneFetch
  <1>6. QED
    BY <1>4, <1>5 DEF FewFetches

\* A machine that takes a video was free and had no pause to keep.
LEMMA TakeStep ==
    ASSUME HarvestInv, NEW m \in Machines, NEW v \in Videos, Harvest!Take(m, v)
    PROVE  HarvestInv'
  <1> DEFINE taken == [step |-> "fetch", video |-> v, since |-> now]
  <1>1. /\ fetching[m] = Harvest!Idle /\ now >= pace[m].until
        /\ ~video[v].stored /\ video[v].attempts < HarvestAttempts
        /\ fetching' = [fetching EXCEPT ![m] = taken]
        /\ shared' = IF Harvest!Holders(v) # {} THEN shared \cup {v} ELSE shared
        /\ UNCHANGED <<now, video, pace>>
    BY DEF Harvest!Take, Harvest!Blocked, Harvest!First, Harvest!Waits, HarvestInv,
           HarvestTypes, Pace
  <1>2. taken \in Fetch
    BY DEF HarvestInv, HarvestTypes, Fetch
  <1>3. HarvestTypes'
    BY <1>1, <1>2 DEF HarvestInv, HarvestTypes
  <1>4. /\ fetching'[m] = taken /\ taken.step = "fetch" /\ taken.video = v /\ taken.since = now
        /\ \A n \in Machines : n # m => fetching'[n] = fetching[n]
    BY <1>1 DEF HarvestInv, HarvestTypes
  <1> HIDE DEF taken
  <1>5. AfterPause'
    BY <1>1, <1>4 DEF HarvestInv, AfterPause
  <1>6. ASSUME NEW u \in Videos, u # v PROVE FewFetches(u)' /\ OneFetch(u)'
    <2>1. Harvest!Holders(u)' = Harvest!Holders(u)
      BY <1>1, <1>4, <1>6 DEF Harvest!Holders, Harvest!Idle
    <2>2. video'[u] = video[u] /\ (u \in shared' <=> u \in shared)
      BY <1>1, <1>6
    <2>3. QED
      BY <2>1, <2>2 DEF HarvestInv, FewFetches, OneFetch
  <1>7. FewFetches(v)'
    <2>1. video'[v].attempts \in Nat /\ video'[v].attempts <= HarvestAttempts - 1
      BY <1>1, HarvestConstants DEF HarvestInv, HarvestTypes, Video
    <2>2. Harvest!Holders(v)' \subseteq Machines
      BY DEF Harvest!Holders
    <2>3. Cardinality(Harvest!Holders(v)') <= Cardinality(Machines)
      BY <2>2, HarvestConstants, FS_Subset
    <2>4. video'[v].attempts + Cardinality(Harvest!Holders(v)')
              <= HarvestAttempts - 1 + Cardinality(Machines)
      BY <2>1, <2>3, HoldersCounted, HarvestConstants
    <2>5. QED
      BY <2>4 DEF FewFetches
  <1>8. OneFetch(v)'
    <2>1. CASE Harvest!Holders(v) # {}
      BY <1>1, <2>1 DEF OneFetch
    <2>2. CASE Harvest!Holders(v) = {}
      <3>1. Harvest!Holders(v)' \subseteq {m}
        BY <1>4, <2>2 DEF Harvest!Holders
      <3>2. QED
        BY <1>1, <2>2, <3>1 DEF HarvestInv, OneFetch
    <2>3. QED
      BY <2>1, <2>2
  <1>9. QED
    BY <1>3, <1>5, <1>6, <1>7, <1>8 DEF HarvestInv

\* A machine goes on with its video or lets go of it, and nothing is known of a
\* video that was not known before.
LEMMA GoesOnStep ==
    ASSUME HarvestInv, NEW m \in Machines, NEW fetch,
           fetching' = [fetching EXCEPT ![m] = fetch],
           \/ fetch = Harvest!Idle
           \/ /\ fetch \in Fetch /\ fetching[m] \in Fetch
              /\ fetch.video = fetching[m].video /\ fetch.since = fetching[m].since,
           NEW after \in Pace, pace' = [pace EXCEPT ![m] = after],
           after.until <= now + MaxWait,
           fetch # Harvest!Idle => after.until = pace[m].until,
           UNCHANGED <<now, video, shared>>
    PROVE  HarvestInv'
  <1>1. /\ fetch \in Fetch \cup {Harvest!Idle} /\ fetching \in [Machines -> Fetch \cup {Harvest!Idle}]
        /\ pace \in [Machines -> Pace]
    BY DEF HarvestInv, HarvestTypes
  <1>2. HarvestTypes'
    BY <1>1 DEF HarvestInv, HarvestTypes
  <1>3. /\ fetching'[m] = fetch /\ pace'[m] = after
        /\ \A n \in Machines : n # m => fetching'[n] = fetching[n] /\ pace'[n] = pace[n]
    BY <1>1
  <1>4. Harvest!Idle.step = "idle" /\ \A f \in Fetch : f.step # "idle"
    BY DEF Harvest!Idle, Fetch
  <1>5. AfterPause'
    BY <1>3, <1>4 DEF HarvestInv, AfterPause
  <1>6. \A v \in Videos : Harvest!Holders(v)' \subseteq Harvest!Holders(v)
    BY <1>3, <1>4 DEF Harvest!Holders
  <1>7. QED
    BY <1>2, <1>5, <1>6, FewerHolders DEF HarvestInv

\* A failure uses up an attempt of the video and ends a fetch of it.
LEMMA FailHarvestStep ==
    ASSUME HarvestInv, NEW m \in Machines, Harvest!FailHarvest(m) PROVE HarvestInv'
  <1>1. PICK v \in Videos : fetching[m].video = v /\ fetching[m] \in Fetch
    BY DEF Harvest!FailHarvest, HarvestInv, HarvestTypes, Harvest!Idle, Fetch
  <1> DEFINE failed == [video[v] EXCEPT !.attempts = video[v].attempts + 1, !.error = TRUE,
                                        !.due = now + video[v].attempts + 1]
  <1>2. /\ video[v] \in Video /\ now \in Nat /\ fetching[m].step = "fail"
        /\ video' = [video EXCEPT ![v] = failed]
        /\ fetching' = [fetching EXCEPT ![m] = Harvest!Idle]
        /\ UNCHANGED <<now, pace, shared>>
    <2>1. video[v] \in Video /\ now \in Nat
      BY DEF HarvestInv, HarvestTypes
    <2>2. /\ fetching[m].step = "fail"
          /\ fetching' = [fetching EXCEPT ![m] = Harvest!Idle]
          /\ UNCHANGED <<now, pace, shared>>
      BY DEF Harvest!FailHarvest
    <2>3. video' = [video EXCEPT ![v].attempts = @ + 1, ![v].error = TRUE,
                                 ![v].due = now + video[v].attempts + 1]
      BY <1>1 DEF Harvest!FailHarvest
    <2>4. video' = [video EXCEPT ![v] = failed]
      BY <2>1, <2>3 DEF HarvestInv, HarvestTypes, Video
    <2>5. QED
      BY <2>1, <2>2, <2>4
  <1>3. failed \in Video /\ failed.attempts = video[v].attempts + 1
        /\ failed.stored = video[v].stored /\ video[v].attempts \in Nat
    <2>1. video[v].attempts + 1 \in Nat /\ now + video[v].attempts + 1 \in Nat
      BY <1>2 DEF Video
    <2>2. QED
      BY <1>2, <2>1 DEF Video
  <1> HIDE DEF failed
  <1>4. HarvestTypes'
    BY <1>2, <1>3 DEF HarvestInv, HarvestTypes
  <1>5. /\ video'[v].attempts = video[v].attempts + 1 /\ video'[v].stored = video[v].stored
        /\ \A u \in Videos : u # v => video'[u] = video[u]
        /\ video[v].attempts \in Nat
    BY <1>2, <1>3 DEF HarvestInv, HarvestTypes
  <1>6. /\ fetching'[m].step = "idle"
        /\ \A n \in Machines : n # m => fetching'[n] = fetching[n]
    BY <1>2 DEF HarvestInv, HarvestTypes, Harvest!Idle
  <1>7. m \in Harvest!Holders(v)
    BY <1>1, <1>2 DEF Harvest!Holders
  <1>8. \A u : Harvest!Holders(u)' \subseteq Harvest!Holders(u) \ {m}
    BY <1>6 DEF Harvest!Holders
  <1>9. AfterPause'
    BY <1>2, <1>6 DEF HarvestInv, AfterPause
  <1>10. ASSUME NEW u \in Videos, u # v PROVE FewFetches(u)' /\ OneFetch(u)'
    BY <1>2, <1>4, <1>5, <1>8, <1>10, FewerHolders
  <1>11. FewFetches(v)'
    <2>1. IsFiniteSet(Harvest!Holders(v) \ {m})
          /\ Cardinality(Harvest!Holders(v) \ {m}) = Cardinality(Harvest!Holders(v)) - 1
      BY <1>7, HoldersCounted, FS_RemoveElement
    <2>2. Cardinality(Harvest!Holders(v)') <= Cardinality(Harvest!Holders(v)) - 1
      BY <1>8, <2>1, FS_Subset
    <2>3. video[v].attempts + Cardinality(Harvest!Holders(v))
              <= HarvestAttempts - 1 + Cardinality(Machines)
      BY DEF HarvestInv, FewFetches
    <2>4. video'[v].attempts + Cardinality(Harvest!Holders(v)')
              <= HarvestAttempts - 1 + Cardinality(Machines)
      BY <1>5, <2>2, <2>3, HoldersCounted, HarvestConstants
    <2>5. QED
      BY <2>4 DEF FewFetches
  <1>12. OneFetch(v)'
    <2> SUFFICES ASSUME v \notin shared
                 PROVE  /\ Harvest!Holders(v)' = {}
                        /\ video'[v].attempts <= HarvestAttempts /\ ~video'[v].stored
        BY <1>2 DEF OneFetch
    <2>1. /\ \A n \in Harvest!Holders(v) : n = m
          /\ video[v].attempts < HarvestAttempts /\ ~video[v].stored
      BY <1>7 DEF HarvestInv, OneFetch
    <2>2. QED
      BY <1>5, <1>8, <2>1, HarvestConstants
  <1>13. QED
    BY <1>4, <1>9, <1>10, <1>11, <1>12 DEF HarvestInv

LEMMA SaveSubtitlesStep ==
    ASSUME HarvestInv, NEW m \in Machines, Harvest!SaveSubtitles(m) PROVE HarvestInv'
  <1>1. PICK v \in Videos : fetching[m].video = v /\ fetching[m] \in Fetch
    BY DEF Harvest!SaveSubtitles, HarvestInv, HarvestTypes, Harvest!Idle, Fetch
  <1>2. /\ video[v] \in Video /\ fetching[m].step = "save"
        /\ video' = [video EXCEPT ![v] = [video[v] EXCEPT !.stored = TRUE, !.error = FALSE]]
        /\ fetching' = [fetching EXCEPT ![m] = Harvest!Idle]
        /\ UNCHANGED <<now, pace, shared>>
    BY <1>1 DEF Harvest!SaveSubtitles, HarvestInv, HarvestTypes
  <1>3. /\ [video[v] EXCEPT !.stored = TRUE, !.error = FALSE] \in Video
        /\ [video[v] EXCEPT !.stored = TRUE, !.error = FALSE].attempts = video[v].attempts
        /\ [video[v] EXCEPT !.stored = TRUE, !.error = FALSE].error = FALSE
    BY <1>2 DEF Video
  <1>4. HarvestTypes'
    BY <1>2, <1>3 DEF HarvestInv, HarvestTypes
  <1>5. /\ video'[v].attempts = video[v].attempts /\ ~video'[v].error
        /\ \A u \in Videos : u # v => video'[u] = video[u]
        /\ video[v].attempts \in Nat
    BY <1>2, <1>3 DEF HarvestInv, HarvestTypes, Video
  <1>6. /\ fetching'[m].step = "idle"
        /\ \A n \in Machines : n # m => fetching'[n] = fetching[n]
    BY <1>2 DEF HarvestInv, HarvestTypes, Harvest!Idle
  <1>7. m \in Harvest!Holders(v)
    BY <1>1, <1>2 DEF Harvest!Holders
  <1>8. \A u : Harvest!Holders(u)' \subseteq Harvest!Holders(u) \ {m}
    BY <1>6 DEF Harvest!Holders
  <1>9. AfterPause'
    BY <1>2, <1>6 DEF HarvestInv, AfterPause
  <1>10. ASSUME NEW u \in Videos, u # v PROVE FewFetches(u)' /\ OneFetch(u)'
    BY <1>2, <1>4, <1>5, <1>8, <1>10, FewerHolders
  <1>11. FewFetches(v)'
    <2>1. Cardinality(Harvest!Holders(v)') <= Cardinality(Harvest!Holders(v))
      BY <1>8, HoldersCounted, FS_Subset
    <2>2. video[v].attempts + Cardinality(Harvest!Holders(v))
              <= HarvestAttempts - 1 + Cardinality(Machines)
      BY DEF HarvestInv, FewFetches
    <2>3. video'[v].attempts + Cardinality(Harvest!Holders(v)')
              <= HarvestAttempts - 1 + Cardinality(Machines)
      BY <1>5, <2>1, <2>2, HoldersCounted, HarvestConstants
    <2>4. QED
      BY <2>3 DEF FewFetches
  <1>12. OneFetch(v)'
    <2> SUFFICES ASSUME v \notin shared
                 PROVE  /\ Harvest!Holders(v)' = {}
                        /\ video'[v].attempts <= HarvestAttempts /\ ~video'[v].error
        BY <1>2 DEF OneFetch
    <2>1. \A n \in Harvest!Holders(v) : n = m
      BY <1>7 DEF HarvestInv, OneFetch
    <2>2. QED
      BY <1>5, <1>8, <2>1 DEF HarvestInv, OneFetch
  <1>13. QED
    BY <1>4, <1>9, <1>10, <1>11, <1>12 DEF HarvestInv

LEMMA WaitBound ==
    ASSUME NEW n \in Nat PROVE Harvest!Wait(n + 1) \in Int /\ Harvest!Wait(n + 1) <= MaxWait
  <1>1. 2 ^ (n + 1 - 1) \in Int
    <2>1. n + 1 - 1 \in Nat
      OBVIOUS
    <2>2. \A k \in Nat : 2 ^ k \in Int
      OBVIOUS
    <2>3. QED
      BY <2>1, <2>2
  <1>2. QED
    BY <1>1, HarvestConstants DEF Harvest!Wait

LEMMA PollStep ==
    ASSUME HarvestInv, NEW feed \in SUBSET Videos, Harvest!Poll(feed) PROVE HarvestInv'
  <1> DEFINE new == [Harvest!Unknown EXCEPT !.known = TRUE]
  <1>1. /\ new \in Video /\ new.attempts = 0 /\ new.stored = FALSE /\ new.error = FALSE
    BY DEF Harvest!Unknown, Video
  <1>2. /\ video' = [v \in Videos |-> IF v \in feed /\ ~video[v].known THEN new ELSE video[v]]
        /\ UNCHANGED <<now, fetching, pace, shared>>
    BY DEF Harvest!Poll
  <1> HIDE DEF new
  <1>3. HarvestTypes'
    BY <1>1, <1>2 DEF HarvestInv, HarvestTypes
  <1>4. AfterPause'
    BY <1>2 DEF HarvestInv, AfterPause
  <1>5. \A v \in Videos : /\ Harvest!Holders(v)' = Harvest!Holders(v)
                          /\ video'[v] = video[v] \/ video'[v] = new
    BY <1>2 DEF Harvest!Holders
  <1>6. QED
    BY <1>1, <1>2, <1>3, <1>4, <1>5, FewerHolders DEF HarvestInv

LEMMA HarvestStep == HarvestInv /\ [Next]_vars => HarvestInv'
  <1> SUFFICES ASSUME HarvestInv, [Next]_vars PROVE HarvestInv'
      OBVIOUS
  <1>1. /\ fetching \in [Machines -> Fetch \cup {Harvest!Idle}] /\ pace \in [Machines -> Pace]
        /\ now \in Nat /\ \A m \in Machines : pace[m].until <= now + MaxWait
        /\ Harvest!Idle.step = "idle" /\ \A f \in Fetch : f.step # "idle"
    BY DEF HarvestInv, HarvestTypes, AfterPause, Harvest!Idle, Fetch
  <1>2. CASE UNCHANGED harvest
    <2>1. UNCHANGED <<now, video, fetching, pace, shared>>
      BY <1>2 DEF harvest
    <2>2. \A v : Harvest!Holders(v)' = Harvest!Holders(v)
      BY <2>1 DEF Harvest!Holders
    <2>3. \A v \in Videos : FewFetches(v)' /\ OneFetch(v)'
      BY <2>1, <2>2 DEF HarvestInv, FewFetches, OneFetch
    <2>4. HarvestTypes' /\ AfterPause'
      BY <2>1 DEF HarvestInv, HarvestTypes, AfterPause
    <2>5. QED
      BY <2>3, <2>4 DEF HarvestInv
  <1>3. CASE Harvest!Tick
    <2>1. now < Horizon /\ now' = now + 1 /\ UNCHANGED <<video, fetching, pace, shared>>
      BY <1>3 DEF Harvest!Tick
    <2>2. HarvestTypes'
      BY <2>1, HarvestConstants DEF HarvestInv, HarvestTypes
    <2>3. \A m \in Machines : pace[m].until \in Int
      BY <1>1 DEF Pace
    <2>4. AfterPause'
      BY <1>1, <2>1, <2>3, HarvestConstants DEF HarvestInv, AfterPause
    <2>5. QED
      BY <2>1, <2>2, <2>4 DEF HarvestInv, FewFetches, OneFetch, Harvest!Holders
  <1>4. ASSUME NEW m \in Machines, Harvest!IsBlocked(m) PROVE HarvestInv'
    <2> DEFINE wait == Harvest!Wait(pace[m].strikes + 1)
               after == [pace[m] EXCEPT !.strikes = pace[m].strikes + 1, !.until = now + wait]
    <2>1. pace[m] \in Pace /\ pace[m].strikes \in Nat /\ wait \in Int /\ wait <= MaxWait
      BY <1>1, WaitBound DEF Pace
    <2> HIDE DEF wait
    <2>2. after \in Pace /\ after.until <= now + MaxWait
      <3>1. pace[m].strikes + 1 \in Nat /\ now + wait \in Int /\ now + wait <= now + MaxWait
        BY <1>1, <2>1, HarvestConstants
      <3>2. after \in Pace /\ after.until = now + wait
        BY <2>1, <3>1 DEF Pace
      <3>3. QED
        BY <3>1, <3>2
    <2>3. /\ fetching' = [fetching EXCEPT ![m] = Harvest!Idle]
          /\ pace' = [pace EXCEPT ![m] = after]
          /\ UNCHANGED <<now, video, shared>>
      BY <1>1, <1>4 DEF Harvest!IsBlocked, Harvest!Fetched, wait
    <2> HIDE DEF after
    <2>4. QED
      BY <2>2, <2>3, GoesOnStep
  <1>5. ASSUME NEW m \in Machines, Harvest!Succeeds(m) \/ Harvest!Breaks(m) \/ Harvest!NoRunner(m)
        PROVE HarvestInv'
    <2>1. PICK fetch \in {[fetching[m] EXCEPT !.step = "save"],
                        [fetching[m] EXCEPT !.step = "fail"], Harvest!Idle} :
               fetching' = [fetching EXCEPT ![m] = fetch]
      BY <1>5 DEF Harvest!Succeeds, Harvest!Breaks, Harvest!NoRunner, Harvest!Fetched
    <2>2. fetching[m] \in Fetch /\ UNCHANGED <<now, video, shared>>
      BY <1>1, <1>5 DEF Harvest!Succeeds, Harvest!Breaks, Harvest!NoRunner, Harvest!Fetched
    <2>3. \/ fetch = Harvest!Idle
          \/ /\ fetch \in Fetch
             /\ fetch.video = fetching[m].video /\ fetch.since = fetching[m].since
      BY <2>1, <2>2 DEF Fetch
    <2>4. PICK after \in {pace[m], [pace[m] EXCEPT !.strikes = 0]} :
               pace' = [pace EXCEPT ![m] = after]
      BY <1>1, <1>5 DEF Harvest!Succeeds, Harvest!Breaks, Harvest!NoRunner
    <2>5. after \in Pace /\ after.until = pace[m].until
      BY <1>1, <2>4 DEF Pace
    <2>6. after.until <= now + MaxWait
      BY <1>1, <2>5
    <2>7. QED
      BY <2>1, <2>2, <2>3, <2>4, <2>5, <2>6, GoesOnStep
  <1>6. ASSUME NEW m \in Machines, Harvest!Restart(m) PROVE HarvestInv'
    <2>1. Harvest!Fresh \in Pace /\ Harvest!Fresh.until <= now + MaxWait
      BY <1>1, HarvestConstants DEF Harvest!Fresh, Pace
    <2>2. /\ fetching' = [fetching EXCEPT ![m] = Harvest!Idle]
          /\ pace' = [pace EXCEPT ![m] = Harvest!Fresh]
          /\ UNCHANGED <<now, video, shared>>
      BY <1>6 DEF Harvest!Restart
    <2>3. QED
      BY <2>1, <2>2, GoesOnStep
  <1>7. QED
    BY <1>2, <1>3, <1>4, <1>5, <1>6, HarvestSteps, PollStep, TakeStep, FailHarvestStep,
       SaveSubtitlesStep

LEMMA HarvestInit == Init => HarvestInv
  <1> SUFFICES ASSUME Init PROVE HarvestInv
      OBVIOUS
  <1>1. /\ now = 0 /\ shared = {} /\ video = [v \in Videos |-> Harvest!Unknown]
        /\ fetching = [m \in Machines |-> Harvest!Idle]
        /\ pace = [m \in Machines |-> Harvest!Fresh]
    BY DEF Init, Harvest!Init
  <1>2. /\ Harvest!Unknown \in Video /\ Harvest!Fresh \in Pace
        /\ Harvest!Unknown.attempts = 0 /\ ~Harvest!Unknown.stored
        /\ Harvest!Fresh.until = 0 /\ Harvest!Idle.step = "idle"
    BY DEF Harvest!Unknown, Harvest!Fresh, Harvest!Idle, Video, Pace
  <1>3. HarvestTypes
    BY <1>1, <1>2, HarvestConstants DEF HarvestTypes
  <1>4. AfterPause
    BY <1>1, <1>2, HarvestConstants DEF AfterPause
  <1>5. \A v : Harvest!Holders(v) = {}
    BY <1>1, <1>2 DEF Harvest!Holders
  <1>6. \A v \in Videos : FewFetches(v)
    <2>1. Cardinality({}) = 0
      BY FS_EmptySet
    <2>2. \A v \in Videos : 0 + 0 <= HarvestAttempts - 1 + Cardinality(Machines)
      BY HarvestConstants
    <2>3. QED
      BY <1>1, <1>2, <1>5, <2>1, <2>2 DEF FewFetches
  <1>7. \A v \in Videos : OneFetch(v)
    BY <1>1, <1>2, <1>5, HarvestConstants DEF OneFetch
  <1>8. QED
    BY <1>3, <1>4, <1>6, <1>7 DEF HarvestInv

\* Overlapping harvesters neither fail a video for ever nor fetch it again
\* once its subtitles are stored, and no fetch runs in a pause.
THEOREM HarvestOnceCorrect == Spec => []HarvestOnce
  <1>1. HarvestInv => HarvestOnce
    <2> SUFFICES ASSUME HarvestInv PROVE HarvestOnce
        OBVIOUS
    <2>1. \A v \in Videos : video[v].attempts < HarvestAttempts + Harvest!Cardinality(Machines)
      <3> SUFFICES ASSUME NEW v \in Videos
                   PROVE  video[v].attempts < HarvestAttempts + Cardinality(Machines)
          BY SameCardinality
      <3>1. video[v].attempts \in Nat
        BY DEF HarvestInv, HarvestTypes, Video
      <3>2. video[v].attempts + Cardinality(Harvest!Holders(v))
                <= HarvestAttempts - 1 + Cardinality(Machines)
        BY DEF HarvestInv, FewFetches
      <3>3. QED
        BY <3>1, <3>2, HoldersCounted, HarvestConstants
    <2>2. \A v \in Videos : v \notin shared =>
              /\ video[v].attempts <= HarvestAttempts
              /\ video[v].stored => ~video[v].error /\ Harvest!Holders(v) = {}
      BY DEF HarvestInv, OneFetch
    <2>3. \A m \in Machines : fetching[m].step # "idle" => fetching[m].since >= pace[m].until
      BY DEF HarvestInv, AfterPause
    <2>4. QED
      BY <2>1, <2>2, <2>3 DEF HarvestOnce, Harvest!HarvestOnce
  <1>2. QED
    BY <1>1, HarvestInit, HarvestStep, PTL DEF Spec

-----------------------------------------------------------------------------
\* The calendar of one lesson

LEMMA CalendarSteps ==
    ASSUME [Next]_vars
    PROVE  \/ UNCHANGED calendar
           \/ \E t \in FirstTimes : Calendar!CreateLesson(t)
           \/ \E t \in Times : Calendar!RescheduleLesson(t)
           \/ Calendar!CancelLesson \/ Calendar!StartConsent \/ Calendar!ConsentFails
           \/ Calendar!SetGoogleToken \/ Calendar!Disconnect
           \/ \E n \in 1..TokenLimit : Calendar!Revoke(n)
           \/ Calendar!RemovalAbandoned \/ Calendar!RemovalLockExpires
           \/ \E w \in CalendarWorkers :
                 \/ Calendar!ClaimUpsert(w) \/ Calendar!ReadLesson(w) \/ Calendar!ReadToken(w)
                 \/ Calendar!WriteEvent(w) \/ Calendar!UpsertRevoked(w) \/ Calendar!Recheck(w)
                 \/ Calendar!RemoveStale(w) \/ Calendar!UpsertFails(w)
                 \/ Calendar!UpsertLockExpires(w)
                 \/ Calendar!ClaimRemoval(w) \/ Calendar!RemovalReadsToken(w)
                 \/ Calendar!RemoveEvent(w) \/ Calendar!RemovalRevoked(w)
                 \/ Calendar!RemovalFails(w)
  <1>1. CASE UNCHANGED vars
    BY <1>1 DEF vars
  <1>2. CASE CalendarNext
    BY <1>2 DEF CalendarNext
  <1>3. CASE ScheduleNext \/ HarvestNext \/ DictionaryNext \/ CorpusNext
    <2>1. \E p \in {"schedule", "harvest", "dictionary", "tatoeba"} : Others(p)
      BY <1>3 DEF ScheduleNext, HarvestNext, DictionaryNext, CorpusNext
    <2>2. QED
      BY <2>1 DEF Others
  <1>4. QED
    BY <1>1, <1>2, <1>3 DEF Next

Lesson == [state : {"none", "scheduled", "gone"}, time : Times \cup {NoTime}, id : BOOLEAN]
Removal == [state : {"none", "waiting", "held", "dead", "done"}, attempts : 0..CalendarAttempts]
Held == [job : {"none", "upsert", "removal"},
         at : {"idle", "claimed", "read", "call", "written", "stale"},
         time : Times \cup {NoTime}, token : Nat, attempt : Nat]

AccountTypes ==
    /\ consent \in BOOLEAN /\ (consent => granted < TokenLimit)
    /\ granted \in 0..TokenLimit /\ token \in 0..granted /\ revoked \subseteq 1..granted

CalendarTypes ==
    /\ AccountTypes
    /\ lesson \in Lesson /\ event \in Times \cup {NoTime}
    /\ upserts \in Nat
    /\ removal \in Removal
    /\ removal.state \in {"none", "waiting"} => removal.attempts < CalendarAttempts
    /\ hand \in [CalendarWorkers -> Held]
    /\ {overlap, stray, lapsed} \subseteq BOOLEAN

\* What a hand holds while the lesson is in the state of the given record.
HandSound(l, h) ==
    /\ h.job = "none" <=> h.at = "idle"
    /\ h.at \in {"read", "written", "stale"} => h.job = "upsert"
    /\ h.job = "upsert" => h.attempt \in {0, 1}
    /\ h.at = "stale" \/ h.job = "removal" => l.state = "gone"

\* The removal exists only for a cancelled lesson.
RemovalFollows ==
    /\ lesson.state # "gone" => removal.state = "none"
    /\ \A w \in CalendarWorkers : HandSound(lesson, hand[w])

Writing(w) == hand[w].job = "upsert" /\ hand[w].at \in {"read", "call"}

OneWriter == ~overlap => \A v, w \in CalendarWorkers : Writing(v) /\ Writing(w) => v = w

\* The upsert of w will write the lesson's time with the token of today.
Claimed(w) == hand[w].job = "upsert" /\ hand[w].at = "claimed" /\ hand[w].attempt = 1
Current(w) ==
    /\ Writing(w) /\ hand[w].attempt = 1 /\ hand[w].time = lesson.time
    /\ hand[w].at = "call" => hand[w].token = token

\* A connected teacher's calendar shows the lesson and nobody is about to
\* write another time, or an upsert is still to come, unless one is dead.
Covered ==
    lesson.state = "scheduled" /\ token # 0 /\ ~overlap /\ ~lapsed =>
        \/ upserts > 0
        \/ \E w \in CalendarWorkers : Claimed(w) \/ Current(w)
        \/ /\ event = lesson.time
           /\ \A w \in CalendarWorkers : Writing(w) => hand[w].time = lesson.time

\* Whoever wrote the event of a cancelled lesson is still to look at it again.
Rechecked ==
    removal.state = "done" /\ ~stray =>
        event = NoTime \/ \E w \in CalendarWorkers : hand[w].at \in {"written", "stale"}

CalendarInv == CalendarTypes /\ RemovalFollows /\ OneWriter /\ Covered /\ Rechecked

LEMMA CalendarConstants ==
    /\ NoTime \notin Times /\ FirstTimes \subseteq Times
    /\ CalendarAttempts \in Nat \ {0} /\ TokenLimit \in Nat /\ MoveLimit \in Nat
    /\ FaultLimit \in Nat
  BY BackgroundAssumption DEF Calendar!CalendarAssumption

\* One hand changes.
LEMMA OneHand ==
    ASSUME hand \in [CalendarWorkers -> Held], NEW w \in CalendarWorkers, NEW h \in Held,
           hand' = [hand EXCEPT ![w] = h]
    PROVE  /\ hand' \in [CalendarWorkers -> Held] /\ hand'[w] = h
           /\ \A v \in CalendarWorkers : v # w => hand'[v] = hand[v]
  OBVIOUS

LEMMA IdleHand ==
    /\ Calendar!Idle \in Held /\ Calendar!Idle.job = "none" /\ Calendar!Idle.at = "idle"
    /\ \A l : HandSound(l, Calendar!Idle)
  BY DEF Calendar!Idle, Held, HandSound

LEMMA RemovalTypes ==
    ASSUME removal \in Removal, removal.state = "held"
    PROVE  LET row == Calendar!Retried(removal)
           IN  /\ row \in Removal /\ row.state \in {"waiting", "dead"}
               /\ row.state = "waiting" => row.attempts < CalendarAttempts
  BY CalendarConstants DEF Removal, Calendar!Retried

\* The teacher's requests touch neither the hands nor the event.
LEMMA TeacherStep ==
    ASSUME CalendarInv,
           \/ \E t \in FirstTimes : Calendar!CreateLesson(t)
           \/ \E t \in Times : Calendar!RescheduleLesson(t)
           \/ Calendar!CancelLesson \/ Calendar!StartConsent \/ Calendar!ConsentFails
           \/ Calendar!SetGoogleToken \/ Calendar!Disconnect
           \/ \E n \in 1..TokenLimit : Calendar!Revoke(n)
    PROVE  CalendarInv'
  <1> USE DEF CalendarInv
  <1>1. UNCHANGED <<hand, event, overlap, stray, lapsed>>
    BY DEF Calendar!CreateLesson, Calendar!RescheduleLesson, Calendar!CancelLesson,
           Calendar!StartConsent, Calendar!ConsentFails, Calendar!SetGoogleToken,
           Calendar!Disconnect, Calendar!Revoke, Calendar!queue, Calendar!google, Calendar!rest
  <1>2. OneWriter'
    BY <1>1 DEF OneWriter, Writing
  <1>3. ASSUME NEW t \in FirstTimes, Calendar!CreateLesson(t) PROVE CalendarInv'
    <2>1. /\ lesson.state = "none" /\ UNCHANGED <<consent, token, granted, revoked, removal>>
          /\ lesson' = [state |-> "scheduled", time |-> t, id |-> token # 0]
          /\ upserts' = IF token # 0 THEN upserts + 1 ELSE upserts
      BY <1>3 DEF Calendar!CreateLesson, Calendar!QueueSync, Calendar!calendarConnected,
                  Calendar!account
    <2>2. CalendarTypes'
      <3>1. lesson' \in Lesson
        BY <2>1, CalendarConstants DEF Lesson
      <3>2. QED
        BY <1>1, <2>1, <3>1 DEF CalendarTypes, AccountTypes
    <2>3. RemovalFollows'
      BY <1>1, <2>1 DEF RemovalFollows, HandSound
    <2>4. Covered' /\ Rechecked'
      BY <1>1, <2>1 DEF Covered, Rechecked, RemovalFollows, CalendarTypes
    <2>5. QED
      BY <1>2, <2>2, <2>3, <2>4
  <1>4. ASSUME NEW t \in Times, Calendar!RescheduleLesson(t) PROVE CalendarInv'
    <2>1. /\ lesson.state = "scheduled" /\ UNCHANGED <<consent, token, granted, revoked, removal>>
          /\ lesson' = [lesson EXCEPT !.time = t, !.id = lesson.id \/ token # 0]
          /\ upserts' = IF token # 0 THEN upserts + 1 ELSE upserts
      BY <1>4 DEF Calendar!RescheduleLesson, Calendar!QueueSync, Calendar!calendarConnected,
                  Calendar!account
    <2>2. lesson' \in Lesson /\ lesson'.state = "scheduled"
      <3>1. (lesson.id \/ token # 0) \in BOOLEAN
        OBVIOUS
      <3>2. QED
        BY <2>1, <3>1 DEF CalendarTypes, Lesson
    <2>3. CalendarTypes'
      BY <1>1, <2>1, <2>2 DEF CalendarTypes, AccountTypes
    <2>4. RemovalFollows'
      BY <1>1, <2>1, <2>2 DEF RemovalFollows, HandSound
    <2>5. Covered' /\ Rechecked'
      BY <1>1, <2>1, <2>2 DEF Covered, Rechecked, RemovalFollows, CalendarTypes
    <2>6. QED
      BY <1>2, <2>3, <2>4, <2>5
  <1>5. CASE Calendar!CancelLesson
    <2>1. /\ lesson.state = "scheduled"
          /\ UNCHANGED <<consent, token, granted, revoked, upserts>>
          /\ lesson' = [lesson EXCEPT !.state = "gone"]
          /\ removal' = IF lesson.id THEN [removal EXCEPT !.state = "waiting"] ELSE removal
      BY <1>5 DEF Calendar!CancelLesson, Calendar!account
    <2>2. lesson' \in Lesson /\ lesson'.state = "gone"
      BY <2>1 DEF CalendarTypes, Lesson
    <2>3. /\ removal' \in Removal /\ removal'.attempts = removal.attempts
          /\ removal'.state \in {"none", "waiting"} /\ removal.state = "none"
      BY <2>1 DEF CalendarTypes, Removal, RemovalFollows
    <2>4. CalendarTypes'
      BY <1>1, <2>1, <2>2, <2>3 DEF CalendarTypes, AccountTypes
    <2>5. RemovalFollows' /\ Covered' /\ Rechecked'
      BY <1>1, <2>2, <2>3 DEF RemovalFollows, HandSound, Covered, Rechecked
    <2>6. QED
      BY <1>2, <2>4, <2>5
  <1>6. CASE Calendar!StartConsent \/ Calendar!ConsentFails \/ Calendar!Disconnect
              \/ \E n \in 1..TokenLimit : Calendar!Revoke(n)
    <2>1. /\ UNCHANGED <<lesson, upserts, removal, granted>>
          /\ token' \in {0, token}
      BY <1>6 DEF Calendar!StartConsent, Calendar!ConsentFails, Calendar!Disconnect,
                  Calendar!Revoke, Calendar!queue
    <2>2. AccountTypes'
      <3>1. /\ granted \in 0..TokenLimit /\ token \in 0..granted /\ revoked \subseteq 1..granted
            /\ consent \in BOOLEAN /\ (consent => granted < TokenLimit)
        BY DEF CalendarTypes, AccountTypes
      <3>2. /\ \/ consent' = consent \/ consent' = FALSE
               \/ (consent' = TRUE /\ granted < TokenLimit)
            /\ revoked' = revoked \/ \E n \in 1..granted : revoked' = revoked \cup {n}
        BY <1>6 DEF Calendar!StartConsent, Calendar!ConsentFails, Calendar!Disconnect,
                    Calendar!Revoke
      <3>3. token' \in 0..granted
        BY <2>1, <3>1, CalendarConstants
      <3>4. consent' \in BOOLEAN /\ (consent' => granted < TokenLimit)
        <4>1. CASE consent' = consent
          BY <3>1, <4>1
        <4>2. CASE consent' = FALSE
          BY <4>2
        <4>3. CASE consent' = TRUE /\ granted < TokenLimit
          BY <4>3
        <4>4. QED
          BY <3>2, <4>1, <4>2, <4>3
      <3>5. revoked' \subseteq 1..granted
        BY <3>1, <3>2
      <3>6. QED
        BY <2>1, <3>1, <3>3, <3>4, <3>5 DEF AccountTypes
    <2>3. CalendarTypes' /\ RemovalFollows' /\ Rechecked'
      BY <1>1, <2>1, <2>2 DEF CalendarTypes, RemovalFollows, HandSound, Rechecked
    <2>4. Covered'
      BY <1>1, <2>1 DEF Covered, Claimed, Current, Writing
    <2>5. QED
      BY <1>2, <2>3, <2>4
  <1>7. CASE Calendar!SetGoogleToken
    <2>1. /\ consent /\ consent' = FALSE /\ granted' = granted + 1 /\ token' = granted + 1
          /\ lesson' = [lesson EXCEPT !.id = lesson.id \/ lesson.state = "scheduled"]
          /\ upserts' = IF lesson.state = "scheduled" THEN upserts + 1 ELSE upserts
          /\ removal' = Calendar!Revived(removal) /\ UNCHANGED revoked
      BY <1>7 DEF Calendar!SetGoogleToken, Calendar!Resynced
    <2>2. lesson' \in Lesson /\ lesson'.state = lesson.state
      <3>1. (lesson.id \/ lesson.state = "scheduled") \in BOOLEAN
        OBVIOUS
      <3>2. QED
        BY <2>1, <3>1 DEF CalendarTypes, Lesson
    <2>3. /\ removal' \in Removal /\ removal'.attempts = 0
          /\ removal.state \in {"none", "done"} => removal'.state = removal.state
          /\ removal'.state = "done" => removal.state = "done"
      BY <2>1, CalendarConstants DEF CalendarTypes, Removal, Calendar!Revived
    <2>4. AccountTypes'
      <3>1. /\ granted \in 0..TokenLimit /\ granted < TokenLimit /\ revoked \subseteq 1..granted
        BY <2>1 DEF CalendarTypes, AccountTypes
      <3>2. granted' \in 0..TokenLimit /\ token' \in 0..granted' /\ 1..granted \subseteq 1..granted'
        BY <2>1, <3>1, CalendarConstants
      <3>3. QED
        BY <2>1, <3>1, <3>2 DEF AccountTypes
    <2>5. CalendarTypes'
      BY <1>1, <2>1, <2>2, <2>3, <2>4, CalendarConstants DEF CalendarTypes
    <2>6. RemovalFollows' /\ Rechecked'
      BY <1>1, <2>2, <2>3 DEF RemovalFollows, HandSound, Rechecked
    <2>7. Covered'
      BY <2>1, <2>2 DEF Covered, CalendarTypes
    <2>8. QED
      BY <1>2, <2>5, <2>6, <2>7
  <1>8. QED
    BY <1>3, <1>4, <1>5, <1>6, <1>7

\* What a change of one hand must keep when the account, the lesson and the
\* event stay: types, and the sound hands.
LEMMA HandKept ==
    ASSUME CalendarTypes, RemovalFollows, NEW w \in CalendarWorkers, NEW h \in Held,
           hand' = [hand EXCEPT ![w] = h], HandSound(lesson, h),
           UNCHANGED lesson
    PROVE  /\ hand' \in [CalendarWorkers -> Held]
           /\ \A v \in CalendarWorkers : HandSound(lesson, hand[v])'
           /\ hand'[w] = h /\ \A v \in CalendarWorkers : v # w => hand'[v] = hand[v]
  <1>1. /\ hand' \in [CalendarWorkers -> Held] /\ hand'[w] = h
        /\ \A v \in CalendarWorkers : v # w => hand'[v] = hand[v]
    BY OneHand DEF CalendarTypes
  <1>2. \A v \in CalendarWorkers : HandSound(lesson, hand[v])
    BY DEF RemovalFollows
  <1>3. \A v \in CalendarWorkers : HandSound(lesson', hand'[v])
    BY <1>1, <1>2
  <1>4. QED
    BY <1>1, <1>3

LEMMA ClaimUpsertStep ==
    ASSUME CalendarInv, NEW w \in CalendarWorkers, Calendar!ClaimUpsert(w)
    PROVE  CalendarInv'
  <1> USE DEF CalendarInv
  <1> DEFINE h == [Calendar!Idle EXCEPT !.job = "upsert", !.at = "claimed", !.attempt = 1]
  <1>1. /\ hand[w].at = "idle" /\ hand' = [hand EXCEPT ![w] = h]
        /\ upserts > 0 /\ upserts' = upserts - 1
        /\ UNCHANGED <<lesson, consent, token, granted, revoked, event, removal, overlap, stray, lapsed>>
    BY DEF Calendar!ClaimUpsert, Calendar!account, Calendar!google, Calendar!rest
  <1>2. h \in Held /\ h.job = "upsert" /\ h.at = "claimed" /\ h.attempt = 1
    BY DEF Calendar!Idle, Held
  <1> HIDE DEF h
  <1>3. HandSound(lesson, h)
    BY <1>2 DEF HandSound
  <1>4. /\ hand' \in [CalendarWorkers -> Held]
        /\ \A v \in CalendarWorkers : HandSound(lesson, hand[v])'
        /\ hand'[w] = h /\ \A v \in CalendarWorkers : v # w => hand'[v] = hand[v]
    BY <1>1, <1>2, <1>3, HandKept
  <1>5. CalendarTypes'
    BY <1>1, <1>4 DEF CalendarTypes, AccountTypes
  <1>6. RemovalFollows'
    BY <1>1, <1>4 DEF RemovalFollows
  <1>7. OneWriter'
    BY <1>1, <1>2, <1>4 DEF OneWriter, Writing
  <1>8. Covered'
    BY <1>1, <1>2, <1>4 DEF Covered, Claimed
  <1>9. Rechecked'
    BY <1>1, <1>4 DEF Rechecked
  <1>10. QED
    BY <1>5, <1>6, <1>7, <1>8, <1>9

\* The lesson of a cancelled upsert is left alone; otherwise the worker goes on
\* with the time the lesson has now.
LEMMA ReadLessonStep ==
    ASSUME CalendarInv, NEW w \in CalendarWorkers, Calendar!ReadLesson(w)
    PROVE  CalendarInv'
  <1> USE DEF CalendarInv
  <1> DEFINE r == [hand[w] EXCEPT !.at = "read", !.time = lesson.time]
             h == IF lesson.state = "gone" THEN Calendar!Idle ELSE r
  <1>1. /\ hand[w].job = "upsert" /\ hand[w].at = "claimed"
        /\ overlap' = (overlap \/ \E v \in CalendarWorkers \ {w} : hand[v].at \in {"read", "call"})
        /\ lapsed' = (lapsed /\ hand[w].attempt = 0)
        /\ UNCHANGED <<lesson, consent, token, granted, revoked, event, upserts, removal, stray>>
    BY DEF Calendar!ReadLesson, Calendar!account, Calendar!google
  <1>2. hand[w] \in Held /\ hand[w].attempt \in {0, 1}
    BY <1>1 DEF CalendarTypes, RemovalFollows, HandSound
  <1>3. /\ r \in Held /\ r.job = "upsert" /\ r.at = "read" /\ r.time = lesson.time
        /\ r.attempt = hand[w].attempt
    BY <1>1, <1>2 DEF Held, CalendarTypes, Lesson
  <1>4. hand' = [hand EXCEPT ![w] = h]
    BY <1>2 DEF Calendar!ReadLesson, Calendar!Done, CalendarTypes, Held
  <1> HIDE DEF r
  <1>5. h \in Held /\ HandSound(lesson, h)
    <2>1. HandSound(lesson, r)
      BY <1>2, <1>3 DEF HandSound
    <2>2. QED
      BY <1>3, <2>1, IdleHand
  <1> HIDE DEF h
  <1>6. /\ hand' \in [CalendarWorkers -> Held]
        /\ \A v \in CalendarWorkers : HandSound(lesson, hand[v])'
        /\ hand'[w] = h /\ \A v \in CalendarWorkers : v # w => hand'[v] = hand[v]
    BY <1>1, <1>4, <1>5, HandKept
  <1>7. overlap' \in BOOLEAN /\ lapsed' \in BOOLEAN
    BY <1>1
  <1>8. CalendarTypes'
    BY <1>1, <1>6, <1>7 DEF CalendarTypes, AccountTypes
  <1>9. RemovalFollows'
    BY <1>1, <1>6 DEF RemovalFollows
  <1>10. ~overlap' => ~overlap /\ \A v \in CalendarWorkers : v # w => ~Writing(v)
    BY <1>1 DEF Writing
  <1>11. OneWriter'
    BY <1>6, <1>10 DEF OneWriter, Writing
  <1>12. Covered'
    <2> SUFFICES ASSUME lesson.state = "scheduled", token # 0, ~overlap', ~lapsed', upserts = 0
                 PROVE  \/ \E v \in CalendarWorkers : Claimed(v)' \/ Current(v)'
                        \/ /\ event = lesson.time
                           /\ \A v \in CalendarWorkers : Writing(v)' => hand'[v].time = lesson.time
        BY <1>1 DEF Covered, CalendarTypes
    <2>1. h.job = "upsert" /\ h.at = "read" /\ h.time = lesson.time /\ h.attempt = hand[w].attempt
      BY <1>3 DEF h
    <2>2. \/ \E v \in CalendarWorkers : Claimed(v) \/ Current(v)
          \/ event = lesson.time
      <3>1. CASE lapsed
        <4>1. hand[w].attempt = 1
          BY <1>1, <1>2, <3>1
        <4>2. QED
          BY <1>1, <4>1 DEF Claimed
      <3>2. CASE ~lapsed
        BY <1>10, <3>2 DEF Covered
      <3>3. QED
        BY <3>1, <3>2
    <2>3. CASE \E v \in CalendarWorkers : v # w /\ (Claimed(v) \/ Current(v))
      BY <1>1, <1>6, <2>3 DEF Claimed, Current, Writing
    <2>4. CASE Claimed(w) \/ Current(w)
      BY <1>1, <1>6, <2>1, <2>4 DEF Claimed, Current, Writing
    <2>5. CASE event = lesson.time
      BY <1>1, <1>6, <1>10, <2>1, <2>5 DEF Writing
    <2>6. QED
      BY <2>2, <2>3, <2>4, <2>5
  <1>13. Rechecked'
    BY <1>1, <1>6 DEF Rechecked
  <1>14. QED
    BY <1>8, <1>9, <1>11, <1>12, <1>13

\* Without a token the upsert is dropped and nothing needs to be shown.
LEMMA ReadTokenStep ==
    ASSUME CalendarInv, NEW w \in CalendarWorkers, Calendar!ReadToken(w)
    PROVE  CalendarInv'
  <1> USE DEF CalendarInv
  <1> DEFINE r == [hand[w] EXCEPT !.at = "call", !.token = token]
             h == IF token = 0 THEN Calendar!Idle ELSE r
  <1>1. /\ hand[w].job = "upsert" /\ hand[w].at = "read"
        /\ UNCHANGED <<lesson, consent, token, granted, revoked, event, upserts, removal,
                       overlap, stray, lapsed>>
    BY DEF Calendar!ReadToken, Calendar!account, Calendar!google, Calendar!rest
  <1>2. hand[w] \in Held /\ hand[w].attempt \in {0, 1} /\ token \in Nat
    BY <1>1, CalendarConstants DEF CalendarTypes, AccountTypes, RemovalFollows, HandSound
  <1>3. /\ r \in Held /\ r.job = "upsert" /\ r.at = "call" /\ r.token = token
        /\ r.time = hand[w].time /\ r.attempt = hand[w].attempt
    BY <1>1, <1>2 DEF Held
  <1>4. hand' = [hand EXCEPT ![w] = h]
    BY <1>2 DEF Calendar!ReadToken, Calendar!Done, CalendarTypes, Held
  <1> HIDE DEF r
  <1>5. h \in Held /\ HandSound(lesson, h)
    <2>1. HandSound(lesson, r)
      BY <1>2, <1>3 DEF HandSound
    <2>2. QED
      BY <1>3, <2>1, IdleHand
  <1>6. token # 0 => h = r
    OBVIOUS
  <1> HIDE DEF h
  <1>7. /\ hand' \in [CalendarWorkers -> Held]
        /\ \A v \in CalendarWorkers : HandSound(lesson, hand[v])'
        /\ hand'[w] = h /\ \A v \in CalendarWorkers : v # w => hand'[v] = hand[v]
    BY <1>1, <1>4, <1>5, HandKept
  <1>8. CalendarTypes'
    BY <1>1, <1>7 DEF CalendarTypes, AccountTypes
  <1>9. RemovalFollows'
    BY <1>1, <1>7 DEF RemovalFollows
  <1>10. h.job = "upsert" => token # 0
    BY IdleHand DEF h
  <1>11. \A v \in CalendarWorkers : Writing(v)' => Writing(v)
    BY <1>1, <1>7 DEF Writing
  <1>12. OneWriter'
    BY <1>1, <1>11 DEF OneWriter
  <1>13. Covered'
    BY <1>1, <1>3, <1>6, <1>7 DEF Covered, Claimed, Current, Writing
  <1>14. Rechecked'
    BY <1>1, <1>7 DEF Rechecked
  <1>15. QED
    BY <1>8, <1>9, <1>12, <1>13, <1>14

\* The event gets the time the worker holds: the lesson's, if it was covered,
\* for nobody else is writing.
LEMMA WriteEventStep ==
    ASSUME CalendarInv, NEW w \in CalendarWorkers, Calendar!WriteEvent(w)
    PROVE  CalendarInv'
  <1> USE DEF CalendarInv
  <1> DEFINE h == [hand[w] EXCEPT !.at = "written"]
  <1>1. /\ hand[w].job = "upsert" /\ hand[w].at = "call" /\ event' = hand[w].time
        /\ UNCHANGED <<lesson, consent, token, granted, revoked, upserts, removal,
                       overlap, stray, lapsed>>
    BY DEF Calendar!WriteEvent, Calendar!account, Calendar!rest
  <1>2. hand[w] \in Held /\ hand[w].attempt \in {0, 1} /\ hand[w].time \in Times \cup {NoTime}
    BY <1>1 DEF CalendarTypes, RemovalFollows, HandSound, Held
  <1>3. h \in Held /\ h.job = "upsert" /\ h.at = "written" /\ h.attempt = hand[w].attempt
    BY <1>1, <1>2 DEF Held
  <1>4. hand' = [hand EXCEPT ![w] = h]
    BY <1>2 DEF Calendar!WriteEvent, Calendar!Goes, CalendarTypes, Held
  <1> HIDE DEF h
  <1>5. HandSound(lesson, h)
    BY <1>2, <1>3 DEF HandSound
  <1>6. /\ hand' \in [CalendarWorkers -> Held]
        /\ \A v \in CalendarWorkers : HandSound(lesson, hand[v])'
        /\ hand'[w] = h /\ \A v \in CalendarWorkers : v # w => hand'[v] = hand[v]
    BY <1>1, <1>3, <1>4, <1>5, HandKept
  <1>7. CalendarTypes'
    BY <1>1, <1>2, <1>6 DEF CalendarTypes, AccountTypes
  <1>8. RemovalFollows'
    BY <1>1, <1>6 DEF RemovalFollows
  <1>9. Writing(w) /\ \A v \in CalendarWorkers : Writing(v)' => v # w /\ Writing(v)
    BY <1>1, <1>3, <1>6 DEF Writing
  <1>10. OneWriter'
    BY <1>1, <1>9 DEF OneWriter
  <1>11. Covered'
    <2> SUFFICES ASSUME lesson.state = "scheduled", token # 0, ~overlap, ~lapsed, upserts = 0
                 PROVE  \/ \E v \in CalendarWorkers : Claimed(v)'
                        \/ /\ event' = lesson.time
                           /\ \A v \in CalendarWorkers : Writing(v)' => hand'[v].time = lesson.time
        BY <1>1 DEF Covered, CalendarTypes
    <2>1. \A v \in CalendarWorkers : ~Writing(v)'
      BY <1>9 DEF OneWriter
    <2>2. CASE \E v \in CalendarWorkers : Claimed(v)
      BY <1>1, <1>6, <2>2 DEF Claimed
    <2>3. CASE hand[w].time = lesson.time
      BY <1>1, <2>1, <2>3
    <2>4. ASSUME NEW v \in CalendarWorkers, Current(v) PROVE hand[w].time = lesson.time
      BY <1>9, <2>4 DEF Current, OneWriter
    <2>5. QED
      BY <1>9, <2>2, <2>3, <2>4 DEF Covered
  <1>12. Rechecked'
    BY <1>3, <1>6 DEF Rechecked
  <1>13. QED
    BY <1>7, <1>8, <1>10, <1>11, <1>12

\* The token that no longer works is cleared, if it is the one of today.
LEMMA UpsertRevokedStep ==
    ASSUME CalendarInv, NEW w \in CalendarWorkers, Calendar!UpsertRevoked(w)
    PROVE  CalendarInv'
  <1> USE DEF CalendarInv
  <1>1. /\ hand[w].job = "upsert" /\ hand[w].at \in {"call", "stale"}
        /\ token' = IF token = hand[w].token THEN 0 ELSE token
        /\ hand' = [hand EXCEPT ![w] = Calendar!Idle]
        /\ stray' = (stray \/ hand[w].at = "stale")
        /\ UNCHANGED <<lesson, consent, granted, revoked, event, upserts, removal, overlap,
                       lapsed>>
    BY DEF Calendar!UpsertRevoked, Calendar!Cleared, Calendar!Done, Calendar!google
  <1>2. /\ hand' \in [CalendarWorkers -> Held]
        /\ \A v \in CalendarWorkers : HandSound(lesson, hand[v])'
        /\ hand'[w] = Calendar!Idle /\ \A v \in CalendarWorkers : v # w => hand'[v] = hand[v]
    BY <1>1, IdleHand, HandKept
  <1>3. CalendarTypes'
    <2>1. token' \in 0..granted /\ stray' \in BOOLEAN
      BY <1>1, CalendarConstants DEF CalendarTypes, AccountTypes
    <2>2. QED
      BY <1>1, <1>2, <2>1 DEF CalendarTypes, AccountTypes
  <1>4. RemovalFollows'
    BY <1>1, <1>2 DEF RemovalFollows
  <1>5. \A v \in CalendarWorkers : Writing(v)' => v # w /\ Writing(v)
    BY <1>2, IdleHand DEF Writing
  <1>6. OneWriter'
    BY <1>1, <1>5 DEF OneWriter
  <1>7. Covered'
    <2> SUFFICES ASSUME lesson.state = "scheduled", token' # 0, ~overlap
                 PROVE  Covered'
        BY <1>1 DEF Covered
    <2>1. token' = token /\ ~Claimed(w) /\ ~Current(w)
      BY <1>1 DEF Claimed, Current, RemovalFollows, HandSound
    <2>2. QED
      BY <1>1, <1>2, <1>5, <2>1 DEF Covered, Claimed, Current, Writing
  <1>8. Rechecked'
    BY <1>1, <1>2 DEF Rechecked
  <1>9. QED
    BY <1>3, <1>4, <1>6, <1>7, <1>8

LEMMA RecheckStep ==
    ASSUME CalendarInv, NEW w \in CalendarWorkers, Calendar!Recheck(w)
    PROVE  CalendarInv'
  <1> USE DEF CalendarInv
  <1> DEFINE r == [hand[w] EXCEPT !.at = "stale"]
             h == IF lesson.state = "gone" THEN r ELSE Calendar!Idle
  <1>1. /\ hand[w].job = "upsert" /\ hand[w].at = "written"
        /\ UNCHANGED <<lesson, consent, token, granted, revoked, event, upserts, removal,
                       overlap, stray, lapsed>>
    BY DEF Calendar!Recheck, Calendar!account, Calendar!google, Calendar!rest, RemovalFollows,
           HandSound
  <1>2. hand[w] \in Held /\ hand[w].attempt \in {0, 1}
    BY <1>1 DEF CalendarTypes, RemovalFollows, HandSound
  <1>3. /\ r \in Held /\ r.job = "upsert" /\ r.at = "stale" /\ r.attempt = hand[w].attempt
    BY <1>1, <1>2 DEF Held
  <1>4. hand' = [hand EXCEPT ![w] = h]
    BY <1>2 DEF Calendar!Recheck, Calendar!Done, Calendar!Goes, CalendarTypes, Held
  <1> HIDE DEF r
  <1>5. /\ h \in Held /\ HandSound(lesson, h) /\ h.at \in {"idle", "stale"}
        /\ lesson.state = "gone" => h.at = "stale"
    <2>1. lesson.state = "gone" => HandSound(lesson, r)
      BY <1>2, <1>3 DEF HandSound
    <2>2. QED
      BY <1>3, <2>1, IdleHand
  <1> HIDE DEF h
  <1>6. /\ hand' \in [CalendarWorkers -> Held]
        /\ \A v \in CalendarWorkers : HandSound(lesson, hand[v])'
        /\ hand'[w] = h /\ \A v \in CalendarWorkers : v # w => hand'[v] = hand[v]
    BY <1>1, <1>4, <1>5, HandKept
  <1>7. CalendarTypes'
    BY <1>1, <1>6 DEF CalendarTypes, AccountTypes
  <1>8. RemovalFollows'
    BY <1>1, <1>6 DEF RemovalFollows
  <1>9. /\ ~Claimed(w) /\ ~Current(w)
        /\ \A v \in CalendarWorkers : Writing(v)' => v # w /\ Writing(v)
    BY <1>1, <1>5, <1>6 DEF Writing, Claimed, Current
  <1>10. OneWriter'
    BY <1>1, <1>9 DEF OneWriter
  <1>11. Covered'
    BY <1>1, <1>6, <1>9 DEF Covered, Claimed, Current, Writing
  <1>12. Rechecked'
    BY <1>1, <1>5, <1>6 DEF Rechecked, RemovalFollows
  <1>13. QED
    BY <1>7, <1>8, <1>10, <1>11, <1>12

LEMMA RemoveStaleStep ==
    ASSUME CalendarInv, NEW w \in CalendarWorkers, Calendar!RemoveStale(w)
    PROVE  CalendarInv'
  <1> USE DEF CalendarInv
  <1>1. /\ hand[w].at = "stale" /\ lesson.state = "gone" /\ event' = NoTime
        /\ hand' = [hand EXCEPT ![w] = Calendar!Idle]
        /\ UNCHANGED <<lesson, consent, token, granted, revoked, upserts, removal,
                       overlap, stray, lapsed>>
    BY DEF Calendar!RemoveStale, Calendar!Done, Calendar!account, Calendar!rest, RemovalFollows,
           HandSound
  <1>2. /\ hand' \in [CalendarWorkers -> Held]
        /\ \A v \in CalendarWorkers : HandSound(lesson, hand[v])'
        /\ hand'[w] = Calendar!Idle /\ \A v \in CalendarWorkers : v # w => hand'[v] = hand[v]
    BY <1>1, IdleHand, HandKept
  <1>3. CalendarTypes' /\ RemovalFollows'
    BY <1>1, <1>2 DEF CalendarTypes, AccountTypes, RemovalFollows
  <1>4. \A v \in CalendarWorkers : Writing(v)' => Writing(v)
    BY <1>2, IdleHand DEF Writing
  <1>5. OneWriter' /\ Covered' /\ Rechecked'
    BY <1>1, <1>4 DEF OneWriter, Covered, Rechecked
  <1>6. QED
    BY <1>3, <1>5

\* Whoever still owns its row puts it back; who had written the event may have
\* left it behind.
LEMMA UpsertFailsStep ==
    ASSUME CalendarInv, NEW w \in CalendarWorkers, Calendar!UpsertFails(w)
    PROVE  CalendarInv'
  <1> USE DEF CalendarInv
  <1>1. /\ hand[w].job = "upsert"
        /\ \/ hand[w].attempt = 1 /\ upserts' = upserts + 1 /\ lapsed' = lapsed
           \/ hand[w].attempt = 1 /\ upserts' = upserts /\ lapsed' = TRUE
           \/ hand[w].attempt # 1 /\ upserts' = upserts /\ lapsed' = lapsed
        /\ hand' = [hand EXCEPT ![w] = Calendar!Idle]
        /\ stray' = (stray \/ hand[w].at \in {"written", "stale"})
        /\ UNCHANGED <<lesson, consent, token, granted, revoked, event, removal, overlap>>
    BY DEF Calendar!UpsertFails, Calendar!Unsettled, Calendar!Done, Calendar!account, Calendar!google
  <1>2. /\ hand' \in [CalendarWorkers -> Held]
        /\ \A v \in CalendarWorkers : HandSound(lesson, hand[v])'
        /\ hand'[w] = Calendar!Idle /\ \A v \in CalendarWorkers : v # w => hand'[v] = hand[v]
    BY <1>1, IdleHand, HandKept
  <1>3. /\ upserts \in Nat /\ hand[w].attempt \in {0, 1} /\ upserts' \in Nat
        /\ lapsed' \in BOOLEAN /\ (~lapsed' => ~lapsed)
    <2>1. upserts \in Nat /\ hand[w].attempt \in {0, 1} /\ lapsed \in BOOLEAN
      BY <1>1 DEF CalendarTypes, RemovalFollows, HandSound
    <2>2. upserts' \in Nat
      BY <1>1, <2>1
    <2>3. lapsed' \in BOOLEAN /\ (~lapsed' => ~lapsed)
      BY <1>1, <2>1
    <2>4. QED
      BY <2>1, <2>2, <2>3
  <1>4. CalendarTypes'
    <2>1. stray' \in BOOLEAN
      BY <1>1
    <2>2. QED
      BY <1>1, <1>2, <1>3, <2>1 DEF CalendarTypes, AccountTypes
  <1>5. RemovalFollows'
    BY <1>1, <1>2 DEF RemovalFollows
  <1>6. \A v \in CalendarWorkers : Writing(v)' => v # w /\ Writing(v)
    BY <1>2, IdleHand DEF Writing
  <1>7. OneWriter'
    BY <1>1, <1>6 DEF OneWriter
  <1>8. Covered'
    <2>1. Claimed(w) \/ Current(w) => upserts' > 0 \/ lapsed'
      BY <1>1, <1>3 DEF Claimed, Current
    <2>2. upserts > 0 => upserts' > 0
      BY <1>1, <1>3
    <2>3. QED
      BY <1>1, <1>2, <1>6, <2>1, <2>2 DEF Covered, Claimed, Current, Writing
  <1>9. Rechecked'
    BY <1>1, <1>2 DEF Rechecked
  <1>10. QED
    BY <1>4, <1>5, <1>7, <1>8, <1>9

LEMMA UpsertLockExpiresStep ==
    ASSUME CalendarInv, NEW w \in CalendarWorkers, Calendar!UpsertLockExpires(w)
    PROVE  CalendarInv'
  <1> USE DEF CalendarInv
  <1> DEFINE h == [hand[w] EXCEPT !.attempt = 0]
  <1>1. /\ hand[w].job = "upsert"
        /\ \/ upserts' = upserts + 1 /\ lapsed' = lapsed
           \/ upserts' = upserts /\ lapsed' = TRUE
        /\ UNCHANGED <<lesson, consent, token, granted, revoked, event, removal, overlap, stray>>
    BY DEF Calendar!UpsertLockExpires, Calendar!Unsettled, Calendar!account, Calendar!google
  <1>2. hand[w] \in Held
    BY DEF CalendarTypes
  <1>3. h \in Held /\ h.job = "upsert" /\ h.attempt = 0 /\ h.at = hand[w].at
    BY <1>1, <1>2 DEF Held
  <1>4. hand' = [hand EXCEPT ![w] = h]
    BY <1>2 DEF Calendar!UpsertLockExpires, CalendarTypes, Held
  <1> HIDE DEF h
  <1>5. HandSound(lesson, h)
    BY <1>1, <1>3 DEF RemovalFollows, HandSound
  <1>6. /\ hand' \in [CalendarWorkers -> Held]
        /\ \A v \in CalendarWorkers : HandSound(lesson, hand[v])'
        /\ hand'[w] = h /\ \A v \in CalendarWorkers : v # w => hand'[v] = hand[v]
    BY <1>1, <1>3, <1>4, <1>5, HandKept
  <1>7. upserts' \in Nat /\ lapsed' \in BOOLEAN /\ (upserts' > 0 \/ lapsed')
    <2>1. upserts \in Nat /\ lapsed \in BOOLEAN
      BY DEF CalendarTypes
    <2>2. CASE upserts' = upserts + 1 /\ lapsed' = lapsed
      BY <2>1, <2>2
    <2>3. CASE upserts' = upserts /\ lapsed' = TRUE
      BY <2>1, <2>3
    <2>4. QED
      BY <1>1, <2>2, <2>3
  <1>8. CalendarTypes' /\ RemovalFollows' /\ Covered'
    BY <1>1, <1>6, <1>7 DEF CalendarTypes, AccountTypes, RemovalFollows, Covered
  <1>9. OneWriter' /\ Rechecked'
    BY <1>1, <1>3, <1>6 DEF OneWriter, Writing, Rechecked
  <1>10. QED
    BY <1>8, <1>9

\* A removal that settles, whatever its outcome, is done only if it says so.
LEMMA SettleTypes ==
    ASSUME CalendarTypes, NEW w \in CalendarWorkers, NEW outcome,
           Calendar!Settle(w, outcome)
    PROVE  /\ removal' \in Removal
           /\ removal'.state \in {"none", "waiting"} => removal'.attempts < CalendarAttempts
           /\ removal.state = "none" => removal'.state = "none"
           /\ removal'.state = "done" => removal.state = "done" \/ outcome = "done"
           /\ hand' = [hand EXCEPT ![w] = Calendar!Idle]
  <1>1. CASE ~Calendar!Owns(w)
    BY <1>1 DEF Calendar!Settle, Calendar!Done, CalendarTypes
  <1>2. CASE Calendar!Owns(w) /\ outcome = "done"
    BY <1>2 DEF Calendar!Settle, Calendar!Done, Calendar!Owns, CalendarTypes, Removal
  <1>3. CASE Calendar!Owns(w) /\ outcome # "done"
    BY <1>3, RemovalTypes DEF Calendar!Settle, Calendar!Done, Calendar!Owns, CalendarTypes
  <1>4. QED
    BY <1>1, <1>2, <1>3

\* The steps of a removal, and of its lock: the lesson is gone, and of the hands
\* only one that removes changes.
LEMMA RemovalKept ==
    ASSUME CalendarInv, lesson.state = "gone",
           NEW w \in CalendarWorkers, NEW h \in Held, HandSound(lesson, h),
           hand[w].job # "upsert", h.job # "upsert",
           hand' = [hand EXCEPT ![w] = h],
           removal' \in Removal,
           removal'.state \in {"none", "waiting"} => removal'.attempts < CalendarAttempts,
           event' = event \/ event' = NoTime,
           removal'.state = "done" => removal.state = "done" \/ event' = NoTime,
           token' = token \/ token' = 0,
           UNCHANGED <<lesson, consent, granted, revoked, upserts, overlap, stray, lapsed>>
    PROVE  CalendarInv'
  <1> USE DEF CalendarInv
  <1>1. /\ hand' \in [CalendarWorkers -> Held]
        /\ \A v \in CalendarWorkers : HandSound(lesson, hand[v])'
        /\ hand'[w] = h /\ \A v \in CalendarWorkers : v # w => hand'[v] = hand[v]
    BY HandKept
  <1>2. AccountTypes'
    BY CalendarConstants DEF CalendarTypes, AccountTypes
  <1>3. CalendarTypes'
    BY <1>1, <1>2 DEF CalendarTypes
  <1>4. RemovalFollows' /\ Covered'
    BY <1>1 DEF RemovalFollows, Covered
  <1>5. OneWriter'
    BY <1>1 DEF OneWriter, Writing
  <1>6. Rechecked'
    BY <1>1 DEF Rechecked, RemovalFollows, HandSound
  <1>7. QED
    BY <1>3, <1>4, <1>5, <1>6

LEMMA RemovalStep ==
    ASSUME CalendarInv, NEW w \in CalendarWorkers,
           \/ Calendar!ClaimRemoval(w) \/ Calendar!RemovalReadsToken(w)
           \/ Calendar!RemoveEvent(w) \/ Calendar!RemovalRevoked(w)
           \/ Calendar!RemovalFails(w)
    PROVE  CalendarInv'
  <1>1. /\ CalendarTypes /\ RemovalFollows /\ hand[w] \in Held /\ removal \in Removal
        /\ token \in Nat
        /\ removal.state \in {"none", "waiting"} => removal.attempts < CalendarAttempts
    BY CalendarConstants DEF CalendarInv, CalendarTypes, AccountTypes
  <1>2. CASE Calendar!ClaimRemoval(w)
    <2> DEFINE h == [Calendar!Idle EXCEPT !.job = "removal", !.at = "claimed",
                                          !.attempt = removal.attempts + 1]
    <2>1. /\ hand[w].at = "idle" /\ removal.state = "waiting"
          /\ removal' = [state |-> "held", attempts |-> removal.attempts + 1]
          /\ hand' = [hand EXCEPT ![w] = h]
          /\ UNCHANGED <<lesson, consent, token, granted, revoked, event, upserts,
                         overlap, stray, lapsed>>
      BY <1>2 DEF Calendar!ClaimRemoval, Calendar!account, Calendar!google, Calendar!rest
    <2>2. lesson.state = "gone" /\ hand[w].job # "upsert"
      BY <1>1, <2>1 DEF RemovalFollows, HandSound
    <2>3. removal.attempts + 1 \in Nat /\ removal.attempts + 1 \in 0..CalendarAttempts
      BY <1>1, <2>1, CalendarConstants DEF Removal
    <2>4. h \in Held /\ h.job = "removal" /\ h.at = "claimed"
      BY <2>3 DEF Calendar!Idle, Held
    <2> HIDE DEF h
    <2>5. HandSound(lesson, h)
      BY <2>2, <2>4 DEF HandSound
    <2>6. removal' \in Removal /\ removal'.state = "held"
      BY <2>1, <2>3 DEF Removal
    <2>7. QED
      BY <2>1, <2>2, <2>4, <2>5, <2>6, RemovalKept
  <1>3. ASSUME hand[w].job = "removal"
        PROVE  lesson.state = "gone" /\ hand[w].at \in {"claimed", "call"}
    BY <1>1, <1>3 DEF RemovalFollows, HandSound, Held
  <1>4. ASSUME NEW outcome, Calendar!Settle(w, outcome), hand[w].job = "removal",
               event' = event \/ event' = NoTime, outcome = "done" => event' = NoTime,
               token' = token \/ token' = 0,
               UNCHANGED <<lesson, consent, granted, revoked, upserts, overlap, stray, lapsed>>
        PROVE  CalendarInv'
    BY <1>1, <1>3, <1>4, IdleHand, SettleTypes, RemovalKept
  <1>5. CASE Calendar!RemovalReadsToken(w)
    <2>1. /\ hand[w].job = "removal" /\ hand[w].at = "claimed"
          /\ UNCHANGED <<lesson, consent, token, granted, revoked, event, upserts,
                         overlap, stray, lapsed>>
      BY <1>5 DEF Calendar!RemovalReadsToken, Calendar!account, Calendar!google, Calendar!rest
    <2>2. CASE token = 0
      BY <1>4, <1>5, <2>1, <2>2 DEF Calendar!RemovalReadsToken
    <2>3. CASE token # 0
      <3> DEFINE h == [hand[w] EXCEPT !.at = "call", !.token = token]
      <3>1. h \in Held /\ h.job = "removal" /\ h.at = "call"
        BY <1>1, <2>1 DEF Held
      <3>2. hand' = [hand EXCEPT ![w] = h] /\ removal' = removal
        BY <1>1, <1>5, <2>3 DEF Calendar!RemovalReadsToken, CalendarTypes, Held
      <3> HIDE DEF h
      <3>3. HandSound(lesson, h)
        BY <1>3, <2>1, <3>1 DEF HandSound
      <3>4. QED
        BY <1>1, <1>3, <2>1, <3>1, <3>2, <3>3, RemovalKept
    <2>4. QED
      BY <2>2, <2>3
  <1>6. CASE Calendar!RemoveEvent(w)
    <2>1. /\ hand[w].job = "removal" /\ event' = NoTime /\ Calendar!Settle(w, "done")
          /\ UNCHANGED <<lesson, consent, token, granted, revoked, upserts, overlap, stray, lapsed>>
      BY <1>6 DEF Calendar!RemoveEvent, Calendar!account, Calendar!rest
    <2>2. QED
      BY <1>4, <2>1
  <1>7. CASE Calendar!RemovalRevoked(w)
    <2>1. /\ hand[w].job = "removal" /\ Calendar!Settle(w, "failed")
          /\ token' = token \/ token' = 0
          /\ UNCHANGED <<lesson, consent, granted, revoked, event, upserts, overlap, stray, lapsed>>
      BY <1>7 DEF Calendar!RemovalRevoked, Calendar!Cleared, Calendar!google, Calendar!rest
    <2>2. QED
      BY <1>4, <2>1
  <1>8. CASE Calendar!RemovalFails(w)
    <2>1. /\ hand[w].job = "removal" /\ Calendar!Settle(w, "failed")
          /\ UNCHANGED <<lesson, consent, token, granted, revoked, event, upserts, overlap,
                         stray, lapsed>>
      BY <1>8 DEF Calendar!RemovalFails, Calendar!account, Calendar!google
    <2>2. QED
      BY <1>4, <2>1
  <1>9. QED
    BY <1>2, <1>5, <1>6, <1>7, <1>8

LEMMA RemovalExpiresStep ==
    ASSUME CalendarInv, Calendar!RemovalAbandoned \/ Calendar!RemovalLockExpires
    PROVE  CalendarInv'
  <1> USE DEF CalendarInv
  <1>1. /\ removal.state = "held" /\ removal' = Calendar!Retried(removal)
        /\ UNCHANGED <<lesson, consent, token, granted, revoked, event, upserts, hand,
                       overlap, stray, lapsed>>
    BY DEF Calendar!RemovalAbandoned, Calendar!RemovalLockExpires, Calendar!Expires,
           Calendar!account, Calendar!google
  <1>2. /\ removal' \in Removal /\ removal'.state \in {"waiting", "dead"}
        /\ removal'.state = "waiting" => removal'.attempts < CalendarAttempts
    BY <1>1, RemovalTypes DEF CalendarTypes
  <1>3. CalendarTypes'
    BY <1>1, <1>2 DEF CalendarTypes, AccountTypes
  <1>4. RemovalFollows' /\ OneWriter' /\ Rechecked'
    BY <1>1, <1>2 DEF RemovalFollows, HandSound, OneWriter, Writing, Rechecked
  <1>5. Covered'
    BY <1>1 DEF Covered, Claimed, Current, Writing
  <1>6. QED
    BY <1>3, <1>4, <1>5

LEMMA CalendarStep == CalendarInv /\ [Next]_vars => CalendarInv'
  <1> SUFFICES ASSUME CalendarInv, [Next]_vars PROVE CalendarInv'
      OBVIOUS
  <1>1. CASE UNCHANGED calendar
    BY <1>1 DEF calendar, CalendarInv, CalendarTypes, AccountTypes, RemovalFollows, HandSound,
                OneWriter, Covered, Claimed, Current, Writing, Rechecked
  <1>2. QED
    BY <1>1, CalendarSteps, TeacherStep, ClaimUpsertStep, ReadLessonStep, ReadTokenStep,
       WriteEventStep, UpsertRevokedStep, RecheckStep, RemoveStaleStep, UpsertFailsStep,
       UpsertLockExpiresStep, RemovalStep, RemovalExpiresStep

LEMMA CalendarInit == Init => CalendarInv
  <1> SUFFICES ASSUME Init PROVE CalendarInv
      OBVIOUS
  <1>1. /\ lesson = [state |-> "none", time |-> NoTime, id |-> FALSE]
        /\ consent = FALSE /\ token = 0 /\ granted = 0 /\ revoked = {} /\ event = NoTime
        /\ upserts = 0 /\ removal = [state |-> "none", attempts |-> 0]
        /\ hand = [w \in CalendarWorkers |-> Calendar!Idle]
        /\ overlap = FALSE /\ stray = FALSE /\ lapsed = FALSE
    BY DEF Init, Calendar!Init
  <1>2. lesson \in Lesson /\ removal \in Removal
    BY <1>1, CalendarConstants DEF Lesson, Removal
  <1>3. AccountTypes
    <2>1. consent \in BOOLEAN /\ ~consent
      BY <1>1
    <2>2. granted \in 0..TokenLimit /\ token \in 0..granted /\ revoked \subseteq 1..granted
      BY <1>1, CalendarConstants
    <2>3. QED
      BY <2>1, <2>2 DEF AccountTypes
  <1>4. CalendarTypes
    <2>1. hand \in [CalendarWorkers -> Held]
      BY <1>1, IdleHand
    <2>2. {overlap, stray, lapsed} \subseteq BOOLEAN
      BY <1>1
    <2>3. QED
      BY <1>1, <1>2, <1>3, <2>1, <2>2, CalendarConstants DEF CalendarTypes
  <1>5. RemovalFollows
    BY <1>1, IdleHand DEF RemovalFollows
  <1>6. OneWriter
    BY <1>1, IdleHand DEF OneWriter, Writing
  <1>7. Covered /\ Rechecked
    BY <1>1 DEF Covered, Rechecked
  <1>8. QED
    BY <1>4, <1>5, <1>6, <1>7 DEF CalendarInv

\* With no upsert left, and none dead, the teacher's calendar shows the lesson,
\* and a removal that is done stays done.
THEOREM CalendarCorrect == Spec => []CalendarFollowsLesson
  <1>1. CalendarInv => CalendarFollowsLesson
    <2> SUFFICES ASSUME CalendarInv PROVE CalendarFollowsLesson
        OBVIOUS
    <2>1. Calendar!CalendarIsCurrent
      BY DEF CalendarInv, Covered, Claimed, Current, Writing, Calendar!CalendarIsCurrent,
             Calendar!Quiet
    <2>2. Calendar!RemovedStaysRemoved
      BY DEF CalendarInv, RemovalFollows, HandSound, Rechecked, Calendar!RemovedStaysRemoved,
             Calendar!Quiet
    <2>3. QED
      BY <2>1, <2>2 DEF CalendarFollowsLesson
  <1>2. QED
    BY <1>1, CalendarInit, CalendarStep, PTL DEF Spec
=============================================================================
