----------------------------- MODULE Harvester -----------------------------
(* The subtitle harvester (backend/internal/harvester, store/subtitles.go): *)
(* processes on several machines poll feeds and fetch subtitles with        *)
(* yt-dlp, each at a pace of its own kept in memory.  Nothing locks a video *)
(* that a machine has taken.  The base pause after a block and the six      *)
(* hours after a failure are one unit of time each; a fetch takes less.     *)
EXTENDS Integers, FiniteSets

CONSTANTS
    Machines,      \* processes of role harvester, each with one job at a time
    Videos,        \* what the feeds offer
    MaxAttempts,   \* MaxHarvestAttempts
    MaxWait,       \* maxBlockWait, in base pauses
    Horizon        \* bound: time

(* Assumed of the constants wherever the module is instantiated. *)
HarvesterAssumption ==
    /\ IsFiniteSet(Machines)
    /\ MaxAttempts \in Nat \ {0} /\ MaxWait \in Nat /\ Horizon \in Nat

VARIABLES
    now,
    video,     \* videos: what is known of each
    job,       \* subtitles_fetch on each machine
    pace,      \* Pace: blocks in a row and the end of the pause
    shared     \* history: videos two machines had taken at once

vars == <<now, video, job, pace, shared>>

Unknown == [known |-> FALSE, stored |-> FALSE, attempts |-> 0, error |-> FALSE, due |-> 0]
Idle == [step |-> "idle"]
Fresh == [strikes |-> 0, until |-> 0]

Init ==
    /\ now = 0
    /\ video = [v \in Videos |-> Unknown]
    /\ job = [m \in Machines |-> Idle]
    /\ pace = [m \in Machines |-> Fresh]
    /\ shared = {}

(* PollFeeds: the feed of one source; a video already known is left alone.  *)
Poll(feed) ==
    /\ \E v \in feed : ~video[v].known
    /\ video' = [v \in Videos |-> IF v \in feed /\ ~video[v].known
                                  THEN [Unknown EXCEPT !.known = TRUE] ELSE video[v]]
    /\ UNCHANGED <<now, job, pace, shared>>

-----------------------------------------------------------------------------
Blocked(m) == now < pace[m].until

(* The queue is not asked how often a video has failed. *)
WaitsMutantAlways(v) == video[v].known /\ ~video[v].stored /\ video[v].due <= now

(* NextVideoToHarvest: no subtitles, attempts left, the last failure far    *)
(* enough back.  Untried videos first.                                      *)
Waits(v) ==
    /\ video[v].known /\ ~video[v].stored
    /\ video[v].attempts < MaxAttempts /\ video[v].due <= now

First(v) == Waits(v) /\ \A w \in Videos : Waits(w) => video[v].attempts <= video[w].attempts

Holders(v) == {m \in Machines : job[m].step # "idle" /\ job[m].video = v}

(* One turn of FetchSubtitles: not in a pause, the next video, Pace.Wait. *)
Take(m, v) ==
    /\ job[m] = Idle /\ ~Blocked(m) /\ First(v)
    /\ job' = [job EXCEPT ![m] = [step |-> "fetch", video |-> v, since |-> now]]
    /\ shared' = IF Holders(v) # {} THEN shared \cup {v} ELSE shared
    /\ UNCHANGED <<now, video, pace>>

Fetched(m, then) ==
    /\ job[m].step = "fetch"
    /\ job' = [job EXCEPT ![m] = then]
    /\ UNCHANGED <<now, video, shared>>

Wait(strikes) ==
    LET doubled == 2 ^ (strikes - 1) IN IF doubled < MaxWait THEN doubled ELSE MaxWait

(* ErrBlocked: a pause that doubles with each block in a row.  The video is *)
(* not blamed.                                                              *)
IsBlocked(m) ==
    /\ Fetched(m, Idle)
    /\ pace' = [pace EXCEPT ![m].strikes = @ + 1,
                            ![m].until = now + Wait(pace[m].strikes + 1)]

(* Subtitles came, or the video has none. *)
Succeeds(m) ==
    /\ Fetched(m, [job[m] EXCEPT !.step = "save"])
    /\ pace' = [pace EXCEPT ![m].strikes = 0]

(* yt-dlp fails on this video, or its file cannot be parsed (Succeeded was  *)
(* called by then).                                                         *)
Breaks(m) ==
    /\ Fetched(m, [job[m] EXCEPT !.step = "fail"])
    /\ pace' = pace \/ pace' = [pace EXCEPT ![m].strikes = 0]

(* yt-dlp does not start, or the worker is stopping. *)
NoRunner(m) == Fetched(m, Idle) /\ UNCHANGED pace

SaveSubtitles(m) ==
    /\ job[m].step = "save"
    /\ video' = [video EXCEPT ![job[m].video].stored = TRUE, ![job[m].video].error = FALSE]
    /\ job' = [job EXCEPT ![m] = Idle]
    /\ UNCHANGED <<now, pace, shared>>

FailHarvest(m) ==
    LET v == job[m].video IN
    /\ job[m].step = "fail"
    /\ video' = [video EXCEPT ![v].attempts = @ + 1, ![v].error = TRUE,
                              ![v].due = now + video[v].attempts + 1]
    /\ job' = [job EXCEPT ![m] = Idle]
    /\ UNCHANGED <<now, pace, shared>>

(* The process restarts: its job and its pace are gone. *)
Restart(m) ==
    /\ job' = [job EXCEPT ![m] = Idle] /\ pace' = [pace EXCEPT ![m] = Fresh]
    /\ <<job, pace>>' # <<job, pace>>
    /\ UNCHANGED <<now, video, shared>>

Tick ==
    /\ now < Horizon /\ now' = now + 1
    /\ UNCHANGED <<video, job, pace, shared>>

Next ==
    \/ \E feed \in SUBSET Videos : Poll(feed)
    \/ \E m \in Machines :
          \/ \E v \in Videos : Take(m, v)
          \/ IsBlocked(m) \/ Succeeds(m) \/ Breaks(m) \/ NoRunner(m)
          \/ SaveSubtitles(m) \/ FailHarvest(m) \/ Restart(m)
    \/ Tick

Spec == Init /\ [][Next]_vars

-----------------------------------------------------------------------------
TypeOK ==
    /\ now \in 0..Horizon /\ shared \subseteq Videos
    /\ \A v \in Videos : video[v].attempts \in Nat /\ video[v].due \in Nat
    /\ \A m \in Machines :
          /\ job[m].step \in {"idle", "fetch", "save", "fail"}
          /\ pace[m].strikes \in Nat /\ pace[m].until <= now + MaxWait

(* However machines overlap, block, fail and restart: a video that only one *)
(* machine had at a time fails at most MaxAttempts times, and once its      *)
(* subtitles are stored it is never blamed and never fetched again; with    *)
(* two machines at once it fails at most once more for each.  No fetch runs *)
(* in a pause that began before it (FetchSubtitles, NextVideoToHarvest,     *)
(* FailHarvest).                                                            *)
HarvestOnce ==
    /\ \A v \in Videos :
          /\ video[v].attempts < MaxAttempts + Cardinality(Machines)
          /\ v \notin shared =>
                /\ video[v].attempts <= MaxAttempts
                /\ video[v].stored => ~video[v].error /\ Holders(v) = {}
    /\ \A m \in Machines : job[m].step # "idle" => job[m].since >= pace[m].until
=============================================================================
