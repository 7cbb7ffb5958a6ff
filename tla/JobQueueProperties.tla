------------------------ MODULE JobQueueProperties --------------------------
(***************************************************************************)
(* What the job queue promises.                                            *)
(***************************************************************************)
EXTENDS JobQueue

\* Rows, worker memory and bookkeeping keep their types; the columns locked_at
\* and locked_by are NULL together (jobs_lock_pair), so only a locked row is stale.
TypeOK ==
    /\ jobs \in [Jobs -> Row]
    /\ hand \in [Workers -> Hand]
    /\ \A w \in Workers : hand[w].stage \in {"claimed", "running", "settling"} <=> hand[w].job # None
    /\ \A j \in Jobs : jobs[j].stale => jobs[j].locked_by # None
    /\ stopping \subseteq Workers
    /\ hist \in [Jobs -> Hist]
    /\ wanted \subseteq Keys
    /\ spent \in [DOMAIN Limits -> Nat] /\ \A b \in DOMAIN Limits : spent[b] <= Limits[b]

\* A worker whose (locked_by, attempts) still matches the row is the one that
\* claimed it last, and the row was not revived since: interruptions lower
\* attempts and a revival zeroes it, yet no late outcome passes for a current one.
TokenIsLatest ==
    \A w \in Workers : \A j \in Jobs : Owns(w, j) => hand[w].epoch = hist[j].claims

\* Since it was inserted or revived, a job's handler is started at most
\* MaxAttempts times, however many workers crash, stall or are stopped;
\* starts that SIGTERM interrupted and handed back do not count.
HandlerBudget == \A j \in Jobs : hist[j].runs <= MaxAttempts

\* A job is dead only after MaxAttempts claims since its last revival, and
\* nobody holds a lock on it.
DeadIsExhausted ==
    \A j \in Jobs : jobs[j].state = "dead" =>
        jobs[j].locked_by = None /\ jobs[j].attempts >= MaxAttempts

\* EnqueueOnce folds an event into a waiting row, yet no event is lost: until a
\* handler that started after the event has returned nil, or a row of its key
\* was buried or cancelled, a live row of its key is in the table.
EventIsCovered ==
    \A k \in wanted : \E j \in Jobs : KeyOf[j] = k /\ jobs[j].state = "live"

\* While every live holder settles before its lock gets stale, two workers
\* never run one job at the same time: claim takes locked rows only when stale.
Exclusive ==
    \A j \in Jobs : \A v, w \in Workers : Holds(v, j) /\ Holds(w, j) => v = w

\* A row leaves the live state (deleted or buried) only by its last claimant's
\* outcome, or, deleted and unclaimed, by Cancel: what a stalled worker
\* brings back late, or an attempt that began before the calendar was
\* reconnected, never takes a job out of the queue.
LeavesByLastClaim ==
    [][\A j \in Jobs : jobs[j].state = "live" /\ jobs'[j].state # "live" =>
        \/ /\ jobs[j].locked_by = None /\ jobs'[j].state = "gone"
           /\ KeyOf[j] \notin RevivedKeys /\ UNCHANGED hand
        \/ \E w \in Workers :
              /\ hand[w].job = j /\ hand[w].epoch = hist[j].claims
              /\ hand[w].stage = "settling"
              /\ jobs'[j].state = "gone" <=> hand[w].outcome = "ok"]_vars

\* Every row inserted is in the end done, cancelled or dead for review: no
\* crash, lost statement or stop leaves it locked or waiting for good.
EveryJobEnds == \A j \in Jobs : jobs[j].state = "live" ~> jobs[j].state \in {"gone", "dead"}

\* runner.go, process: "only abandoned jobs come here: every past claim ended
\* in a crash of the worker" - the note written to last_error of a job buried
\* above MaxAttempts.  It takes none of its attempts to have failed with an
\* error of the handler.
BuriedUnrunOnlyIfAbandoned ==
    \A w \in Workers : hand[w].outcome = "exhausted" =>
        \A j \in Jobs : Owns(w, j) => hist[j].failures = 0
=============================================================================
