------------------------------ MODULE JobQueue ------------------------------
(***************************************************************************)
(* The background job queue kept in Postgres: internal/jobs (Enqueue,      *)
(* EnqueueOnce, Cancel, Runner) and the one place outside it that writes   *)
(* the jobs table, SetGoogleToken, which revives calendar deletions.       *)
(*                                                                         *)
(* A worker claims a row in one statement, runs the handler outside any    *)
(* transaction and settles the attempt in another statement, so a worker   *)
(* may crash, stall past the lock's age limit or be stopped between the    *)
(* two.  Wall-clock time is abstracted to what the claim query compares:   *)
(* whether run_at has come ("due") and whether locked_at is older than     *)
(* twice HandlerTimeout ("stale").                                         *)
(***************************************************************************)
EXTENDS Naturals

CONSTANTS
    Jobs,             \* ids of the identity column, never reused
    Keys,             \* (kind, payload) pairs
    KeyOf,            \* the kind and payload a row is inserted with
    RevivedKeys,      \* calendar deletions, which SetGoogleToken revives
    Workers,          \* worker processes, by the id they put in locked_by
    Handles,          \* keys whose kind a worker registered a handler for
    MaxAttempts,      \* Config.MaxAttempts
    MayOverrun,       \* a live worker may hold a job for over 2*HandlerTimeout
    FaultLimit,       \* bound: crashes, overruns and statements whose result is lost
    StopLimit,        \* bound: SIGTERMs
    ReviveLimit,      \* bound: revivals
    None              \* "no worker" and "no job"

ASSUME JobQueueAssumption ==
    /\ KeyOf \in [Jobs -> Keys]
    /\ RevivedKeys \subseteq Keys
    /\ Handles \in [Workers -> SUBSET Keys]
    /\ MaxAttempts \in Nat \ {0}
    /\ MayOverrun \in BOOLEAN
    /\ FaultLimit \in Nat /\ StopLimit \in Nat /\ ReviveLimit \in Nat
    /\ None \notin Workers /\ None \notin Jobs

VARIABLES
    jobs,      \* the table: [Jobs -> Row]
    hand,      \* what each worker process has in memory
    stopping,  \* workers whose run context SIGTERM cancelled
    hist,      \* history: per job, what happened to it since its last revival
    wanted,    \* history: keys with an EnqueueOnce event no handler has seen
    spent      \* how much of each bound is used up

vars == <<jobs, hand, stopping, hist, wanted, spent>>

-----------------------------------------------------------------------------
\* Rows and worker memory

States == {"fresh", "live", "dead", "gone"}

\* fresh: the id is not issued yet; live: failed_at IS NULL; dead: failed_at
\* is set; gone: the row was deleted.
Row == [state : States, due : BOOLEAN, attempts : Nat,
        locked_by : Workers \cup {None}, stale : BOOLEAN]

Stages == {"down", "idle", "claimed", "running", "settling"}
Outcomes == {"none", "ok", "error", "interrupted", "exhausted"}

\* History: epoch is the number of this claim among the job's claims, upToDate
\* says that the handler started after the last EnqueueOnce event of its key.
Hand == [stage : Stages, job : Jobs \cup {None}, attempt : Nat,
         outcome : Outcomes, epoch : Nat, upToDate : BOOLEAN]

\* claims counts claims and revivals and never goes down, revived is its value
\* at the last revival; since then runs counts the handler starts that were
\* not handed back, failures the errors written to the row.
Hist == [claims : Nat, revived : Nat, runs : Nat, failures : Nat]

Limits == [fault |-> FaultLimit, stop |-> StopLimit, revive |-> ReviveLimit]

Empty(stage) == [stage |-> stage, job |-> None, attempt |-> 0,
                 outcome |-> "none", epoch |-> 0, upToDate |-> FALSE]

NoRow(state) == [state |-> state, due |-> FALSE, attempts |-> 0,
                 locked_by |-> None, stale |-> FALSE]

Init ==
    /\ jobs = [j \in Jobs |-> NoRow("fresh")]
    /\ hand = [w \in Workers |-> Empty("idle")]
    /\ stopping = {}
    /\ hist = [j \in Jobs |-> [claims |-> 0, revived |-> 0, runs |-> 0, failures |-> 0]]
    /\ wanted = {}
    /\ spent = [fault |-> 0, stop |-> 0, revive |-> 0]

Spend(what) ==
    /\ spent[what] < Limits[what]
    /\ spent' = [spent EXCEPT ![what] = @ + 1]

Holds(w, j) == hand[w].job = j /\ hand[w].stage \in {"claimed", "running", "settling"}

-----------------------------------------------------------------------------
\* Producers: requests of the API, webhooks and other handlers

Inserted(due) == [NoRow("live") EXCEPT !.due = due]

\* jobs.Enqueue, as part of its caller's transaction: the row appears at commit.
Enqueue(j) ==
    /\ jobs[j].state = "fresh"
    /\ jobs' = [jobs EXCEPT ![j] = Inserted(TRUE)]
    /\ UNCHANGED <<hand, stopping, hist, wanted, spent>>

\* A row EnqueueOnce and Cancel match: neither claimed nor dead.
Waiting(j) == jobs[j].state = "live" /\ jobs[j].locked_by = None

WaitingForMutantTakesClaimed(k) == {j \in Jobs : KeyOf[j] = k /\ jobs[j].state = "live"}

WaitingFor(k) == {j \in Jobs : KeyOf[j] = k /\ Waiting(j)}

\* jobs.EnqueueOnce: pull the waiting rows nearer (never a retry, whose
\* attempts # 0) or else insert one.  soon: the requested delay is over at once.
EnqueueOnce(k, soon) ==
    /\ IF WaitingFor(k) # {}
       THEN jobs' = [j \in Jobs |->
                IF j \in WaitingFor(k) /\ jobs[j].attempts = 0
                THEN [jobs[j] EXCEPT !.due = @ \/ soon]
                ELSE jobs[j]]
       ELSE \E j \in Jobs : /\ KeyOf[j] = k /\ jobs[j].state = "fresh"
                            /\ jobs' = [jobs EXCEPT ![j] = Inserted(soon)]
    /\ wanted' = wanted \cup {k}
    /\ hand' = [w \in Workers |->
           IF hand[w].job # None /\ KeyOf[hand[w].job] = k
           THEN [hand[w] EXCEPT !.upToDate = FALSE] ELSE hand[w]]
    /\ UNCHANGED <<stopping, hist, spent>>

\* jobs.Cancel
Cancel(k) ==
    /\ WaitingFor(k) # {}
    /\ jobs' = [j \in Jobs |-> IF j \in WaitingFor(k) THEN NoRow("gone") ELSE jobs[j]]
    /\ wanted' = wanted \ {k}
    /\ UNCHANGED <<hand, stopping, hist, spent>>

RevivedRowMutantKeepsAttempts(row) == [row EXCEPT !.state = "live", !.due = TRUE]

RevivedRow(row) == [row EXCEPT !.state = "live", !.attempts = 0, !.due = TRUE]

RevivedHist(old) == [claims |-> old.claims + 1, revived |-> old.claims + 1,
                     runs |-> 0, failures |-> 0]

\* SetGoogleToken's UPDATE jobs: live, claimed and dead deletions alike start
\* over; the lock stays.  The teacher's deletions are the set ks.
Revive(ks) ==
    /\ \E j \in Jobs : KeyOf[j] \in ks /\ jobs[j].state \in {"live", "dead"}
    /\ Spend("revive")
    /\ LET Hit(j) == KeyOf[j] \in ks /\ jobs[j].state \in {"live", "dead"}
       IN  /\ jobs' = [j \in Jobs |-> IF Hit(j) THEN RevivedRow(jobs[j]) ELSE jobs[j]]
           /\ hist' = [j \in Jobs |->
                  IF Hit(j) THEN RevivedHist(hist[j]) ELSE hist[j]]
    /\ UNCHANGED <<hand, stopping, wanted>>

-----------------------------------------------------------------------------
\* Time

\* run_at <= now()
BecomeDue(j) ==
    /\ jobs[j].state = "live" /\ ~jobs[j].due
    /\ jobs' = [jobs EXCEPT ![j].due = TRUE]
    /\ UNCHANGED <<hand, stopping, hist, wanted, spent>>

\* locked_at < now() - 2*HandlerTimeout.  A handler is cancelled at
\* HandlerTimeout and its outcome is written within settleTimeout (5 s), so a
\* live holder lets the lock age that far only if MayOverrun (it ignores its
\* context, or the process is suspended).
LockExpires(j) ==
    /\ jobs[j].state = "live" /\ jobs[j].locked_by # None /\ ~jobs[j].stale
    /\ IF \E w \in Workers : jobs[j].locked_by = w /\ Holds(w, j)
       THEN MayOverrun /\ Spend("fault")
       ELSE UNCHANGED spent
    /\ jobs' = [jobs EXCEPT ![j].stale = TRUE]
    /\ UNCHANGED <<hand, stopping, hist, wanted>>

-----------------------------------------------------------------------------
\* Runner

ClaimableMutantIgnoresLock(w, j) ==
    /\ jobs[j].state = "live" /\ jobs[j].due
    /\ KeyOf[j] \in Handles[w]

ClaimableMutantNeverStale(w, j) ==
    /\ jobs[j].state = "live" /\ jobs[j].due
    /\ KeyOf[j] \in Handles[w]
    /\ jobs[j].locked_by = None

\* The subselect of claim.  FOR UPDATE SKIP LOCKED lets a worker pass over any
\* row another transaction holds, so every claimable row may be the one taken.
Claimable(w, j) ==
    /\ jobs[j].state = "live" /\ jobs[j].due
    /\ KeyOf[j] \in Handles[w]
    /\ jobs[j].locked_by = None \/ jobs[j].stale

TakeRow(w, j) ==
    /\ Claimable(w, j)
    /\ jobs' = [jobs EXCEPT ![j].locked_by = w, ![j].stale = FALSE, ![j].attempts = @ + 1]
    /\ hist' = [hist EXCEPT ![j].claims = @ + 1]

Claim(w, j) ==
    /\ hand[w].stage = "idle" /\ w \notin stopping
    /\ TakeRow(w, j)
    /\ hand' = [hand EXCEPT ![w] = [Empty("claimed") EXCEPT
           !.job = j, !.attempt = jobs'[j].attempts, !.epoch = hist'[j].claims]]
    /\ UNCHANGED <<stopping, wanted, spent>>

\* The claim commits but its reply is lost (connection, cancelled context):
\* RunOnce returns the error and nobody runs the row.
ClaimReplyLost(w, j) ==
    /\ hand[w].stage = "idle"
    /\ Spend("fault")
    /\ TakeRow(w, j)
    /\ UNCHANGED <<hand, stopping, wanted>>

ExhaustedMutantOffByOne(attempt) == attempt > MaxAttempts + 1

Exhausted(attempt) == attempt > MaxAttempts

\* process, an attempt over the limit: bury the row, the handler does not run.
GiveUp(w) ==
    /\ hand[w].stage = "claimed" /\ Exhausted(hand[w].attempt)
    /\ hand' = [hand EXCEPT ![w].stage = "settling", ![w].outcome = "exhausted"]
    /\ UNCHANGED <<jobs, stopping, hist, wanted, spent>>

\* process calls the handler.
Call(w) ==
    /\ hand[w].stage = "claimed" /\ ~Exhausted(hand[w].attempt)
    /\ hand' = [hand EXCEPT ![w].stage = "running", ![w].upToDate = TRUE]
    /\ hist' = [hist EXCEPT ![hand[w].job].runs =
           IF hand[w].epoch > hist[hand[w].job].revived THEN @ + 1 ELSE @]
    /\ UNCHANGED <<jobs, stopping, wanted, spent>>

\* call returns.  A panic and a timeout are errors; only a stopping worker
\* interrupts its handler, once ShutdownGrace is over.
Return(w, outcome) ==
    /\ hand[w].stage = "running"
    /\ outcome \in {"ok", "error"} \/ (outcome = "interrupted" /\ w \in stopping)
    /\ hand' = [hand EXCEPT ![w].stage = "settling", ![w].outcome = outcome]
    /\ wanted' = IF outcome = "ok" /\ hand[w].upToDate THEN wanted \ {KeyOf[hand[w].job]}
                 ELSE wanted
    /\ UNCHANGED <<jobs, stopping, hist, spent>>

OwnsMutantAttemptsOnly(w, j) ==
    /\ hand[w].job = j
    /\ jobs[j].state # "gone"
    /\ jobs[j].attempts = hand[w].attempt

OwnsMutantNameOnly(w, j) ==
    /\ hand[w].job = j
    /\ jobs[j].state # "gone"
    /\ jobs[j].locked_by = w

\* The WHERE of settle: id, locked_by and attempts are the ownership token.
Owns(w, j) ==
    /\ hand[w].job = j
    /\ jobs[j].state # "gone"
    /\ jobs[j].locked_by = w
    /\ jobs[j].attempts = hand[w].attempt

BuriesMutantOneEarly(h) ==
    h.outcome = "exhausted" \/ (h.outcome = "error" /\ h.attempt + 1 >= MaxAttempts)

Buries(h) == h.outcome = "exhausted" \/ (h.outcome = "error" /\ h.attempt >= MaxAttempts)

UnlockedMutantKeepsLockedAt(row) == [row EXCEPT !.locked_by = None]

Unlocked(row) == [row EXCEPT !.locked_by = None, !.stale = FALSE]

\* The statement process chose for the outcome of the attempt h.
SettledRow(row, h) ==
    CASE h.outcome = "ok" -> NoRow("gone")
      [] h.outcome = "interrupted" -> [Unlocked(row) EXCEPT !.attempts = @ - 1]
      [] Buries(h) -> [Unlocked(row) EXCEPT !.state = "dead"]
      [] OTHER -> [Unlocked(row) EXCEPT !.due = FALSE]

SettledHist(old, h) ==
    CASE h.outcome = "interrupted" -> [old EXCEPT !.runs = @ - 1]
      [] h.outcome = "error" -> [old EXCEPT !.failures = @ + 1]
      [] OTHER -> old

\* settle: the outcome is written only by the owner of the current claim; a
\* late one changes no row.  A burial ends the wait of the events the row stood for.
Settle(w) ==
    LET j == hand[w].job
        h == hand[w]
    IN  /\ h.stage = "settling"
        /\ IF Owns(w, j)
           THEN /\ jobs' = [jobs EXCEPT ![j] = SettledRow(@, h)]
                /\ hist' = [hist EXCEPT ![j] = SettledHist(@, h)]
                /\ wanted' = IF Buries(h) THEN wanted \ {KeyOf[j]} ELSE wanted
           ELSE UNCHANGED <<jobs, hist, wanted>>
        /\ hand' = [hand EXCEPT ![w] = Empty("idle")]
        /\ UNCHANGED <<stopping, spent>>

\* The statement fails: the row stays locked until the lock expires.
SettleFails(w) ==
    /\ hand[w].stage = "settling"
    /\ Spend("fault")
    /\ hand' = [hand EXCEPT ![w] = Empty("idle")]
    /\ UNCHANGED <<jobs, stopping, hist, wanted>>

-----------------------------------------------------------------------------
\* The worker process

Sigterm(w) ==
    /\ hand[w].stage # "down" /\ w \notin stopping
    /\ Spend("stop")
    /\ stopping' = stopping \cup {w}
    /\ UNCHANGED <<jobs, hand, hist, wanted>>

\* Run's loop ends once the current job is settled.
Exit(w) ==
    /\ hand[w].stage = "idle" /\ w \in stopping
    /\ hand' = [hand EXCEPT ![w] = Empty("down")]
    /\ stopping' = stopping \ {w}
    /\ UNCHANGED <<jobs, hist, wanted, spent>>

Crash(w) ==
    /\ hand[w].stage # "down"
    /\ Spend("fault")
    /\ hand' = [hand EXCEPT ![w] = Empty("down")]
    /\ stopping' = stopping \ {w}
    /\ UNCHANGED <<jobs, hist, wanted>>

\* The container restarts under the same hostname and pid, hence the same id.
Restart(w) ==
    /\ hand[w].stage = "down"
    /\ hand' = [hand EXCEPT ![w] = Empty("idle")]
    /\ UNCHANGED <<jobs, stopping, hist, wanted, spent>>

-----------------------------------------------------------------------------

Produce ==
    \/ \E j \in Jobs : Enqueue(j)
    \/ \E k \in Keys \ RevivedKeys : Cancel(k) \/ \E soon \in BOOLEAN : EnqueueOnce(k, soon)
    \/ \E ks \in SUBSET RevivedKeys : Revive(ks)

Finish(w) == \E outcome \in {"ok", "error", "interrupted"} : Return(w, outcome)

\* What a worker does of its own accord once it has a job.
Work(w) == GiveUp(w) \/ Call(w) \/ Finish(w) \/ Settle(w) \/ Exit(w) \/ Restart(w)

Disturb(w) ==
    \/ SettleFails(w) \/ Sigterm(w) \/ Crash(w)
    \/ \E j \in Jobs : ClaimReplyLost(w, j)

Next ==
    \/ Produce
    \/ \E j \in Jobs : BecomeDue(j) \/ LockExpires(j)
    \/ \E w \in Workers : Work(w) \/ Disturb(w) \/ \E j \in Jobs : Claim(w, j)

Spec == Init /\ [][Next]_vars

\* Run polls every PollInterval, handlers are cut off by HandlerTimeout, a
\* stopped or crashed container is restarted, and time passes.
FairSpec ==
    /\ Spec
    /\ \A w \in Workers : WF_vars(Work(w))
    /\ \A w \in Workers, j \in Jobs : WF_vars(Claim(w, j))
    /\ \A j \in Jobs : WF_vars(BecomeDue(j)) /\ WF_vars(LockExpires(j))
=============================================================================
