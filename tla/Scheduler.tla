----------------------------- MODULE Scheduler -----------------------------
(***************************************************************************)
(* The schedule of one periodic kind (jobs/schedule.go).  Every worker     *)
(* ticks; claimPeriod is one statement, which Postgres runs in two steps   *)
(* that other workers may come between: it takes its time and its snapshot *)
(* of jobs, then waits for the row of job_schedules and acts on the row as *)
(* it is by then, but on the jobs as they were.                            *)
(***************************************************************************)
EXTENDS Naturals, FiniteSets

CONSTANTS
    Tickers,      \* workers with a scheduler
    PeriodLimit   \* bound: periods

\* Assumed of the constants wherever the module is instantiated.
SchedulerAssumption == PeriodLimit \in Nat \ {0}

VARIABLES
    period,    \* the period now() is in
    slot,      \* job_schedules.slot, 0 without a row
    live,      \* jobs of the kind with failed_at NULL
    tick,      \* the statement of each ticker: its period and what it saw
    straddled  \* history: statements of two periods were under way at once

vars == <<period, slot, live, tick, straddled>>

Idle == [period |-> 0, blocked |-> FALSE]

Init ==
    /\ period = 1 /\ slot = 0 /\ live = 0
    /\ tick = [w \in Tickers |-> Idle] /\ straddled = FALSE

PeriodTurns ==
    /\ period < PeriodLimit /\ period' = period + 1
    /\ UNCHANGED <<slot, live, tick, straddled>>

\* NOT EXISTS in claimPeriod: a dead job holds nothing back.
Blocked == live > 0

ClaimBegins(w) ==
    /\ tick[w] = Idle
    /\ tick' = [tick EXCEPT ![w] = [period |-> period, blocked |-> Blocked]]
    /\ straddled' = (straddled \/ \E v \in Tickers : tick[v].period \notin {0, period})
    /\ UNCHANGED <<period, slot, live>>

AdvancesMutantSamePeriod(w) == slot <= tick[w].period

\* WHERE s.slot < excluded.slot.
Advances(w) == slot < tick[w].period

ClaimEnds(w) ==
    /\ tick[w] # Idle /\ tick' = [tick EXCEPT ![w] = Idle]
    /\ slot' = IF Advances(w) THEN tick[w].period ELSE slot
    /\ live' = IF Advances(w) /\ ~tick[w].blocked THEN live + 1 ELSE live
    /\ UNCHANGED <<period, straddled>>

\* The statement fails or its worker is stopped: nothing is written.
ClaimFails(w) ==
    /\ tick[w] # Idle /\ tick' = [tick EXCEPT ![w] = Idle]
    /\ UNCHANGED <<period, slot, live, straddled>>

\* The queue's part: a job is done, or dies and stays with failed_at.
JobLeaves == live > 0 /\ live' = live - 1 /\ UNCHANGED <<period, slot, tick, straddled>>

Next ==
    \/ PeriodTurns \/ JobLeaves
    \/ \E w \in Tickers : ClaimBegins(w) \/ ClaimEnds(w) \/ ClaimFails(w)

Spec == Init /\ [][Next]_vars

TypeOK ==
    /\ period \in 1..PeriodLimit /\ slot \in 0..PeriodLimit
    /\ live \in Nat /\ straddled \in BOOLEAN
    /\ \A w \in Tickers : tick[w].period \in 0..PeriodLimit

\* However many workers tick, restart or die, no second job of the kind is
\* queued while one waits or runs: a harvester in a pause does not pile them
\* up.  Excused: two ticks on both sides of a period's start, of which the
\* later waits for the row and does not see the job of the earlier.
OneLiveJob == ~straddled => live <= 1
=============================================================================
