--------------------------- MODULE JobQueueProofs ---------------------------
(***************************************************************************)
(* What the job queue promises (JobQueueProperties), proved for every set  *)
(* of jobs, workers and keys and every limit from the inductive invariant  *)
(* of JobQueueInvariant.                                                   *)
(***************************************************************************)
EXTENDS JobQueueInvariant, FiniteSets, FiniteSetTheorems

\* Everything one step can do to one row.
RowStep(j) ==
    \/ jobs'[j] = jobs[j]
    \/ jobs[j].state = "fresh" /\ \E b \in BOOLEAN : jobs'[j] = Inserted(b)
    \/ Waiting(j) /\ KeyOf[j] \notin RevivedKeys /\ UNCHANGED hand /\ jobs'[j] = NoRow("gone")
    \/ jobs'[j] = RevivedRow(jobs[j])
    \/ jobs[j].state = "live" /\ \E b \in BOOLEAN : jobs'[j] = [jobs[j] EXCEPT !.due = b]
    \/ jobs[j].state = "live" /\ jobs'[j] = [jobs[j] EXCEPT !.stale = TRUE]
    \/ \E w \in Workers : Claimable(w, j) /\ jobs'[j] =
           [jobs[j] EXCEPT !.locked_by = w, !.stale = FALSE, !.attempts = @ + 1]
    \/ \E w \in Workers : Owns(w, j) /\ hand[w].stage = "settling"
                          /\ jobs'[j] = SettledRow(jobs[j], hand[w])

LEMMA RowSteps == ASSUME Inv, [Next]_vars, NEW j \in Jobs PROVE RowStep(j)
  <1> USE DEF RowStep
  <1>1. jobs \in [Jobs -> Row]
    BY DEF Inv, TypeOK
  <1>2. CASE UNCHANGED vars
    BY <1>2 DEF vars
  <1>3. CASE Next
    <2>1. \A i \in Jobs : Enqueue(i) \/ BecomeDue(i) \/ LockExpires(i) => RowStep(j)
      BY <1>1 DEF Enqueue, BecomeDue, LockExpires
    <2>2. \A k \in Keys \ RevivedKeys : Cancel(k) => RowStep(j)
      BY <1>1 DEF Cancel, WaitingFor
    <2>3. \A k \in Keys \ RevivedKeys, soon \in BOOLEAN : EnqueueOnce(k, soon) => RowStep(j)
      <3> SUFFICES ASSUME NEW k \in Keys \ RevivedKeys, NEW soon \in BOOLEAN,
                          EnqueueOnce(k, soon)
                   PROVE  RowStep(j)
          OBVIOUS
      <3>1. CASE WaitingFor(k) # {}
        BY <1>1, <3>1 DEF EnqueueOnce, WaitingFor, Waiting, Row
      <3>2. CASE WaitingFor(k) = {}
        BY <1>1, <3>2 DEF EnqueueOnce
      <3>3. QED
        BY <3>1, <3>2
    <2>4. \A ks \in SUBSET RevivedKeys : Revive(ks) => RowStep(j)
      BY <1>1 DEF Revive
    <2>5. \A w \in Workers, i \in Jobs : Claim(w, i) \/ ClaimReplyLost(w, i) => RowStep(j)
      <3>1. \A w \in Workers, i \in Jobs : TakeRow(w, i) => RowStep(j)
        <4> SUFFICES ASSUME NEW w \in Workers, NEW i \in Jobs, TakeRow(w, i)
                     PROVE  RowStep(j)
            OBVIOUS
        <4>1. CASE j = i
          <5>1. Claimable(w, j) /\ jobs'[j] =
                  [jobs[j] EXCEPT !.locked_by = w, !.stale = FALSE, !.attempts = @ + 1]
            BY <1>1, <4>1 DEF TakeRow
          <5>2. QED
            BY <5>1
        <4>2. CASE j # i
          BY <1>1, <4>2 DEF TakeRow
        <4>3. QED
          BY <4>1, <4>2
      <3>2. QED
        BY <3>1 DEF Claim, ClaimReplyLost
    <2>6. \A w \in Workers : GiveUp(w) \/ Call(w) \/ Settle(w) => RowStep(j)
      <3>1. \A w \in Workers : Settle(w) => RowStep(j)
        BY <1>1 DEF Settle, Owns
      <3>2. QED
        BY <3>1 DEF GiveUp, Call
    <2>7. \A w \in Workers, outcome \in {"ok", "error", "interrupted"} :
             Return(w, outcome) => RowStep(j)
      BY DEF Return
    <2>8. \A w \in Workers :
             Sigterm(w) \/ Exit(w) \/ Crash(w) \/ Restart(w) \/ SettleFails(w) => RowStep(j)
      BY DEF Sigterm, Exit, Crash, Restart, SettleFails
    <2>9. QED
      BY <1>3, <2>1, <2>2, <2>3, <2>4, <2>5, <2>6, <2>7, <2>8, NextCases
  <1>4. QED
    BY <1>2, <1>3

-----------------------------------------------------------------------------
\* How rows leave the queue

\* The part of LeavesByLastClaim about one row.
LEMMA LeavingStep ==
    ASSUME Inv, [Next]_vars, NEW j \in Jobs,
           jobs[j].state = "live", jobs'[j].state # "live"
    PROVE  \/ /\ jobs[j].locked_by = None /\ jobs'[j].state = "gone"
              /\ KeyOf[j] \notin RevivedKeys /\ UNCHANGED hand
           \/ \E w \in Workers :
                 /\ hand[w].job = j /\ hand[w].epoch = hist[j].claims
                 /\ hand[w].stage = "settling"
                 /\ jobs'[j].state = "gone" <=> hand[w].outcome = "ok"
  <1>1. jobs[j] \in Row /\ jobs' \in [Jobs -> Row]
    BY NextInv DEF Inv, TypeOK
  <1>2. CASE Waiting(j) /\ KeyOf[j] \notin RevivedKeys /\ UNCHANGED hand /\ jobs'[j] = NoRow("gone")
    BY <1>2 DEF Waiting, NoRow
  <1>3. CASE \E w \in Workers : Owns(w, j) /\ hand[w].stage = "settling"
                                /\ jobs'[j] = SettledRow(jobs[j], hand[w])
    <2>1. PICK w \in Workers : Owns(w, j) /\ hand[w].stage = "settling"
                               /\ jobs'[j] = SettledRow(jobs[j], hand[w])
      BY <1>3
    <2>2. hand[w].job = j /\ hand[w].epoch = hist[j].claims
      BY <2>1 DEF Inv, OwnerIsCurrent, Owns
    <2>3. jobs'[j].state = "gone" <=> hand[w].outcome = "ok"
      <3>1. CASE hand[w].outcome = "ok"
        BY <2>1, <3>1 DEF SettledRow, NoRow, Buries
      <3>2. CASE hand[w].outcome # "ok"
        BY <1>1, <2>1, <3>2 DEF SettledRow, Buries, Unlocked, Row
      <3>3. QED
        BY <3>1, <3>2
    <2>4. QED
      BY <2>1, <2>2, <2>3
  <1>4. CASE ~ (\/ Waiting(j) /\ KeyOf[j] \notin RevivedKeys /\ UNCHANGED hand /\ jobs'[j] = NoRow("gone")
                \/ \E w \in Workers : Owns(w, j) /\ hand[w].stage = "settling"
                                      /\ jobs'[j] = SettledRow(jobs[j], hand[w]))
    <2>1. RowStep(j)
      BY RowSteps
    <2>2. \/ jobs'[j] = jobs[j] \/ jobs'[j] = RevivedRow(jobs[j])
          \/ \E b \in BOOLEAN : jobs'[j] = [jobs[j] EXCEPT !.due = b]
          \/ jobs'[j] = [jobs[j] EXCEPT !.stale = TRUE]
          \/ \E w \in Workers : jobs'[j] =
                [jobs[j] EXCEPT !.locked_by = w, !.stale = FALSE, !.attempts = @ + 1]
      BY <1>4, <2>1 DEF RowStep
    <2>3. jobs'[j].state = "live"
      BY <1>1, <2>2 DEF Row, RevivedRow
    <2>4. QED
      BY <2>3
  <1>5. QED
    BY <1>2, <1>3, <1>4

\* Only the last claimant's outcome, or Cancel, takes a row out of the queue.
THEOREM LeavingCorrect == Spec => LeavesByLastClaim
  <1> DEFINE Leaves == \A j \in Jobs : jobs[j].state = "live" /\ jobs'[j].state # "live" =>
        \/ /\ jobs[j].locked_by = None /\ jobs'[j].state = "gone"
           /\ KeyOf[j] \notin RevivedKeys /\ UNCHANGED hand
        \/ \E w \in Workers :
              /\ hand[w].job = j /\ hand[w].epoch = hist[j].claims
              /\ hand[w].stage = "settling"
              /\ jobs'[j].state = "gone" <=> hand[w].outcome = "ok"
  <1>1. Inv /\ [Next]_vars => [Leaves]_vars
    BY LeavingStep
  <1>2. QED
    BY <1>1, Invariant, PTL DEF Spec, LeavesByLastClaim

LEMMA DeadStep ==
    ASSUME Inv, DeadIsExhausted, [Next]_vars PROVE DeadIsExhausted'
  <1> SUFFICES ASSUME NEW j \in Jobs, jobs'[j].state = "dead"
               PROVE  jobs'[j].locked_by = None /\ jobs'[j].attempts >= MaxAttempts
      BY DEF DeadIsExhausted
  <1>1. jobs[j] \in Row
    BY DEF Inv, TypeOK
  <1>2. CASE \E w \in Workers : Owns(w, j) /\ hand[w].stage = "settling"
                                /\ jobs'[j] = SettledRow(jobs[j], hand[w])
    <2>1. PICK w \in Workers : Owns(w, j) /\ hand[w].stage = "settling"
                               /\ jobs'[j] = SettledRow(jobs[j], hand[w])
      BY <1>2
    <2>2. jobs[j].state # "dead"
      BY <2>1, JobQueueAssumption DEF DeadIsExhausted, Owns
    <2>3. /\ jobs[j].attempts = hand[w].attempt /\ hand[w].attempt \in Nat
          /\ hand[w].outcome = "exhausted" => hand[w].attempt > MaxAttempts
      BY <2>1, JobQueueAssumption DEF Owns, Inv, TypeOK, Hand, AttemptsFromOne
    <2>4. Buries(hand[w]) /\ jobs'[j] = [Unlocked(jobs[j]) EXCEPT !.state = "dead"]
      <3>1. CASE hand[w].outcome = "ok"
        BY <2>1, <3>1 DEF SettledRow, NoRow, Buries
      <3>2. CASE hand[w].outcome # "ok" /\ ~Buries(hand[w])
        BY <1>1, <2>1, <2>2, <3>2 DEF SettledRow, Unlocked, Row
      <3>3. CASE Buries(hand[w])
        BY <2>1, <3>3 DEF SettledRow, Buries
      <3>4. QED
        BY <3>1, <3>2, <3>3
    <2>5. jobs'[j].locked_by = None /\ jobs'[j].attempts = jobs[j].attempts
      BY <1>1, <2>4 DEF Unlocked, Row
    <2>6. hand[w].attempt >= MaxAttempts
      BY <2>3, <2>4, JobQueueAssumption DEF Buries
    <2>7. QED
      BY <2>3, <2>5, <2>6
  <1>3. CASE jobs'[j] = jobs[j]
    BY <1>3 DEF DeadIsExhausted
  <1>4. CASE ~ (\/ jobs'[j] = jobs[j]
                \/ \E w \in Workers : Owns(w, j) /\ hand[w].stage = "settling"
                                      /\ jobs'[j] = SettledRow(jobs[j], hand[w]))
    <2>1. RowStep(j)
      BY RowSteps
    <2>2. \/ \E b \in BOOLEAN : jobs'[j] = Inserted(b)
          \/ jobs'[j] = NoRow("gone")
          \/ jobs'[j] = RevivedRow(jobs[j])
          \/ jobs[j].state = "live" /\ \E b \in BOOLEAN : jobs'[j] = [jobs[j] EXCEPT !.due = b]
          \/ jobs[j].state = "live" /\ jobs'[j] = [jobs[j] EXCEPT !.stale = TRUE]
          \/ \E w \in Workers : jobs[j].state = "live" /\ jobs'[j] =
                [jobs[j] EXCEPT !.locked_by = w, !.stale = FALSE, !.attempts = @ + 1]
      BY <1>4, <2>1 DEF RowStep, Claimable
    <2>3. \A b \in BOOLEAN : Inserted(b).state = "live" /\ NoRow("gone").state = "gone"
      BY DEF Inserted, NoRow
    <2>4. jobs'[j].state \in {"live", "gone"}
      BY <1>1, <2>2, <2>3 DEF Row, RevivedRow
    <2>5. QED
      BY <2>4
  <1>5. QED
    BY <1>2, <1>3, <1>4

\* A job is buried only after MaxAttempts claims since its last revival.
THEOREM DeadCorrect == Spec => []DeadIsExhausted
  <1>1. Init => DeadIsExhausted
    BY DEF Init, DeadIsExhausted, NoRow
  <1>2. Inv /\ DeadIsExhausted /\ [Next]_vars => DeadIsExhausted'
    BY DeadStep
  <1>3. QED
    BY <1>1, <1>2, Invariant, PTL DEF Spec

-----------------------------------------------------------------------------
\* One worker at a time, while nobody overruns

\* Whoever has a job in hand has its row, live, with a fresh lock.
HolderHasLock ==
    \A w \in Workers, j \in Jobs : Holds(w, j) =>
        jobs[j].state = "live" /\ jobs[j].locked_by = w /\ ~jobs[j].stale

LEMMA HolderStep ==
    ASSUME MayOverrun = FALSE, Inv, HolderHasLock, [Next]_vars PROVE HolderHasLock'
  <1>1. /\ jobs \in [Jobs -> Row] /\ hand \in [Workers -> Hand] /\ None \notin Workers
        /\ None \notin Jobs
    BY JobQueueAssumption DEF Inv, TypeOK
  <1>2. CASE UNCHANGED vars
    BY <1>2 DEF vars, HolderHasLock, Holds
  <1>3. CASE Next
    <2>1. \A i \in Jobs : Enqueue(i) \/ BecomeDue(i) \/ LockExpires(i) => HolderHasLock'
      <3>1. \A i \in Jobs : Enqueue(i) => HolderHasLock'
        <4> SUFFICES ASSUME NEW i \in Jobs, Enqueue(i) PROVE HolderHasLock'
            OBVIOUS
        <4>1. \A j \in Jobs : jobs[j].state = "live" => jobs'[j] = jobs[j]
          BY <1>1 DEF Enqueue
        <4>2. hand' = hand
          BY DEF Enqueue
        <4>3. QED
          BY <4>1, <4>2 DEF HolderHasLock, Holds
      <3>2. \A i \in Jobs : BecomeDue(i) => HolderHasLock'
        <4> SUFFICES ASSUME NEW i \in Jobs, BecomeDue(i) PROVE HolderHasLock'
            OBVIOUS
        <4>1. \A j \in Jobs : /\ jobs'[j].state = jobs[j].state
                              /\ jobs'[j].locked_by = jobs[j].locked_by
                              /\ jobs'[j].stale = jobs[j].stale
          BY <1>1 DEF BecomeDue, Row
        <4>2. hand' = hand
          BY DEF BecomeDue
        <4>3. QED
          BY <4>1, <4>2 DEF HolderHasLock, Holds
      <3>3. \A i \in Jobs : LockExpires(i) => HolderHasLock'
        BY <1>1 DEF LockExpires, HolderHasLock, Holds
      <3>4. QED
        BY <3>1, <3>2, <3>3
    <2>2. \A k \in Keys \ RevivedKeys : Cancel(k) => HolderHasLock'
      BY <1>1 DEF Cancel, WaitingFor, Waiting, HolderHasLock, Holds
    <2>3. \A k \in Keys \ RevivedKeys, soon \in BOOLEAN : EnqueueOnce(k, soon) => HolderHasLock'
      <3> SUFFICES ASSUME NEW k \in Keys \ RevivedKeys, NEW soon \in BOOLEAN,
                          EnqueueOnce(k, soon)
                   PROVE  HolderHasLock'
          OBVIOUS
      <3>1. \A w \in Workers : hand'[w].job = hand[w].job /\ hand'[w].stage = hand[w].stage
        BY <1>1 DEF EnqueueOnce, Hand
      <3>2. \A j \in Jobs : jobs[j].state = "live" /\ jobs[j].locked_by # None =>
                                jobs'[j] = jobs[j]
        <4>1. CASE WaitingFor(k) # {}
          BY <1>1, <4>1 DEF EnqueueOnce, WaitingFor, Waiting
        <4>2. CASE WaitingFor(k) = {}
          BY <1>1, <4>2 DEF EnqueueOnce
        <4>3. QED
          BY <4>1, <4>2
      <3>3. QED
        BY <1>1, <3>1, <3>2 DEF HolderHasLock, Holds
    <2>4. \A ks \in SUBSET RevivedKeys : Revive(ks) => HolderHasLock'
      <3>1. \A row \in Row : /\ RevivedRow(row).state = "live"
                             /\ RevivedRow(row).locked_by = row.locked_by
                             /\ RevivedRow(row).stale = row.stale
        BY DEF RevivedRow, Row
      <3>2. QED
        BY <1>1, <3>1 DEF Revive, HolderHasLock, Holds
    <2>5. \A w \in Workers, i \in Jobs : Claim(w, i) \/ ClaimReplyLost(w, i) => HolderHasLock'
      <3> SUFFICES ASSUME NEW w \in Workers, NEW i \in Jobs,
                          Claim(w, i) \/ ClaimReplyLost(w, i)
                   PROVE  HolderHasLock'
          OBVIOUS
      <3>1. TakeRow(w, i) /\ hand[w].stage = "idle"
        BY DEF Claim, ClaimReplyLost
      <3>2. /\ jobs'[i].locked_by = w /\ jobs'[i].stale = FALSE /\ jobs'[i].state = "live"
            /\ \A j \in Jobs : j # i => jobs'[j] = jobs[j]
        BY <1>1, <3>1 DEF TakeRow, Claimable, Row
      <3>3. \A v \in Workers : ~Holds(v, i)
        BY <1>1, <3>1 DEF TakeRow, Claimable, HolderHasLock
      <3>4. \A v \in Workers : hand'[v] = hand[v] \/ (v = w /\ hand'[v].job = i)
        BY <1>1 DEF Claim, ClaimReplyLost, Empty
      <3>5. QED
        BY <1>1, <3>2, <3>3, <3>4 DEF HolderHasLock, Holds
    <2>6. \A w \in Workers : GiveUp(w) \/ Call(w) \/ Settle(w) => HolderHasLock'
      <3>1. \A w \in Workers : GiveUp(w) \/ Call(w) => HolderHasLock'
        BY <1>1 DEF GiveUp, Call, HolderHasLock, Holds, Hand
      <3>2. \A w \in Workers : Settle(w) => HolderHasLock'
        <4> SUFFICES ASSUME NEW w \in Workers, Settle(w) PROVE HolderHasLock'
            OBVIOUS
        <4>1. /\ hand'[w].stage = "idle"
              /\ \A v \in Workers : v # w => hand'[v] = hand[v]
          BY <1>1 DEF Settle, Empty
        <4>2. \A j \in Jobs : jobs'[j] = jobs[j] \/ jobs[j].locked_by = w
          BY <1>1 DEF Settle, Owns
        <4>3. QED
          BY <4>1, <4>2 DEF HolderHasLock, Holds
      <3>3. QED
        BY <3>1, <3>2
    <2>7. \A w \in Workers, outcome \in {"ok", "error", "interrupted"} :
             Return(w, outcome) => HolderHasLock'
      BY <1>1 DEF Return, HolderHasLock, Holds, Hand
    <2>8. \A w \in Workers :
             Sigterm(w) \/ Exit(w) \/ Crash(w) \/ Restart(w) \/ SettleFails(w) => HolderHasLock'
      <3> SUFFICES ASSUME NEW w \in Workers,
                     Sigterm(w) \/ Exit(w) \/ Crash(w) \/ Restart(w) \/ SettleFails(w)
                   PROVE  HolderHasLock'
          OBVIOUS
      <3>1. /\ jobs' = jobs
            /\ \A v \in Workers : hand'[v] = hand[v] \/ hand'[v].job = None
        BY <1>1 DEF Sigterm, Exit, Crash, Restart, SettleFails, Empty
      <3>2. QED
        BY <1>1, <3>1 DEF HolderHasLock, Holds
    <2>9. QED
      BY <1>3, <2>1, <2>2, <2>3, <2>4, <2>5, <2>6, <2>7, <2>8, NextCases
  <1>4. QED
    BY <1>2, <1>3

\* While every handler ends before its lock gets stale, no two workers ever
\* have the same job in hand.
THEOREM ExclusiveCorrect == ASSUME MayOverrun = FALSE PROVE Spec => []Exclusive
  <1>1. Init => HolderHasLock
    BY DEF Init, HolderHasLock, Holds, Empty
  <1>2. Inv /\ HolderHasLock /\ [Next]_vars => HolderHasLock'
    BY HolderStep
  <1>3. HolderHasLock => Exclusive
    BY DEF HolderHasLock, Exclusive
  <1>4. QED
    BY <1>1, <1>2, <1>3, Invariant, PTL DEF Spec

-----------------------------------------------------------------------------
\* How often a handler is started.  HandlerBudget is not inductive: a worker
\* that claimed a row and was suspended may start the handler much later, when
\* others have claimed the row again.  So the starts still to come count too.

\* The workers that may yet start the handler of j, in a start that counts.
Starting(j) ==
    {w \in Workers : /\ hand[w].job = j /\ hand[w].stage = "claimed"
                     /\ hand[w].attempt <= MaxAttempts
                     /\ hand[w].epoch > hist[j].revived}

\* The starts the attempts of the row pay for; a deleted row has forgotten its own.
Allowed(j) ==
    IF jobs[j].state = "fresh" THEN 0
    ELSE IF jobs[j].state = "gone" \/ jobs[j].attempts > MaxAttempts THEN MaxAttempts
    ELSE jobs[j].attempts

BudgetOf(j) ==
    /\ IsFiniteSet(Starting(j))
    /\ hist[j].runs + Cardinality(Starting(j)) <= Allowed(j)

\* A claim in hand was counted: a revival, which counts too, comes after it.
ClaimsCounted ==
    \A w \in Workers, j \in Jobs : hand[w].job = j => hand[w].epoch <= hist[j].claims

Budget == ClaimsCounted /\ \A j \in Jobs : BudgetOf(j)

LEMMA AllowedType ==
    ASSUME Inv, NEW j \in Jobs PROVE Allowed(j) \in Nat /\ Allowed(j) <= MaxAttempts
  BY JobQueueAssumption DEF Inv, TypeOK, Row, Allowed

\* What is allowed shrinks only when attempts do.
LEMMA AllowedGrows ==
    ASSUME Inv, Inv', NEW j \in Jobs,
           \/ jobs[j].state = "fresh"
           \/ jobs'[j].state = "gone"
           \/ /\ jobs'[j].state \in {"live", "dead"} /\ jobs[j].state \in {"live", "dead"}
              /\ jobs'[j].attempts >= jobs[j].attempts
           \/ jobs'[j].state = jobs[j].state /\ jobs'[j].attempts = jobs[j].attempts
    PROVE  Allowed(j)' >= Allowed(j)
  <1>1. /\ jobs[j].attempts \in Nat /\ jobs'[j].attempts \in Nat
        /\ MaxAttempts \in Nat
    BY JobQueueAssumption DEF Inv, TypeOK, Row
  <1>2. QED
    BY <1>1 DEF Allowed

\* A step after which fewer workers may start the handler, and which counts no
\* start, keeps the budget.
LEMMA BudgetKept ==
    ASSUME Inv, Inv', NEW j \in Jobs, BudgetOf(j), Starting(j)' \subseteq Starting(j),
           hist'[j].runs <= hist[j].runs, Allowed(j)' >= Allowed(j)
    PROVE  BudgetOf(j)'
  <1>1. IsFiniteSet(Starting(j)') /\ Cardinality(Starting(j)') <= Cardinality(Starting(j))
    BY FS_Subset DEF BudgetOf
  <1>2. Cardinality(Starting(j)') \in Nat /\ Cardinality(Starting(j)) \in Nat
    BY <1>1, FS_CardinalityType DEF BudgetOf
  <1>3. hist[j].runs \in Nat /\ hist'[j].runs \in Nat
    BY DEF Inv, TypeOK, Hist
  <1>4. Allowed(j) \in Nat /\ Allowed(j)' \in Nat
    BY JobQueueAssumption DEF Inv, TypeOK, Row, Allowed
  <1>5. hist[j].runs + Cardinality(Starting(j)) <= Allowed(j)
    BY DEF BudgetOf
  <1>6. hist'[j].runs + Cardinality(Starting(j)') <= Allowed(j)'
    BY <1>1, <1>2, <1>3, <1>4, <1>5
  <1>7. QED
    BY <1>1, <1>6 DEF BudgetOf

\* Most steps count nothing, and leave a worker what it had or less.
LEMMA QuietBudget ==
    ASSUME Inv, Inv', Budget, hist' = hist,
           \A w \in Workers : \/ hand'[w].job = None
                              \/ /\ hand'[w].job = hand[w].job
                                 /\ hand'[w].attempt = hand[w].attempt
                                 /\ hand'[w].epoch = hand[w].epoch
                                 /\ hand'[w].stage = "claimed" => hand[w].stage = "claimed",
           \A j \in Jobs : Allowed(j)' >= Allowed(j)
    PROVE  Budget'
  <1>1. ClaimsCounted'
    BY JobQueueAssumption DEF Budget, ClaimsCounted
  <1>2. \A j \in Jobs : BudgetOf(j)'
    <2> SUFFICES ASSUME NEW j \in Jobs PROVE BudgetOf(j)'
        OBVIOUS
    <2>1. Starting(j)' \subseteq Starting(j)
      BY JobQueueAssumption DEF Starting
    <2>2. hist[j].runs \in Nat
      BY DEF Inv, TypeOK, Hist
    <2>3. hist'[j].runs <= hist[j].runs
      BY <2>2
    <2>4. QED
      BY <2>1, <2>3, BudgetKept DEF Budget
  <1>3. QED
    BY <1>1, <1>2 DEF Budget

LEMMA ReviveBudget ==
    ASSUME Inv, Inv', Budget, NEW ks \in SUBSET RevivedKeys, Revive(ks) PROVE Budget'
  <1>1. hand' = hand
    BY DEF Revive
  <1>2. \A j \in Jobs : \/ jobs'[j] = jobs[j] /\ hist'[j] = hist[j]
                        \/ hist'[j] = RevivedHist(hist[j])
    BY DEF Revive, Inv, TypeOK
  <1>3. \A j \in Jobs : /\ hist[j].claims \in Nat /\ hist[j].runs \in Nat
                        /\ hist'[j].claims \in Nat /\ Allowed(j) \in Nat
                        /\ Allowed(j)' \in Nat
    BY JobQueueAssumption DEF Inv, TypeOK, Hist, Row, Allowed
  <1>4. \A w \in Workers : hand[w].epoch \in Nat
    BY DEF Inv, TypeOK, Hand
  <1>5. ClaimsCounted'
    <2>1. \A j \in Jobs : RevivedHist(hist[j]).claims = hist[j].claims + 1
      BY DEF RevivedHist
    <2>2. \A j \in Jobs : hist'[j].claims >= hist[j].claims
      BY <1>2, <1>3, <2>1
    <2>3. QED
      BY <1>1, <1>3, <1>4, <2>2 DEF Budget, ClaimsCounted
  <1>6. \A j \in Jobs : BudgetOf(j)'
    <2> SUFFICES ASSUME NEW j \in Jobs PROVE BudgetOf(j)'
        OBVIOUS
    <2>1. CASE jobs'[j] = jobs[j] /\ hist'[j] = hist[j]
      <3>1. Starting(j)' = Starting(j) /\ Allowed(j)' = Allowed(j)
        BY <1>1, <2>1 DEF Starting, Allowed
      <3>2. QED
        BY <1>3, <2>1, <3>1, BudgetKept DEF Budget
    <2>2. CASE hist'[j] = RevivedHist(hist[j])
      <3>1. hist'[j].runs = 0 /\ hist'[j].revived = hist[j].claims + 1
        BY <2>2 DEF RevivedHist
      <3>2. Starting(j)' = {}
        BY <1>1, <1>3, <1>4, <3>1 DEF Starting, Budget, ClaimsCounted
      <3>3. QED
        BY <1>3, <3>1, <3>2, FS_EmptySet DEF BudgetOf
    <2>3. QED
      BY <1>2, <2>1, <2>2
  <1>7. QED
    BY <1>5, <1>6 DEF Budget

\* A claim is paid for by the attempt it adds: over the limit it starts nothing.
LEMMA TakeRowBudget ==
    ASSUME Inv, Inv', Budget, NEW w \in Workers, NEW i \in Jobs, TakeRow(w, i),
           hand[w].stage = "idle",
           \/ hand' = hand
           \/ hand' = [hand EXCEPT ![w] = [Empty("claimed") EXCEPT
                  !.job = i, !.attempt = jobs'[i].attempts, !.epoch = hist'[i].claims]]
    PROVE  Budget'
  <1>1. /\ jobs[i] \in Row /\ hist[i] \in Hist /\ hand \in [Workers -> Hand]
        /\ jobs \in [Jobs -> Row] /\ hist \in [Jobs -> Hist]
    BY DEF Inv, TypeOK
  <1>2. /\ jobs'[i].state = "live" /\ jobs[i].state = "live"
        /\ jobs'[i].attempts = jobs[i].attempts + 1
        /\ hist'[i].claims = hist[i].claims + 1
        /\ hist'[i].revived = hist[i].revived /\ hist'[i].runs = hist[i].runs
        /\ \A j \in Jobs : j # i => jobs'[j] = jobs[j] /\ hist'[j] = hist[j]
    BY <1>1 DEF TakeRow, Claimable, Row, Hist
  <1>3. /\ \A j \in Jobs : /\ hist[j].claims \in Nat /\ hist[j].runs \in Nat
                           /\ Allowed(j) \in Nat /\ Allowed(j)' \in Nat
        /\ \A v \in Workers : hand[v].epoch \in Nat
        /\ jobs[i].attempts \in Nat /\ MaxAttempts \in Nat
    BY JobQueueAssumption DEF Inv, TypeOK, Hist, Row, Hand, Allowed
  <1>4. \A v \in Workers : \/ hand'[v] = hand[v]
                           \/ /\ v = w /\ hand'[v].job = i
                              /\ hand'[v].attempt = jobs[i].attempts + 1
                              /\ hand'[v].epoch = hist[i].claims + 1
    BY <1>1, <1>2 DEF Empty
  <1>5. ClaimsCounted'
    BY <1>2, <1>3, <1>4 DEF Budget, ClaimsCounted
  <1>6. \A j \in Jobs : BudgetOf(j)'
    <2> SUFFICES ASSUME NEW j \in Jobs PROVE BudgetOf(j)'
        OBVIOUS
    <2>1. CASE j # i
      <3>1. Starting(j)' \subseteq Starting(j) /\ Allowed(j)' = Allowed(j)
        BY <1>1, <1>2, <1>4, <2>1 DEF Starting, Allowed
      <3>2. QED
        BY <1>2, <1>3, <2>1, <3>1, BudgetKept DEF Budget
    <2>2. CASE j = i /\ jobs[i].attempts >= MaxAttempts
      <3>1. Starting(i)' \subseteq Starting(i)
        BY <1>1, <1>2, <1>3, <1>4, <2>2 DEF Starting
      <3>2. Allowed(i)' >= Allowed(i)
        BY <1>2, <1>3 DEF Allowed
      <3>3. QED
        BY <1>2, <1>3, <2>2, <3>1, <3>2, BudgetKept DEF Budget
    <2>3. CASE j = i /\ jobs[i].attempts < MaxAttempts
      <3>1. Starting(i)' \subseteq Starting(i) \cup {w}
        BY <1>1, <1>2, <1>3, <1>4 DEF Starting
      <3>2. Allowed(i) = jobs[i].attempts /\ Allowed(i)' = jobs[i].attempts + 1
        BY <1>2, <1>3, <2>3 DEF Allowed
      <3>3. IsFiniteSet(Starting(i)) /\ Cardinality(Starting(i)) \in Nat
            /\ hist[i].runs + Cardinality(Starting(i)) <= Allowed(i)
        BY FS_CardinalityType DEF Budget, BudgetOf
      <3>4. IsFiniteSet(Starting(i) \cup {w})
            /\ Cardinality(Starting(i) \cup {w}) \in Nat
            /\ Cardinality(Starting(i) \cup {w}) <= Cardinality(Starting(i)) + 1
        BY <3>3, FS_AddElement
      <3>5. IsFiniteSet(Starting(i)') /\ Cardinality(Starting(i)') \in Nat
            /\ Cardinality(Starting(i)') <= Cardinality(Starting(i) \cup {w})
        BY <3>1, <3>4, FS_Subset, FS_CardinalityType
      <3>6. hist'[i].runs + Cardinality(Starting(i)') <= Allowed(i)'
        BY <1>2, <1>3, <3>2, <3>3, <3>4, <3>5
      <3>7. QED
        BY <2>3, <3>5, <3>6 DEF BudgetOf
    <2>4. QED
      BY <1>3, <2>1, <2>2, <2>3
  <1>7. QED
    BY <1>5, <1>6 DEF Budget

\* A start that counts was among the starts to come.
LEMMA CallBudget == ASSUME Inv, Inv', Budget, NEW w \in Workers, Call(w) PROVE Budget'
  <1> DEFINE i == hand[w].job
  <1>1. /\ i \in Jobs /\ hand \in [Workers -> Hand] /\ hist \in [Jobs -> Hist]
        /\ jobs' = jobs /\ MaxAttempts \in Nat /\ None \notin Jobs
    BY JobQueueAssumption DEF Inv, TypeOK, Hand, Call
  <1>2. /\ \A v \in Workers : /\ hand'[v].job = hand[v].job
                              /\ hand'[v].attempt = hand[v].attempt
                              /\ hand'[v].epoch = hand[v].epoch
        /\ \A v \in Workers : v # w => hand'[v] = hand[v]
        /\ hand'[w].stage = "running"
    BY <1>1 DEF Call, Hand
  <1>3. \A j \in Jobs : /\ hist'[j].claims = hist[j].claims
                        /\ hist'[j].revived = hist[j].revived
                        /\ j # i => hist'[j] = hist[j]
    BY <1>1 DEF Call, Hist
  <1>4. hist'[i].runs = IF hand[w].epoch > hist[i].revived
                        THEN hist[i].runs + 1 ELSE hist[i].runs
    BY <1>1 DEF Call, Hist
  <1>5. \A j \in Jobs : /\ hist[j].runs \in Nat /\ Allowed(j) \in Nat
                        /\ Allowed(j)' = Allowed(j)
    BY <1>1, JobQueueAssumption DEF Inv, TypeOK, Hist, Row, Allowed
  <1>6. ClaimsCounted'
    BY <1>1, <1>2, <1>3 DEF Budget, ClaimsCounted
  <1>7. \A j \in Jobs : BudgetOf(j)'
    <2> SUFFICES ASSUME NEW j \in Jobs PROVE BudgetOf(j)'
        OBVIOUS
    <2>1. Starting(j)' \subseteq Starting(j) \ {w}
      BY <1>2, <1>3 DEF Starting
    <2>2. CASE hist'[j].runs = hist[j].runs
      BY <1>5, <2>1, <2>2, BudgetKept DEF Budget
    <2>3. CASE hist'[j].runs # hist[j].runs
      <3>1. j = i /\ hand[w].epoch > hist[i].revived /\ hist'[i].runs = hist[i].runs + 1
        BY <1>3, <1>4, <2>3
      <3>2. w \in Starting(j)
        BY <1>1, <3>1, JobQueueAssumption DEF Starting, Call, Exhausted, Inv, TypeOK, Hand
      <3>3. IsFiniteSet(Starting(j)) /\ Cardinality(Starting(j)) \in Nat
            /\ hist[j].runs + Cardinality(Starting(j)) <= Allowed(j)
        BY <1>1, FS_CardinalityType DEF Budget, BudgetOf
      <3>4. IsFiniteSet(Starting(j) \ {w})
            /\ Cardinality(Starting(j) \ {w}) = Cardinality(Starting(j)) - 1
        BY <3>2, <3>3, FS_RemoveElement
      <3>5. IsFiniteSet(Starting(j)') /\ Cardinality(Starting(j)') \in Nat
            /\ Cardinality(Starting(j)') <= Cardinality(Starting(j)) - 1
        BY <2>1, <3>1, <3>4, FS_Subset, FS_CardinalityType
      <3>6. hist'[j].runs + Cardinality(Starting(j)') <= Allowed(j)'
        BY <1>1, <1>5, <3>1, <3>3, <3>5
      <3>7. QED
        BY <3>5, <3>6 DEF BudgetOf
    <2>4. QED
      BY <2>2, <2>3
  <1>8. QED
    BY <1>6, <1>7 DEF Budget

\* Only the owner's interruption gives an attempt back, and with it a start.
LEMMA SettleBudget == ASSUME Inv, Inv', Budget, NEW w \in Workers, Settle(w) PROVE Budget'
  <1> DEFINE i == hand[w].job
  <1>1. /\ i \in Jobs /\ hand \in [Workers -> Hand] /\ hist \in [Jobs -> Hist]
        /\ jobs \in [Jobs -> Row] /\ MaxAttempts \in Nat /\ None \notin Jobs
    BY JobQueueAssumption DEF Inv, TypeOK, Hand, Settle
  <1>2. /\ hand'[w].job = None
        /\ \A v \in Workers : v # w => hand'[v] = hand[v]
        /\ hand[w].stage = "settling"
    BY <1>1 DEF Settle, Empty
  <1>3. CASE ~Owns(w, i)
    <2>1. jobs' = jobs /\ hist' = hist
      BY <1>3 DEF Settle
    <2>2. \A j \in Jobs : Allowed(j)' = Allowed(j) /\ Allowed(j) \in Nat
      BY <2>1, AllowedType DEF Allowed
    <2>3. QED
      BY <1>2, <2>1, <2>2, QuietBudget
  <1>4. CASE Owns(w, i)
    <2>1. /\ jobs'[i] = SettledRow(jobs[i], hand[w])
          /\ hist'[i] = SettledHist(hist[i], hand[w])
          /\ \A j \in Jobs : j # i => jobs'[j] = jobs[j] /\ hist'[j] = hist[j]
      BY <1>1, <1>4 DEF Settle
    <2>2. \A j \in Jobs : /\ hist'[j].claims = hist[j].claims
                          /\ hist'[j].revived = hist[j].revived
      <3>1. /\ SettledHist(hist[i], hand[w]).claims = hist[i].claims
            /\ SettledHist(hist[i], hand[w]).revived = hist[i].revived
        BY <1>1, <1>2, <1>4, SettledRowFacts
      <3>2. QED
        BY <2>1, <3>1
    <2>3. ClaimsCounted'
      BY <1>1, <1>2, <2>2 DEF Budget, ClaimsCounted
    <2>4. \A j \in Jobs : Starting(j)' \subseteq Starting(j)
      BY <1>1, <1>2, <2>2 DEF Starting
    <2>5. \A j \in Jobs : /\ hist[j].runs \in Nat /\ hist'[j].runs \in Nat
                          /\ Allowed(j) \in Nat /\ Allowed(j)' \in Nat
      BY JobQueueAssumption DEF Inv, TypeOK, Hist, Row, Allowed
    <2>6. ASSUME NEW j \in Jobs, j # i PROVE BudgetOf(j)'
      <3>1. Allowed(j)' = Allowed(j)
        BY <2>1, <2>6 DEF Allowed
      <3>2. QED
        BY <2>1, <2>4, <2>5, <2>6, <3>1, BudgetKept DEF Budget
    <2>7. ASSUME NEW j \in Jobs, j = i, hand[w].outcome # "interrupted" PROVE BudgetOf(j)'
      <3>1. hist'[j].runs = hist[j].runs
        BY <1>1, <2>1, <2>7 DEF SettledHist, Hist
      <3>2. \/ jobs'[j].state = "gone"
            \/ /\ jobs'[j].state \in {"dead", jobs[j].state}
               /\ jobs'[j].attempts = jobs[j].attempts
        <4>1. \/ jobs'[j] = NoRow("gone")
              \/ jobs'[j] = [Unlocked(jobs[j]) EXCEPT !.state = "dead"]
              \/ jobs'[j] = [Unlocked(jobs[j]) EXCEPT !.due = FALSE]
          BY <2>1, <2>7 DEF SettledRow
        <4>2. /\ Unlocked(jobs[j]) \in Row /\ Unlocked(jobs[j]).state = jobs[j].state
              /\ Unlocked(jobs[j]).attempts = jobs[j].attempts
          BY <1>1 DEF Unlocked, Row
        <4>3. NoRow("gone").state = "gone"
          BY DEF NoRow
        <4>4. QED
          BY <4>1, <4>2, <4>3 DEF Row
      <3>3. Allowed(j)' >= Allowed(j)
        <4>1. jobs[j].state # "gone" /\ jobs[j].attempts \in Nat
          BY <1>1, <1>4, <2>7 DEF Owns, Row
        <4>2. QED
          BY <1>1, <2>5, <3>2, <4>1 DEF Allowed
      <3>4. QED
        BY <2>4, <2>5, <3>1, <3>3, BudgetKept DEF Budget
    <2>8. ASSUME NEW j \in Jobs, j = i, hand[w].outcome = "interrupted" PROVE BudgetOf(j)'
      <3>1. hist'[j].runs = hist[j].runs - 1
        BY <1>1, <2>1, <2>8 DEF SettledHist, Hist
      <3>2. jobs'[j].state = jobs[j].state /\ jobs'[j].attempts = jobs[j].attempts - 1
        BY <1>1, <2>1, <2>8 DEF SettledRow, Unlocked, Buries, Row
      <3>3. Allowed(j)' >= Allowed(j) - 1
        BY <1>1, <2>5, <3>2 DEF Allowed, Row
      <3>4. IsFiniteSet(Starting(j)) /\ Cardinality(Starting(j)) \in Nat
            /\ hist[j].runs + Cardinality(Starting(j)) <= Allowed(j)
        BY FS_CardinalityType DEF Budget, BudgetOf
      <3>5. IsFiniteSet(Starting(j)') /\ Cardinality(Starting(j)') \in Nat
            /\ Cardinality(Starting(j)') <= Cardinality(Starting(j))
        BY <2>4, <3>4, FS_Subset, FS_CardinalityType
      <3>6. hist'[j].runs + Cardinality(Starting(j)') <= Allowed(j)'
        BY <2>5, <3>1, <3>3, <3>4, <3>5
      <3>7. QED
        BY <3>5, <3>6 DEF BudgetOf
    <2>9. QED
      BY <2>3, <2>6, <2>7, <2>8 DEF Budget
  <1>5. QED
    BY <1>3, <1>4

LEMMA BudgetStep == ASSUME Inv, Inv', Budget, [Next]_vars PROVE Budget'
  <1>1. /\ jobs \in [Jobs -> Row] /\ hand \in [Workers -> Hand]
        /\ \A j \in Jobs : Allowed(j) \in Nat
    BY AllowedType DEF Inv, TypeOK
  <1>2. ASSUME jobs' = jobs PROVE \A j \in Jobs : Allowed(j)' >= Allowed(j)
    BY <1>1, <1>2 DEF Allowed
  <1>3. CASE UNCHANGED vars
    BY <1>2, <1>3, QuietBudget DEF vars
  <1>4. CASE Next
    <2>1. \A i \in Jobs : Enqueue(i) \/ BecomeDue(i) \/ LockExpires(i) => Budget'
      <3> SUFFICES ASSUME NEW i \in Jobs, Enqueue(i) \/ BecomeDue(i) \/ LockExpires(i)
                   PROVE  Budget'
          OBVIOUS
      <3>1. hand' = hand /\ hist' = hist
        BY DEF Enqueue, BecomeDue, LockExpires
      <3>2. \A j \in Jobs : \/ jobs[j].state = "fresh"
                            \/ /\ jobs'[j].state = jobs[j].state
                               /\ jobs'[j].attempts = jobs[j].attempts
        <4>1. CASE Enqueue(i)
          BY <1>1, <4>1 DEF Enqueue
        <4>2. CASE BecomeDue(i)
          BY <1>1, <4>2 DEF BecomeDue, Row
        <4>3. CASE LockExpires(i)
          BY <1>1, <4>3 DEF LockExpires, Row
        <4>4. QED
          BY <4>1, <4>2, <4>3
      <3>3. QED
        BY <3>1, <3>2, AllowedGrows, QuietBudget
    <2>2. \A k \in Keys \ RevivedKeys : Cancel(k) => Budget'
      <3> SUFFICES ASSUME NEW k \in Keys \ RevivedKeys, Cancel(k) PROVE Budget'
          OBVIOUS
      <3>1. hand' = hand /\ hist' = hist
        BY DEF Cancel
      <3>2. \A j \in Jobs : jobs'[j] = jobs[j] \/ jobs'[j].state = "gone"
        BY DEF Cancel, NoRow
      <3>3. QED
        BY <3>1, <3>2, AllowedGrows, QuietBudget
    <2>3. \A k \in Keys \ RevivedKeys, soon \in BOOLEAN : EnqueueOnce(k, soon) => Budget'
      <3> SUFFICES ASSUME NEW k \in Keys \ RevivedKeys, NEW soon \in BOOLEAN,
                          EnqueueOnce(k, soon)
                   PROVE  Budget'
          OBVIOUS
      <3>1. \A w \in Workers : /\ hand'[w].job = hand[w].job
                               /\ hand'[w].stage = hand[w].stage
                               /\ hand'[w].attempt = hand[w].attempt
                               /\ hand'[w].epoch = hand[w].epoch
        BY <1>1 DEF EnqueueOnce, Hand
      <3>2. hist' = hist
        BY DEF EnqueueOnce
      <3>3. \A j \in Jobs : \/ jobs[j].state = "fresh"
                            \/ /\ jobs'[j].state = jobs[j].state
                               /\ jobs'[j].attempts = jobs[j].attempts
        <4>1. CASE WaitingFor(k) # {}
          BY <1>1, <4>1 DEF EnqueueOnce, Row
        <4>2. CASE WaitingFor(k) = {}
          BY <1>1, <4>2 DEF EnqueueOnce
        <4>3. QED
          BY <4>1, <4>2
      <3>4. QED
        BY <3>1, <3>2, <3>3, AllowedGrows, QuietBudget
    <2>4. \A ks \in SUBSET RevivedKeys : Revive(ks) => Budget'
      BY ReviveBudget
    <2>5. \A w \in Workers, i \in Jobs : Claim(w, i) \/ ClaimReplyLost(w, i) => Budget'
      BY TakeRowBudget DEF Claim, ClaimReplyLost
    <2>6. \A w \in Workers : GiveUp(w) \/ Call(w) \/ Settle(w) => Budget'
      <3>1. \A w \in Workers : GiveUp(w) => Budget'
        <4> SUFFICES ASSUME NEW w \in Workers, GiveUp(w) PROVE Budget'
            OBVIOUS
        <4>1. /\ jobs' = jobs /\ hist' = hist
              /\ \A v \in Workers : /\ hand'[v].job = hand[v].job
                                    /\ hand'[v].attempt = hand[v].attempt
                                    /\ hand'[v].epoch = hand[v].epoch
                                    /\ hand'[v].stage = "claimed" => hand[v].stage = "claimed"
          BY <1>1 DEF GiveUp, Hand
        <4>2. QED
          BY <1>2, <4>1, QuietBudget
      <3>2. QED
        BY <3>1, CallBudget, SettleBudget
    <2>7. \A w \in Workers, outcome \in {"ok", "error", "interrupted"} :
             Return(w, outcome) => Budget'
      <3> SUFFICES ASSUME NEW w \in Workers, NEW outcome \in {"ok", "error", "interrupted"},
                          Return(w, outcome)
                   PROVE  Budget'
          OBVIOUS
      <3>1. /\ jobs' = jobs /\ hist' = hist
            /\ \A v \in Workers : /\ hand'[v].job = hand[v].job
                                  /\ hand'[v].attempt = hand[v].attempt
                                  /\ hand'[v].epoch = hand[v].epoch
                                  /\ hand'[v].stage = "claimed" => hand[v].stage = "claimed"
        BY <1>1 DEF Return, Hand
      <3>2. QED
        BY <1>2, <3>1, QuietBudget
    <2>8. \A w \in Workers :
             Sigterm(w) \/ Exit(w) \/ Crash(w) \/ Restart(w) \/ SettleFails(w) => Budget'
      <3> SUFFICES ASSUME NEW w \in Workers,
                     Sigterm(w) \/ Exit(w) \/ Crash(w) \/ Restart(w) \/ SettleFails(w)
                   PROVE  Budget'
          OBVIOUS
      <3>1. /\ jobs' = jobs /\ hist' = hist
            /\ \A v \in Workers : hand'[v] = hand[v] \/ hand'[v].job = None
        BY <1>1 DEF Sigterm, Exit, Crash, Restart, SettleFails, Empty
      <3>2. QED
        BY <1>2, <3>1, QuietBudget
    <2>9. QED
      BY <1>4, <2>1, <2>2, <2>3, <2>4, <2>5, <2>6, <2>7, <2>8, NextCases
  <1>5. QED
    BY <1>3, <1>4

\* However many workers crash, stall past their locks or are stopped, a job's
\* handler is started at most MaxAttempts times.
THEOREM BudgetCorrect == Spec => []HandlerBudget
  <1>1. Init => Budget
    <2> SUFFICES ASSUME Init PROVE Budget
        OBVIOUS
    <2>1. Inv
      BY InitInv
    <2>2. \A w \in Workers : hand[w].job = None /\ hand[w].stage = "idle"
      BY DEF Init, Empty
    <2>3. \A j \in Jobs : Starting(j) = {}
      BY <2>2 DEF Starting
    <2>4. \A j \in Jobs : hist[j].runs = 0 /\ Allowed(j) \in Nat
      BY <2>1, AllowedType DEF Init
    <2>5. ClaimsCounted
      BY <2>2, JobQueueAssumption DEF ClaimsCounted
    <2>6. \A j \in Jobs : BudgetOf(j)
      <3> SUFFICES ASSUME NEW j \in Jobs PROVE BudgetOf(j)
          OBVIOUS
      <3>1. IsFiniteSet(Starting(j)) /\ Cardinality(Starting(j)) = 0
        BY <2>3, FS_EmptySet
      <3>2. hist[j].runs + Cardinality(Starting(j)) <= Allowed(j)
        BY <2>4, <3>1
      <3>3. QED
        BY <3>1, <3>2 DEF BudgetOf
    <2>7. QED
      BY <2>5, <2>6 DEF Budget
  <1>2. Inv /\ Budget /\ [Next]_vars => Budget'
    BY NextInv, BudgetStep
  <1>3. Inv /\ Budget => HandlerBudget
    <2> SUFFICES ASSUME Inv, Budget, NEW j \in Jobs PROVE hist[j].runs <= MaxAttempts
        BY DEF HandlerBudget
    <2>1. IsFiniteSet(Starting(j)) /\ Cardinality(Starting(j)) \in Nat
          /\ hist[j].runs + Cardinality(Starting(j)) <= Allowed(j)
      BY FS_CardinalityType DEF Budget, BudgetOf
    <2>2. hist[j].runs \in Nat /\ MaxAttempts \in Nat
      BY JobQueueAssumption DEF Inv, TypeOK, Hist
    <2>3. QED
      BY <2>1, <2>2, AllowedType
  <1>4. QED
    BY <1>1, <1>2, <1>3, Invariant, PTL DEF Spec
=============================================================================
