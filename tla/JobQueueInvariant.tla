------------------------- MODULE JobQueueInvariant --------------------------
(***************************************************************************)
(* The inductive invariant of the job queue, for every set of jobs,        *)
(* workers and keys and every limit, and the types and the ownership token *)
(* it establishes.  JobQueueProofs builds on it.                           *)
(***************************************************************************)
EXTENDS JobQueueProperties, TLAPS

\* Attempts are numbered from 1, and a worker buries without running only what
\* is over the limit.  A revival zeroes attempts, so no token survives it.
AttemptsFromOne ==
    \A w \in Workers : hand[w].job # None =>
        /\ hand[w].attempt >= 1
        /\ hand[w].outcome = "exhausted" =>
              hand[w].stage = "settling" /\ hand[w].attempt > MaxAttempts

\* The owner claimed last, after the last revival, and its start was counted.
OwnerIsCurrent ==
    \A w \in Workers, j \in Jobs : Owns(w, j) =>
        /\ hand[w].epoch = hist[j].claims
        /\ hand[w].epoch > hist[j].revived
        /\ hand[w].stage \in {"running", "settling"} /\ hand[w].outcome # "exhausted"
               => hist[j].runs >= 1

RevivedBefore == \A j \in Jobs : hist[j].revived <= hist[j].claims

\* The inductive invariant behind the type invariant and the token.
Inv ==
    /\ TypeOK
    /\ AttemptsFromOne
    /\ RevivedBefore
    /\ OwnerIsCurrent

-----------------------------------------------------------------------------

\* A row, a worker's memory and a history record keep their types under the
\* updates of the actions.
LEMMA RowUpdates ==
    ASSUME NEW row \in Row
    PROVE  /\ \A b \in BOOLEAN : [row EXCEPT !.due = b] \in Row
           /\ NoRow("gone") \in Row
           /\ \A b \in BOOLEAN : Inserted(b) \in Row
           /\ RevivedRow(row) \in Row
           /\ Unlocked(row) \in Row
           /\ [row EXCEPT !.stale = TRUE] \in Row
           /\ \A w \in Workers :
                [row EXCEPT !.locked_by = w, !.stale = FALSE, !.attempts = @ + 1] \in Row
  <1>1. \A b \in BOOLEAN : [row EXCEPT !.due = b] \in Row
    BY DEF Row
  <1>2. NoRow("gone") \in Row /\ NoRow("live") \in Row
    BY DEF Row, NoRow, States
  <1>3. \A b \in BOOLEAN : Inserted(b) \in Row
    BY DEF Row, States, Inserted, NoRow
  <1>4. RevivedRow(row) \in Row
    BY DEF Row, RevivedRow, States
  <1>5. Unlocked(row) \in Row /\ [row EXCEPT !.stale = TRUE] \in Row
    BY DEF Row, Unlocked
  <1>6. \A w \in Workers :
          [row EXCEPT !.locked_by = w, !.stale = FALSE, !.attempts = @ + 1] \in Row
    <2>1. row.attempts + 1 \in Nat
      BY DEF Row
    <2>2. \A n \in Nat, w \in Workers :
            [row EXCEPT !.locked_by = w, !.stale = FALSE, !.attempts = n] \in Row
      BY DEF Row
    <2>3. QED
      BY <2>1, <2>2
  <1>7. QED
    BY <1>1, <1>2, <1>3, <1>4, <1>5, <1>6

LEMMA HandUpdates ==
    ASSUME NEW h \in Hand
    PROVE  /\ \A b \in BOOLEAN : [h EXCEPT !.upToDate = b] \in Hand
           /\ \A stage \in Stages, outcome \in Outcomes :
                [h EXCEPT !.stage = stage, !.outcome = outcome] \in Hand
           /\ \A stage \in Stages, b \in BOOLEAN :
                [h EXCEPT !.stage = stage, !.upToDate = b] \in Hand
           /\ \A stage \in Stages : Empty(stage) \in Hand
           /\ \A j \in Jobs, attempt \in Nat, epoch \in Nat :
                [Empty("claimed") EXCEPT !.job = j, !.attempt = attempt, !.epoch = epoch] \in Hand
  BY DEF Hand, Empty, Stages, Outcomes

LEMMA HistUpdates ==
    ASSUME NEW old \in Hist
    PROVE  /\ [old EXCEPT !.claims = @ + 1] \in Hist
           /\ [old EXCEPT !.runs = @ + 1] \in Hist
           /\ [old EXCEPT !.failures = @ + 1] \in Hist
           /\ old.runs >= 1 => [old EXCEPT !.runs = @ - 1] \in Hist
           /\ RevivedHist(old) \in Hist
  <1>1. /\ old.claims + 1 \in Nat /\ old.runs + 1 \in Nat /\ old.failures + 1 \in Nat
        /\ old.runs >= 1 => old.runs - 1 \in Nat
    BY DEF Hist
  <1>2. \A n \in Nat : /\ [old EXCEPT !.claims = n] \in Hist
                       /\ [old EXCEPT !.runs = n] \in Hist
                       /\ [old EXCEPT !.failures = n] \in Hist
    BY DEF Hist
  <1>3. RevivedHist(old) \in Hist
    BY <1>1 DEF Hist, RevivedHist
  <1>4. QED
    BY <1>1, <1>2, <1>3

\* What is spent stays within the limits.
LEMMA SpendType ==
    ASSUME TypeOK, NEW what \in DOMAIN Limits, Spend(what)
    PROVE  /\ spent' \in [DOMAIN Limits -> Nat]
           /\ \A b \in DOMAIN Limits : spent'[b] <= Limits[b]
  <1>1. \A b \in DOMAIN Limits : Limits[b] \in Nat
    BY JobQueueAssumption DEF Limits
  <1>2. spent[what] + 1 \in Nat /\ spent[what] + 1 <= Limits[what]
    BY <1>1 DEF TypeOK, Spend
  <1>3. QED
    BY <1>1, <1>2 DEF TypeOK, Spend

LEMMA InitInv == Init => Inv
  <1> SUFFICES ASSUME Init PROVE Inv
      OBVIOUS
  <1>1. TypeOK
    BY JobQueueAssumption
    DEF Init, TypeOK, NoRow, Empty, Row, Hand, Hist, States, Stages, Outcomes, Limits
  <1>2. AttemptsFromOne
    BY DEF Init, AttemptsFromOne, Empty
  <1>3. RevivedBefore
    <2>1. SUFFICES ASSUME NEW j \in Jobs PROVE hist[j].revived <= hist[j].claims
      BY DEF RevivedBefore
    <2>2. hist[j] = [claims |-> 0, revived |-> 0, runs |-> 0, failures |-> 0]
      BY DEF Init
    <2>3. hist[j].claims = 0 /\ hist[j].revived = 0
      BY <2>2
    <2>4. QED
      BY <2>3
  <1>4. OwnerIsCurrent
    BY JobQueueAssumption DEF Init, OwnerIsCurrent, Owns, Empty
  <1>5. QED
    BY <1>1, <1>2, <1>3, <1>4 DEF Inv

-----------------------------------------------------------------------------
\* Producers and the passing of time change no worker's memory but upToDate,
\* and give no worker a token it did not have.

LEMMA EnqueueInv == ASSUME Inv, NEW j \in Jobs, Enqueue(j) PROVE Inv'
  <1>1. TypeOK'
    BY RowUpdates DEF Inv, Enqueue, TypeOK, Inserted, NoRow
  <1>2. AttemptsFromOne' /\ RevivedBefore'
    BY DEF Inv, Enqueue, AttemptsFromOne, RevivedBefore
  <1>3. OwnerIsCurrent'
    BY JobQueueAssumption DEF Inv, Enqueue, OwnerIsCurrent, Owns, TypeOK, Inserted, NoRow, Row
  <1>4. QED
    BY <1>1, <1>2, <1>3 DEF Inv

LEMMA EnqueueOnceInv ==
    ASSUME Inv, NEW k \in Keys, NEW soon \in BOOLEAN, EnqueueOnce(k, soon) PROVE Inv'
  <1> USE DEF Inv, EnqueueOnce
  <1>1. jobs' \in [Jobs -> Row]
    BY RowUpdates DEF TypeOK
  <1>2. hand' \in [Workers -> Hand]
    BY HandUpdates DEF TypeOK
  <1>3. \A w \in Workers : /\ hand'[w].stage = hand[w].stage /\ hand'[w].job = hand[w].job
                           /\ hand'[w].attempt = hand[w].attempt
                           /\ hand'[w].outcome = hand[w].outcome
                           /\ hand'[w].epoch = hand[w].epoch
    BY DEF TypeOK, Hand
  <1>4. \A j \in Jobs : \/ jobs'[j].locked_by = None /\ jobs'[j].stale = FALSE
                        \/ /\ jobs'[j].locked_by = jobs[j].locked_by
                           /\ jobs'[j].stale = jobs[j].stale
                           /\ jobs'[j].attempts = jobs[j].attempts
                           /\ jobs'[j].state = jobs[j].state
    <2>1. CASE WaitingFor(k) # {}
      BY <2>1 DEF TypeOK, Row
    <2>2. CASE WaitingFor(k) = {}
      <3>1. PICK i \in Jobs : jobs' = [jobs EXCEPT ![i] = Inserted(soon)]
        BY <2>2
      <3>2. Inserted(soon).locked_by = None /\ Inserted(soon).stale = FALSE
        BY DEF Inserted, NoRow
      <3>3. QED
        BY <3>1, <3>2 DEF TypeOK
    <2>3. QED
      BY <2>1, <2>2
  <1>5. TypeOK'
    BY <1>1, <1>2, <1>3, <1>4 DEF TypeOK
  <1>6. AttemptsFromOne' /\ RevivedBefore'
    BY <1>3 DEF AttemptsFromOne, RevivedBefore
  <1>7. OwnerIsCurrent'
    BY <1>3, <1>4, JobQueueAssumption DEF OwnerIsCurrent, Owns
  <1>8. QED
    BY <1>5, <1>6, <1>7

LEMMA CancelInv == ASSUME Inv, NEW k \in Keys, Cancel(k) PROVE Inv'
  <1> USE DEF Inv, Cancel
  <1>1. \A j \in Jobs : \/ jobs'[j] = jobs[j]
                        \/ jobs'[j] = NoRow("gone")
    OBVIOUS
  <1>2. TypeOK'
    BY <1>1, RowUpdates DEF TypeOK, NoRow
  <1>3. AttemptsFromOne' /\ RevivedBefore'
    BY DEF AttemptsFromOne, RevivedBefore
  <1>4. OwnerIsCurrent'
    BY <1>1 DEF OwnerIsCurrent, Owns, NoRow
  <1>5. QED
    BY <1>2, <1>3, <1>4

\* A revival zeroes attempts, and attempts are numbered from 1: whoever held a
\* token of the row loses it.
LEMMA ReviveInv == ASSUME Inv, NEW ks \in SUBSET RevivedKeys, Revive(ks) PROVE Inv'
  <1> USE DEF Inv, Revive
  <1>1. \A j \in Jobs : \/ jobs'[j] = jobs[j] /\ hist'[j] = hist[j]
                        \/ jobs'[j] = RevivedRow(jobs[j]) /\ hist'[j] = RevivedHist(hist[j])
    BY DEF TypeOK
  <1>2. TypeOK'
    <2>1. jobs' \in [Jobs -> Row]
      BY RowUpdates DEF TypeOK
    <2>2. hist' \in [Jobs -> Hist]
      BY HistUpdates DEF TypeOK
    <2>3. \A j \in Jobs : /\ jobs'[j].stale = jobs[j].stale
                          /\ jobs'[j].locked_by = jobs[j].locked_by
      <3>1. \A row \in Row : /\ RevivedRow(row).stale = row.stale
                             /\ RevivedRow(row).locked_by = row.locked_by
        BY DEF RevivedRow, Row
      <3>2. QED
        BY <1>1, <3>1 DEF TypeOK
    <2>4. spent' \in [DOMAIN Limits -> Nat] /\ \A b \in DOMAIN Limits : spent'[b] <= Limits[b]
      BY SpendType DEF Limits
    <2>5. QED
      BY <2>1, <2>2, <2>3, <2>4 DEF TypeOK
  <1>3. AttemptsFromOne'
    BY DEF AttemptsFromOne
  <1>4. RevivedBefore'
    <2>1. SUFFICES ASSUME NEW j \in Jobs PROVE hist'[j].revived <= hist'[j].claims
      BY DEF RevivedBefore
    <2>2. CASE hist'[j] = hist[j]
      BY <2>2 DEF RevivedBefore
    <2>3. CASE hist'[j] = RevivedHist(hist[j])
      <3>1. hist[j].claims + 1 \in Nat
        BY DEF TypeOK, Hist
      <3>2. QED
        BY <3>1, <2>3 DEF RevivedHist
    <2>4. QED
      BY <1>1, <2>2, <2>3
  <1>5. OwnerIsCurrent'
    <2>1. SUFFICES ASSUME NEW w \in Workers, NEW j \in Jobs, Owns(w, j)'
                   PROVE  Owns(w, j) /\ hist'[j] = hist[j]
      BY DEF OwnerIsCurrent
    <2>2. hand[w].job = j /\ hand[w].attempt \in Nat /\ hand[w].attempt >= 1
      BY <2>1, JobQueueAssumption DEF Owns, AttemptsFromOne, TypeOK, Hand
    <2>3. jobs'[j] # RevivedRow(jobs[j])
      <3>1. RevivedRow(jobs[j]).attempts = 0
        BY DEF RevivedRow, TypeOK, Row
      <3>2. QED
        BY <3>1, <2>1, <2>2 DEF Owns
    <2>4. QED
      BY <1>1, <2>1, <2>3 DEF Owns
  <1>6. QED
    BY <1>2, <1>3, <1>4, <1>5

LEMMA BecomeDueInv == ASSUME Inv, NEW i \in Jobs, BecomeDue(i) PROVE Inv'
  <1> USE DEF Inv, BecomeDue
  <1>1. \A j \in Jobs : /\ jobs'[j].state = jobs[j].state
                        /\ jobs'[j].locked_by = jobs[j].locked_by
                        /\ jobs'[j].attempts = jobs[j].attempts
                        /\ jobs'[j].stale = jobs[j].stale
    BY DEF TypeOK, Row
  <1>2. TypeOK'
    <2>1. jobs' \in [Jobs -> Row]
      BY RowUpdates DEF TypeOK
    <2>2. QED
      BY <1>1, <2>1 DEF TypeOK
  <1>3. AttemptsFromOne' /\ RevivedBefore'
    BY DEF AttemptsFromOne, RevivedBefore
  <1>4. OwnerIsCurrent'
    BY <1>1 DEF OwnerIsCurrent, Owns
  <1>5. QED
    BY <1>2, <1>3, <1>4

LEMMA LockExpiresInv == ASSUME Inv, NEW i \in Jobs, LockExpires(i) PROVE Inv'
  <1> USE DEF Inv, LockExpires
  <1>1. \A j \in Jobs : /\ jobs'[j].state = jobs[j].state
                        /\ jobs'[j].locked_by = jobs[j].locked_by
                        /\ jobs'[j].attempts = jobs[j].attempts
                        /\ jobs'[j].stale => jobs[j].locked_by # None
    BY DEF TypeOK, Row
  <1>2. TypeOK'
    <2>1. jobs' \in [Jobs -> Row]
      BY RowUpdates DEF TypeOK
    <2>2. spent' \in [DOMAIN Limits -> Nat] /\ \A b \in DOMAIN Limits : spent'[b] <= Limits[b]
      BY SpendType DEF TypeOK, Limits
    <2>3. QED
      BY <1>1, <2>1, <2>2 DEF TypeOK
  <1>3. AttemptsFromOne' /\ RevivedBefore'
    BY DEF AttemptsFromOne, RevivedBefore
  <1>4. OwnerIsCurrent'
    BY <1>1 DEF OwnerIsCurrent, Owns
  <1>5. QED
    BY <1>2, <1>3, <1>4

-----------------------------------------------------------------------------
\* The runner

\* Taking a row makes its last claim the current one; the worker that takes it
\* was idle and so held no other row.
LEMMA TakeRowInv ==
    ASSUME Inv, NEW w \in Workers, NEW i \in Jobs, TakeRow(w, i)
    PROVE  /\ jobs' \in [Jobs -> Row]
           /\ hist' \in [Jobs -> Hist]
           /\ RevivedBefore'
           /\ jobs'[i].locked_by = w /\ jobs'[i].attempts \in Nat /\ jobs'[i].attempts >= 1
           /\ hist'[i].claims \in Nat /\ hist'[i].claims > hist'[i].revived
           /\ \A j \in Jobs : jobs'[j].stale => jobs'[j].locked_by # None
           /\ \A j \in Jobs : j # i => jobs'[j] = jobs[j] /\ hist'[j] = hist[j]
  <1> USE DEF Inv, TakeRow
  <1>1. jobs[i] \in Row /\ hist[i] \in Hist
    BY DEF TypeOK
  <1>2. /\ jobs[i].attempts \in Nat /\ hist[i].claims \in Nat /\ hist[i].revived \in Nat
        /\ hist[i].revived <= hist[i].claims
    BY <1>1 DEF Row, Hist, RevivedBefore
  <1>3. jobs' \in [Jobs -> Row] /\ hist' \in [Jobs -> Hist]
    BY <1>1, RowUpdates, HistUpdates DEF TypeOK
  <1>4. \A j \in Jobs : j # i => jobs'[j] = jobs[j] /\ hist'[j] = hist[j]
    BY DEF TypeOK
  <1>5. /\ jobs'[i].locked_by = w /\ jobs'[i].attempts = jobs[i].attempts + 1
        /\ jobs'[i].stale = FALSE
    BY <1>1 DEF TypeOK, Row
  <1>6. hist'[i].claims = hist[i].claims + 1 /\ hist'[i].revived = hist[i].revived
    BY <1>1 DEF TypeOK, Hist
  <1>7. RevivedBefore'
    BY <1>2, <1>4, <1>6 DEF RevivedBefore
  <1>8. \A j \in Jobs : jobs'[j].stale => jobs'[j].locked_by # None
    BY <1>4, <1>5 DEF TypeOK
  <1>9. QED
    BY <1>2, <1>3, <1>4, <1>5, <1>6, <1>7, <1>8

LEMMA ClaimInv == ASSUME Inv, NEW w \in Workers, NEW i \in Jobs, Claim(w, i) PROVE Inv'
  <1> DEFINE claimed == [Empty("claimed") EXCEPT
                 !.job = i, !.attempt = jobs'[i].attempts, !.epoch = hist'[i].claims]
  <1>1. TakeRow(w, i) /\ hand[w].stage = "idle"
    BY DEF Claim
  <1>2. /\ claimed \in Hand /\ claimed.stage = "claimed" /\ claimed.job = i
        /\ claimed.attempt = jobs'[i].attempts /\ claimed.epoch = hist'[i].claims
        /\ claimed.outcome = "none"
    <2>1. jobs'[i].attempts \in Nat /\ hist'[i].claims \in Nat
      BY <1>1, TakeRowInv
    <2>2. claimed \in Hand
      <3>1. hand[w] \in Hand
        BY DEF Inv, TypeOK
      <3>2. QED
        BY <2>1, <3>1, HandUpdates
    <2>3. QED
      BY <2>2 DEF Empty
  <1>3. /\ hand' \in [Workers -> Hand] /\ hand'[w] = claimed
        /\ \A v \in Workers : v # w => hand'[v] = hand[v]
    BY <1>2 DEF Claim, Inv, TypeOK
  <1> HIDE DEF claimed
  <1>4. TypeOK'
    <2>1. /\ jobs' \in [Jobs -> Row] /\ hist' \in [Jobs -> Hist]
          /\ \A j \in Jobs : jobs'[j].stale => jobs'[j].locked_by # None
      BY <1>1, TakeRowInv
    <2>2. \A v \in Workers :
            hand'[v].stage \in {"claimed", "running", "settling"} <=> hand'[v].job # None
      BY <1>2, <1>3, JobQueueAssumption DEF Inv, TypeOK
    <2>3. QED
      BY <1>3, <2>1, <2>2 DEF Claim, Inv, TypeOK
  <1>5. AttemptsFromOne'
    BY <1>1, <1>2, <1>3, TakeRowInv DEF Inv, AttemptsFromOne
  <1>6. OwnerIsCurrent'
    <2>1. SUFFICES ASSUME NEW v \in Workers, NEW j \in Jobs, Owns(v, j)'
                   PROVE  /\ hand'[v].epoch = hist'[j].claims
                          /\ hand'[v].epoch > hist'[j].revived
                          /\ hand'[v].stage \in {"running", "settling"}
                             /\ hand'[v].outcome # "exhausted" => hist'[j].runs >= 1
      BY DEF OwnerIsCurrent
    <2>2. CASE v = w
      <3>1. j = i /\ hand'[v] = claimed
        BY <1>2, <1>3, <2>1, <2>2 DEF Owns
      <3>2. hist'[i].claims > hist'[i].revived
        BY <1>1, TakeRowInv
      <3>3. QED
        BY <1>2, <3>1, <3>2
    <2>3. CASE v # w
      <3>1. hand'[v] = hand[v] /\ j # i
        BY <1>1, <1>3, <2>1, <2>3, TakeRowInv DEF Owns
      <3>2. jobs'[j] = jobs[j] /\ hist'[j] = hist[j]
        BY <1>1, <3>1, TakeRowInv
      <3>3. QED
        BY <2>1, <3>1, <3>2 DEF Owns, Inv, OwnerIsCurrent
    <2>4. QED
      BY <2>2, <2>3
  <1>7. RevivedBefore'
    BY <1>1, TakeRowInv
  <1>8. QED
    BY <1>4, <1>5, <1>6, <1>7 DEF Inv

LEMMA ClaimReplyLostInv ==
    ASSUME Inv, NEW w \in Workers, NEW i \in Jobs, ClaimReplyLost(w, i) PROVE Inv'
  <1>1. TakeRow(w, i) /\ hand[w].stage = "idle" /\ hand[w].job = None
    BY DEF ClaimReplyLost, Inv, TypeOK
  <1>2. TypeOK'
    <2>1. spent' \in [DOMAIN Limits -> Nat] /\ \A b \in DOMAIN Limits : spent'[b] <= Limits[b]
      BY SpendType DEF ClaimReplyLost, Limits, Inv
    <2>2. QED
      BY <1>1, <2>1, TakeRowInv DEF ClaimReplyLost, Inv, TypeOK
  <1>3. AttemptsFromOne'
    BY DEF ClaimReplyLost, Inv, AttemptsFromOne
  <1>4. OwnerIsCurrent'
    <2>1. SUFFICES ASSUME NEW v \in Workers, NEW j \in Jobs, Owns(v, j)'
                   PROVE  Owns(v, j) /\ hist'[j] = hist[j]
      BY DEF OwnerIsCurrent, ClaimReplyLost, Inv
    <2>2. j # i
      BY <1>1, <2>1, TakeRowInv, JobQueueAssumption DEF Owns, ClaimReplyLost
    <2>3. QED
      BY <1>1, <2>1, <2>2, TakeRowInv DEF Owns, ClaimReplyLost
  <1>5. QED
    BY <1>1, <1>2, <1>3, <1>4, TakeRowInv DEF Inv

LEMMA GiveUpInv == ASSUME Inv, NEW w \in Workers, GiveUp(w) PROVE Inv'
  <1> USE DEF Inv, GiveUp
  <1>1. hand' \in [Workers -> Hand]
    BY HandUpdates DEF TypeOK, Stages, Outcomes
  <1>2. \A v \in Workers : /\ hand'[v].job = hand[v].job
                           /\ hand'[v].attempt = hand[v].attempt
                           /\ hand'[v].epoch = hand[v].epoch
    BY DEF TypeOK, Hand
  <1>3. /\ hand'[w].stage = "settling" /\ hand'[w].outcome = "exhausted"
        /\ \A v \in Workers : v # w => hand'[v] = hand[v]
    BY DEF TypeOK, Hand
  <1>4. TypeOK'
    BY <1>1, <1>2, <1>3 DEF TypeOK
  <1>5. AttemptsFromOne'
    BY <1>2, <1>3 DEF AttemptsFromOne, Exhausted
  <1>6. RevivedBefore'
    BY DEF RevivedBefore
  <1>7. OwnerIsCurrent'
    <2>1. SUFFICES ASSUME NEW v \in Workers, NEW j \in Jobs, Owns(v, j)'
                   PROVE  /\ hand'[v].epoch = hist'[j].claims
                          /\ hand'[v].epoch > hist'[j].revived
                          /\ hand'[v].stage \in {"running", "settling"}
                             /\ hand'[v].outcome # "exhausted" => hist'[j].runs >= 1
      BY DEF OwnerIsCurrent
    <2>2. Owns(v, j)
      BY <1>2, <2>1 DEF Owns
    <2>3. QED
      BY <1>2, <1>3, <2>2 DEF OwnerIsCurrent
  <1>8. QED
    BY <1>4, <1>5, <1>6, <1>7

\* A start is counted exactly when its claim is later than the last revival,
\* which the owner's claim is.
LEMMA CallInv == ASSUME Inv, NEW w \in Workers, Call(w) PROVE Inv'
  <1> USE DEF Inv, Call
  <1> DEFINE i == hand[w].job
  <1>1. i \in Jobs /\ hist[i] \in Hist /\ hist[i].runs \in Nat
    BY DEF TypeOK, Hand, Hist
  <1>2. hand' \in [Workers -> Hand]
    BY HandUpdates DEF TypeOK, Stages
  <1>3. \A v \in Workers : /\ hand'[v].job = hand[v].job
                           /\ hand'[v].attempt = hand[v].attempt
                           /\ hand'[v].epoch = hand[v].epoch
                           /\ hand'[v].outcome = hand[v].outcome
    BY DEF TypeOK, Hand
  <1>4. hand'[w].stage = "running" /\ \A v \in Workers : v # w => hand'[v] = hand[v]
    BY DEF TypeOK, Hand
  <1>5. hist' \in [Jobs -> Hist]
    <2>1. [hist[i] EXCEPT !.runs = @ + 1] \in Hist
      BY <1>1, HistUpdates
    <2>2. [hist[i] EXCEPT !.runs = @] = hist[i]
      BY <1>1 DEF Hist
    <2>3. QED
      BY <1>1, <2>1, <2>2 DEF TypeOK
  <1>6. \A j \in Jobs : /\ hist'[j].claims = hist[j].claims
                        /\ hist'[j].revived = hist[j].revived
                        /\ hist'[j].runs >= hist[j].runs
    BY <1>1 DEF TypeOK, Hist
  <1>7. hand[w].epoch > hist[i].revived => hist'[i].runs >= 1
    BY <1>1 DEF TypeOK, Hist
  <1>8. TypeOK'
    BY <1>2, <1>3, <1>4, <1>5 DEF TypeOK
  <1>9. AttemptsFromOne' /\ RevivedBefore'
    <2>1. hand[w].outcome # "exhausted"
      BY DEF AttemptsFromOne, TypeOK
    <2>2. AttemptsFromOne'
      BY <1>3, <1>4, <2>1 DEF AttemptsFromOne
    <2>3. RevivedBefore'
      BY <1>6 DEF RevivedBefore
    <2>4. QED
      BY <2>2, <2>3
  <1>10. OwnerIsCurrent'
    <2>1. SUFFICES ASSUME NEW v \in Workers, NEW j \in Jobs, Owns(v, j)'
                   PROVE  /\ hand'[v].epoch = hist'[j].claims
                          /\ hand'[v].epoch > hist'[j].revived
                          /\ hand'[v].stage \in {"running", "settling"}
                             /\ hand'[v].outcome # "exhausted" => hist'[j].runs >= 1
      BY DEF OwnerIsCurrent
    <2>2. Owns(v, j)
      BY <1>3, <2>1 DEF Owns
    <2>3. hand'[v].epoch = hist'[j].claims /\ hand'[v].epoch > hist'[j].revived
      BY <1>3, <1>6, <2>2 DEF OwnerIsCurrent
    <2>4. CASE v = w
      <3>1. j = i
        BY <2>2, <2>4 DEF Owns
      <3>2. hand[w].epoch > hist[i].revived
        BY <2>2, <2>4, <3>1 DEF OwnerIsCurrent
      <3>3. hist'[j].runs >= 1
        BY <1>7, <3>1, <3>2
      <3>4. QED
        BY <2>3, <3>3
    <2>5. CASE v # w
      <3>1. hand[v].stage \in {"running", "settling"} /\ hand[v].outcome # "exhausted"
               => hist[j].runs >= 1
        BY <2>2 DEF OwnerIsCurrent
      <3>2. hist[j].runs \in Nat /\ hist'[j].runs \in Nat
        BY <1>5 DEF TypeOK, Hist
      <3>3. hist[j].runs >= 1 => hist'[j].runs >= 1
        BY <1>6, <3>2
      <3>4. hand'[v] = hand[v]
        BY <1>4, <2>5
      <3>5. QED
        BY <2>3, <3>1, <3>3, <3>4
    <2>6. QED
      BY <2>4, <2>5
  <1>11. QED
    BY <1>8, <1>9, <1>10

LEMMA ReturnInv ==
    ASSUME Inv, NEW w \in Workers, NEW outcome \in {"ok", "error", "interrupted"},
           Return(w, outcome)
    PROVE  Inv'
  <1> USE DEF Inv, Return
  <1>1. hand' \in [Workers -> Hand]
    BY HandUpdates DEF TypeOK, Stages, Outcomes
  <1>2. \A v \in Workers : /\ hand'[v].job = hand[v].job
                           /\ hand'[v].attempt = hand[v].attempt
                           /\ hand'[v].epoch = hand[v].epoch
    BY DEF TypeOK, Hand
  <1>3. /\ hand'[w].stage = "settling" /\ hand'[w].outcome = outcome
        /\ \A v \in Workers : v # w => hand'[v] = hand[v]
    BY DEF TypeOK, Hand
  <1>4. TypeOK'
    BY <1>1, <1>2, <1>3 DEF TypeOK
  <1>5. AttemptsFromOne'
    BY <1>2, <1>3 DEF AttemptsFromOne
  <1>6. RevivedBefore'
    BY DEF RevivedBefore
  <1>7. OwnerIsCurrent'
    BY <1>2, <1>3 DEF OwnerIsCurrent, Owns, AttemptsFromOne, TypeOK
  <1>8. QED
    BY <1>4, <1>5, <1>6, <1>7

\* A worker that lets go of what it had loses its token.
LEMMA LetGoInv ==
    ASSUME Inv, NEW w \in Workers, NEW stage \in {"idle", "down"},
           hand' = [hand EXCEPT ![w] = Empty(stage)],
           UNCHANGED <<jobs, hist, wanted>>, stopping' \subseteq Workers,
           spent' \in [DOMAIN Limits -> Nat],
           \A b \in DOMAIN Limits : spent'[b] <= Limits[b]
    PROVE  Inv'
  <1> USE DEF Inv
  <1>1. /\ hand' \in [Workers -> Hand] /\ hand'[w] = Empty(stage)
        /\ \A v \in Workers : v # w => hand'[v] = hand[v]
    BY HandUpdates DEF TypeOK, Stages
  <1>2. Empty(stage).stage = stage /\ Empty(stage).job = None
    BY DEF Empty
  <1>3. TypeOK'
    BY <1>1, <1>2 DEF TypeOK
  <1>4. AttemptsFromOne' /\ RevivedBefore'
    BY <1>1, <1>2 DEF AttemptsFromOne, RevivedBefore
  <1>5. OwnerIsCurrent'
    <2>1. SUFFICES ASSUME NEW v \in Workers, NEW j \in Jobs, Owns(v, j)'
                   PROVE  hand'[v] = hand[v] /\ Owns(v, j)
      BY DEF OwnerIsCurrent
    <2>2. v # w
      BY <1>1, <1>2, <2>1, JobQueueAssumption DEF Owns
    <2>3. QED
      BY <1>1, <2>1, <2>2 DEF Owns
  <1>6. QED
    BY <1>3, <1>4, <1>5

\* What the owner of a row writes: whatever the outcome, the lock is released.
LEMMA SettledRowFacts ==
    ASSUME Inv, NEW w \in Workers, NEW j \in Jobs, Owns(w, j), hand[w].stage = "settling"
    PROVE  /\ SettledRow(jobs[j], hand[w]) \in Row
           /\ SettledRow(jobs[j], hand[w]).locked_by = None
           /\ SettledRow(jobs[j], hand[w]).stale = FALSE
           /\ SettledHist(hist[j], hand[w]) \in Hist
           /\ SettledHist(hist[j], hand[w]).claims = hist[j].claims
           /\ SettledHist(hist[j], hand[w]).revived = hist[j].revived
  <1> DEFINE row == jobs[j]
             h == hand[w]
             old == hist[j]
  <1>1. row \in Row /\ h \in Hand /\ old \in Hist
    BY DEF Inv, TypeOK
  <1>2. Unlocked(row) \in Row /\ Unlocked(row).locked_by = None
        /\ Unlocked(row).stale = FALSE /\ Unlocked(row).attempts = row.attempts
    BY <1>1, RowUpdates DEF Unlocked, Row
  <1>3. row.attempts - 1 \in Nat
    <2>1. row.attempts = h.attempt /\ h.attempt >= 1
      BY JobQueueAssumption DEF Owns, Inv, AttemptsFromOne
    <2>2. QED
      BY <1>1, <2>1 DEF Row
  <1>4. h.outcome = "interrupted" => old.runs >= 1
    BY DEF Inv, OwnerIsCurrent
  <1> HIDE DEF row, h, old
  <1>5. /\ SettledRow(row, h) \in Row
        /\ SettledRow(row, h).locked_by = None /\ SettledRow(row, h).stale = FALSE
    <2> DEFINE free == Unlocked(row)
    <2>1. free \in Row /\ free.locked_by = None /\ free.stale = FALSE
          /\ free.attempts - 1 \in Nat
      BY <1>2, <1>3
    <2> HIDE DEF free
    <2>2. CASE h.outcome = "ok"
      <3>1. NoRow("gone") \in Row
        BY <1>1, RowUpdates
      <3>2. QED
        BY <2>2, <3>1 DEF SettledRow, NoRow, Buries
    <2>3. CASE h.outcome = "interrupted"
      <3>1. SettledRow(row, h) = [free EXCEPT !.attempts = free.attempts - 1]
        BY <2>3 DEF SettledRow, free, Buries
      <3>2. QED
        BY <2>1, <3>1 DEF Row
    <2>4. CASE h.outcome \notin {"ok", "interrupted"} /\ Buries(h)
      <3>1. SettledRow(row, h) = [free EXCEPT !.state = "dead"]
        BY <2>4 DEF SettledRow, free
      <3>2. QED
        BY <2>1, <3>1 DEF Row, States
    <2>5. CASE h.outcome \notin {"ok", "interrupted"} /\ ~Buries(h)
      <3>1. SettledRow(row, h) = [free EXCEPT !.due = FALSE]
        BY <2>5 DEF SettledRow, free
      <3>2. QED
        BY <2>1, <3>1 DEF Row
    <2>6. QED
      BY <2>2, <2>3, <2>4, <2>5
  <1>6. /\ SettledHist(old, h) \in Hist
        /\ SettledHist(old, h).claims = old.claims /\ SettledHist(old, h).revived = old.revived
    <2>1. CASE h.outcome = "interrupted"
      <3>1. SettledHist(old, h) = [old EXCEPT !.runs = @ - 1]
        BY <2>1 DEF SettledHist
      <3>2. SettledHist(old, h) \in Hist
        BY <1>1, <1>4, <2>1, <3>1, HistUpdates
      <3>3. QED
        BY <1>1, <3>1, <3>2 DEF Hist
    <2>2. CASE h.outcome = "error"
      <3>1. SettledHist(old, h) = [old EXCEPT !.failures = @ + 1]
        BY <2>2 DEF SettledHist
      <3>2. SettledHist(old, h) \in Hist
        BY <1>1, <3>1, HistUpdates
      <3>3. QED
        BY <1>1, <3>1, <3>2 DEF Hist
    <2>3. CASE h.outcome \notin {"error", "interrupted"}
      BY <1>1, <2>3 DEF SettledHist
    <2>4. QED
      BY <2>1, <2>2, <2>3
  <1>7. QED
    BY <1>5, <1>6 DEF row, h, old

LEMMA SettleInv == ASSUME Inv, NEW w \in Workers, Settle(w) PROVE Inv'
  <1> DEFINE i == hand[w].job
  <1>1. i \in Jobs /\ hand[w].stage = "settling" /\ hand' = [hand EXCEPT ![w] = Empty("idle")]
        /\ UNCHANGED <<stopping, spent>>
    BY DEF Settle, Inv, TypeOK, Hand
  <1>2. CASE ~Owns(w, i)
    <2>1. UNCHANGED <<jobs, hist, wanted>>
      BY <1>2 DEF Settle
    <2>2. QED
      BY <1>1, <2>1, LetGoInv DEF Inv, TypeOK
  <1>3. CASE Owns(w, i)
    <2>1. /\ jobs' = [jobs EXCEPT ![i] = SettledRow(jobs[i], hand[w])]
          /\ hist' = [hist EXCEPT ![i] = SettledHist(hist[i], hand[w])]
          /\ wanted' \subseteq wanted
      BY <1>3 DEF Settle
    <2>2. /\ jobs' \in [Jobs -> Row] /\ hist' \in [Jobs -> Hist]
          /\ jobs'[i].locked_by = None /\ jobs'[i].stale = FALSE
          /\ hist'[i].claims = hist[i].claims /\ hist'[i].revived = hist[i].revived
          /\ \A j \in Jobs : j # i => jobs'[j] = jobs[j] /\ hist'[j] = hist[j]
      BY <1>1, <1>3, <2>1, SettledRowFacts DEF Inv, TypeOK
    <2>3. /\ hand' \in [Workers -> Hand] /\ hand'[w] = Empty("idle")
          /\ \A v \in Workers : v # w => hand'[v] = hand[v]
      BY <1>1, HandUpdates DEF Inv, TypeOK, Stages
    <2>4. Empty("idle").stage = "idle" /\ Empty("idle").job = None
      BY DEF Empty
    <2>5. TypeOK'
      BY <1>1, <2>1, <2>2, <2>3, <2>4 DEF Inv, TypeOK
    <2>6. AttemptsFromOne'
      BY <2>3, <2>4 DEF Inv, AttemptsFromOne
    <2>7. RevivedBefore'
      BY <2>2 DEF Inv, RevivedBefore
    <2>8. OwnerIsCurrent'
      <3>1. SUFFICES ASSUME NEW v \in Workers, NEW j \in Jobs, Owns(v, j)'
                     PROVE  hand'[v] = hand[v] /\ Owns(v, j) /\ hist'[j] = hist[j]
        BY DEF Inv, OwnerIsCurrent
      <3>2. v # w /\ j # i
        BY <1>1, <2>2, <2>3, <2>4, <3>1, JobQueueAssumption DEF Owns
      <3>3. QED
        BY <2>2, <2>3, <3>1, <3>2 DEF Owns
    <2>9. QED
      BY <2>5, <2>6, <2>7, <2>8 DEF Inv
  <1>4. QED
    BY <1>2, <1>3

-----------------------------------------------------------------------------
\* The worker process

LEMMA ProcessInv ==
    ASSUME Inv, NEW w \in Workers,
           Sigterm(w) \/ Exit(w) \/ Crash(w) \/ Restart(w) \/ SettleFails(w)
    PROVE  Inv'
  <1> USE DEF Inv
  <1>1. "fault" \in DOMAIN Limits /\ "stop" \in DOMAIN Limits
    BY DEF Limits
  <1>2. CASE Sigterm(w)
    <2>1. spent' \in [DOMAIN Limits -> Nat] /\ \A b \in DOMAIN Limits : spent'[b] <= Limits[b]
      BY <1>1, <1>2, SpendType DEF Sigterm
    <2>2. UNCHANGED <<jobs, hand, hist, wanted>> /\ stopping' \subseteq Workers
      BY <1>2 DEF Sigterm, TypeOK
    <2>3. TypeOK'
      BY <2>1, <2>2 DEF TypeOK
    <2>4. AttemptsFromOne' /\ RevivedBefore' /\ OwnerIsCurrent'
      BY <2>2 DEF AttemptsFromOne, RevivedBefore, OwnerIsCurrent, Owns
    <2>5. QED
      BY <2>3, <2>4
  <1>3. CASE Exit(w)
    BY <1>3, LetGoInv DEF Exit, TypeOK
  <1>4. CASE Crash(w)
    <2>1. spent' \in [DOMAIN Limits -> Nat] /\ \A b \in DOMAIN Limits : spent'[b] <= Limits[b]
      BY <1>1, <1>4, SpendType DEF Crash
    <2>2. QED
      BY <1>4, <2>1, LetGoInv DEF Crash, TypeOK
  <1>5. CASE Restart(w)
    BY <1>5, LetGoInv DEF Restart, TypeOK
  <1>6. CASE SettleFails(w)
    <2>1. spent' \in [DOMAIN Limits -> Nat] /\ \A b \in DOMAIN Limits : spent'[b] <= Limits[b]
      BY <1>1, <1>6, SpendType DEF SettleFails
    <2>2. QED
      BY <1>6, <2>1, LetGoInv DEF SettleFails, TypeOK
  <1>7. QED
    BY <1>2, <1>3, <1>4, <1>5, <1>6

\* One step of the queue is one action of one producer, worker or clock.
LEMMA NextCases ==
    ASSUME NEW ACTION P,
           \A j \in Jobs : Enqueue(j) \/ BecomeDue(j) \/ LockExpires(j) => P,
           \A k \in Keys \ RevivedKeys : Cancel(k) => P,
           \A k \in Keys \ RevivedKeys, soon \in BOOLEAN : EnqueueOnce(k, soon) => P,
           \A ks \in SUBSET RevivedKeys : Revive(ks) => P,
           \A w \in Workers, j \in Jobs : Claim(w, j) \/ ClaimReplyLost(w, j) => P,
           \A w \in Workers : GiveUp(w) \/ Call(w) \/ Settle(w) => P,
           \A w \in Workers, outcome \in {"ok", "error", "interrupted"} : Return(w, outcome) => P,
           \A w \in Workers :
               Sigterm(w) \/ Exit(w) \/ Crash(w) \/ Restart(w) \/ SettleFails(w) => P,
           Next
    PROVE  P
  BY DEF Next, Produce, Work, Disturb, Finish

LEMMA NextInv == Inv /\ [Next]_vars => Inv'
  <1> SUFFICES ASSUME Inv, [Next]_vars PROVE Inv'
      OBVIOUS
  <1>1. CASE UNCHANGED vars
    BY <1>1 DEF vars, Inv, TypeOK, AttemptsFromOne, RevivedBefore, OwnerIsCurrent, Owns
  <1>2. CASE Next
    <2>1. \A j \in Jobs : Enqueue(j) \/ BecomeDue(j) \/ LockExpires(j) => Inv'
      BY EnqueueInv, BecomeDueInv, LockExpiresInv
    <2>2. \A k \in Keys \ RevivedKeys : Cancel(k) => Inv'
      BY CancelInv
    <2>3. \A k \in Keys \ RevivedKeys, soon \in BOOLEAN : EnqueueOnce(k, soon) => Inv'
      BY EnqueueOnceInv
    <2>4. \A ks \in SUBSET RevivedKeys : Revive(ks) => Inv'
      BY ReviveInv
    <2>5. \A w \in Workers, j \in Jobs : Claim(w, j) \/ ClaimReplyLost(w, j) => Inv'
      BY ClaimInv, ClaimReplyLostInv
    <2>6. \A w \in Workers : GiveUp(w) \/ Call(w) \/ Settle(w) => Inv'
      BY GiveUpInv, CallInv, SettleInv
    <2>7. \A w \in Workers, outcome \in {"ok", "error", "interrupted"} :
             Return(w, outcome) => Inv'
      BY ReturnInv
    <2>8. \A w \in Workers :
             Sigterm(w) \/ Exit(w) \/ Crash(w) \/ Restart(w) \/ SettleFails(w) => Inv'
      BY ProcessInv
    <2>9. QED
      BY <1>2, <2>1, <2>2, <2>3, <2>4, <2>5, <2>6, <2>7, <2>8, NextCases
  <1>3. QED
    BY <1>1, <1>2

\* The inductive invariant holds in every reachable state.
THEOREM Invariant == Spec => []Inv
  BY InitInv, NextInv, PTL DEF Spec

\* Type correctness of the queue, for every instance.
THEOREM TypeCorrect == Spec => []TypeOK
  <1>1. Inv => TypeOK
    BY DEF Inv
  <1>2. QED
    BY Invariant, <1>1, PTL

\* The ownership token of settle, (id, locked_by, attempts), singles out the
\* last claim, although interruptions and revivals lower attempts.
THEOREM TokenCorrect == Spec => []TokenIsLatest
  <1>1. Inv => TokenIsLatest
    BY DEF Inv, OwnerIsCurrent, TokenIsLatest
  <1>2. QED
    BY Invariant, <1>1, PTL
=============================================================================
