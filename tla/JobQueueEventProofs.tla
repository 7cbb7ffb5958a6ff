------------------------ MODULE JobQueueEventProofs -------------------------
(***************************************************************************)
(* No event passed to EnqueueOnce is lost, for every set of jobs, workers  *)
(* and keys and every limit.  EventIsCovered is not inductive: the row it  *)
(* speaks of may be in the hands of a worker about to delete it without    *)
(* having seen the event.  EventCover says which row survives.             *)
(***************************************************************************)
EXTENDS JobQueueInvariant

\* The attempt of w began before the event, and may yet succeed.
Misses(w) ==
    \/ hand[w].stage = "running" /\ ~hand[w].upToDate
    \/ hand[w].stage = "settling" /\ hand[w].outcome = "ok"

\* Row j stands for the events of key k: nobody who owns it misses one.
Covers(k, j) ==
    /\ KeyOf[j] = k /\ jobs[j].state = "live"
    /\ \A w \in Workers : Owns(w, j) => ~Misses(w)

EventCover == \A k \in wanted : \E j \in Jobs : Covers(k, j)

-----------------------------------------------------------------------------

\* A row goes on covering its key while its token stays and nobody comes to
\* miss an event of it.
LEMMA CoverKept ==
    ASSUME NEW k \in Keys, NEW j \in Jobs, Covers(k, j),
           jobs'[j].state = jobs[j].state, jobs'[j].locked_by = jobs[j].locked_by,
           jobs'[j].attempts = jobs[j].attempts,
           \A w \in Workers : hand'[w].job = j => hand'[w] = hand[w] \/ ~Misses(w)'
    PROVE  Covers(k, j)'
  BY DEF Covers, Owns, Misses

\* A live row without an owner covers its key.
LEMMA UnownedCovers ==
    ASSUME NEW k \in Keys, NEW j \in Jobs, KeyOf[j] = k, jobs'[j].state = "live",
           \A w \in Workers : ~Owns(w, j)'
    PROVE  Covers(k, j)'
  BY DEF Covers

\* An unlocked row has no owner.
LEMMA UnlockedCovers ==
    ASSUME NEW k \in Keys, NEW j \in Jobs, KeyOf[j] = k, jobs'[j].state = "live",
           jobs'[j].locked_by = None
    PROVE  Covers(k, j)'
  BY UnownedCovers, JobQueueAssumption DEF Owns

LEMMA EnqueueCover ==
    ASSUME Inv, EventCover, NEW i \in Jobs, Enqueue(i) \/ BecomeDue(i) \/ LockExpires(i)
    PROVE  EventCover'
  <1>1. SUFFICES ASSUME NEW k \in wanted, NEW j \in Jobs, Covers(k, j) PROVE Covers(k, j)'
    <2>1. wanted' = wanted
      BY DEF Enqueue, BecomeDue, LockExpires
    <2>2. QED
      BY <1>1, <2>1 DEF EventCover
  <1>2. jobs[j].state = "live" /\ k \in Keys
    BY <1>1 DEF Covers, Inv, TypeOK
  <1>3. /\ jobs'[j].state = jobs[j].state /\ jobs'[j].locked_by = jobs[j].locked_by
        /\ jobs'[j].attempts = jobs[j].attempts
    <2>1. CASE Enqueue(i)
      BY <1>2, <2>1 DEF Enqueue, Inv, TypeOK
    <2>2. CASE BecomeDue(i)
      BY <2>2 DEF BecomeDue, Inv, TypeOK, Row
    <2>3. CASE LockExpires(i)
      BY <2>3 DEF LockExpires, Inv, TypeOK, Row
    <2>4. QED
      BY <2>1, <2>2, <2>3
  <1>4. hand' = hand
    BY DEF Enqueue, BecomeDue, LockExpires
  <1>5. QED
    BY <1>1, <1>2, <1>3, <1>4, CoverKept

\* The event is folded into a waiting row, or gets a row of its own.
LEMMA EnqueueOnceCover ==
    ASSUME Inv, EventCover, NEW e \in Keys, NEW soon \in BOOLEAN, EnqueueOnce(e, soon)
    PROVE  EventCover'
  <1>1. jobs \in [Jobs -> Row] /\ hand \in [Workers -> Hand] /\ wanted \subseteq Keys
    BY DEF Inv, TypeOK
  <1>2. SUFFICES ASSUME NEW k \in wanted' PROVE \E j \in Jobs : Covers(k, j)'
    BY DEF EventCover
  <1>3. k \in Keys /\ (k = e \/ k \in wanted)
    BY <1>1 DEF EnqueueOnce
  <1>4. CASE k = e
    <2>1. CASE WaitingFor(e) # {}
      <3>1. PICK j \in Jobs : KeyOf[j] = e /\ Waiting(j)
        BY <2>1 DEF WaitingFor
      <3>2. jobs'[j].state = "live" /\ jobs'[j].locked_by = None
        BY <1>1, <2>1, <3>1 DEF EnqueueOnce, Waiting, Row
      <3>3. QED
        BY <1>4, <3>1, <3>2, UnlockedCovers
    <2>2. CASE WaitingFor(e) = {}
      <3>1. PICK j \in Jobs : KeyOf[j] = e /\ jobs' = [jobs EXCEPT ![j] = Inserted(soon)]
        BY <2>2 DEF EnqueueOnce
      <3>2. jobs'[j].state = "live" /\ jobs'[j].locked_by = None
        BY <1>1, <3>1 DEF Inserted, NoRow
      <3>3. QED
        BY <1>4, <3>1, <3>2, UnlockedCovers
    <2>3. QED
      BY <2>1, <2>2
  <1>5. CASE k # e
    <2>1. PICK j \in Jobs : Covers(k, j)
      BY <1>3, <1>5 DEF EventCover
    <2>2. KeyOf[j] = k /\ jobs[j].state = "live"
      BY <2>1 DEF Covers
    <2>3. jobs'[j] = jobs[j]
      <3>1. CASE WaitingFor(e) # {}
        BY <1>1, <1>5, <2>2, <3>1 DEF EnqueueOnce, WaitingFor
      <3>2. CASE WaitingFor(e) = {}
        BY <1>1, <2>2, <3>2 DEF EnqueueOnce
      <3>3. QED
        BY <3>1, <3>2
    <2>4. \A w \in Workers : hand'[w].job = j => hand'[w] = hand[w]
      BY <1>1, <1>5, <2>2 DEF EnqueueOnce, Hand
    <2>5. QED
      BY <1>3, <2>1, <2>3, <2>4, CoverKept
  <1>6. QED
    BY <1>4, <1>5

LEMMA CancelCover == ASSUME Inv, EventCover, NEW e \in Keys, Cancel(e) PROVE EventCover'
  <1>1. SUFFICES ASSUME NEW k \in wanted, k # e, NEW j \in Jobs, Covers(k, j)
                 PROVE  Covers(k, j)'
    BY <1>1 DEF EventCover, Cancel
  <1>2. jobs'[j] = jobs[j] /\ hand' = hand /\ k \in Keys
    BY <1>1 DEF Cancel, WaitingFor, Covers, Inv, TypeOK
  <1>3. QED
    BY <1>1, <1>2, CoverKept

\* Attempts are numbered from 1, so a revived row has no owner.
LEMMA ReviveCover ==
    ASSUME Inv, EventCover, NEW ks \in SUBSET RevivedKeys, Revive(ks) PROVE EventCover'
  <1>1. SUFFICES ASSUME NEW k \in wanted, NEW j \in Jobs, Covers(k, j) PROVE Covers(k, j)'
    <2>1. wanted' = wanted
      BY DEF Revive
    <2>2. QED
      BY <1>1, <2>1 DEF EventCover
  <1>2. hand' = hand /\ k \in Keys /\ KeyOf[j] = k
    BY <1>1 DEF Revive, Covers, Inv, TypeOK
  <1>3. CASE jobs'[j] = jobs[j]
    BY <1>1, <1>2, <1>3, CoverKept
  <1>4. CASE jobs'[j] = RevivedRow(jobs[j])
    <2>1. jobs'[j].state = "live" /\ jobs'[j].attempts = 0
      BY <1>4 DEF RevivedRow, Inv, TypeOK, Row
    <2>2. \A w \in Workers : ~Owns(w, j)'
      <3> SUFFICES ASSUME NEW w \in Workers, hand[w].job = j PROVE hand[w].attempt # 0
          BY <1>2, <2>1 DEF Owns
      <3>1. hand[w].attempt >= 1
        BY JobQueueAssumption DEF Inv, AttemptsFromOne
      <3>2. QED
        BY <3>1
    <2>3. QED
      BY <1>2, <2>1, <2>2, UnownedCovers
  <1>5. QED
    BY <1>3, <1>4 DEF Revive, Inv, TypeOK

\* Whoever claims the row has yet to start, after the event.
LEMMA ClaimCover ==
    ASSUME Inv, EventCover, NEW v \in Workers, NEW i \in Jobs, Claim(v, i) \/ ClaimReplyLost(v, i)
    PROVE  EventCover'
  <1>1. SUFFICES ASSUME NEW k \in wanted, NEW j \in Jobs, Covers(k, j) PROVE Covers(k, j)'
    <2>1. wanted' = wanted
      BY DEF Claim, ClaimReplyLost
    <2>2. QED
      BY <1>1, <2>1 DEF EventCover
  <1>2. /\ jobs \in [Jobs -> Row] /\ hand \in [Workers -> Hand] /\ k \in Keys
        /\ KeyOf[j] = k /\ jobs[j].state = "live"
    BY <1>1 DEF Inv, TypeOK, Covers
  <1>3. TakeRow(v, i) /\ hand[v].stage = "idle" /\ ~Misses(v)
    BY DEF Claim, ClaimReplyLost, Misses
  <1>4. \A w \in Workers : hand'[w] = hand[w] \/ (w = v /\ hand'[w].stage = "claimed")
    BY <1>2 DEF Claim, ClaimReplyLost, Empty
  <1>5. \A w \in Workers : Misses(w)' => w # v /\ hand'[w] = hand[w] /\ Misses(w)
    BY <1>3, <1>4 DEF Misses
  <1>6. CASE j = i
    <2>1. jobs'[j].state = "live" /\ jobs'[j].locked_by = v
      BY <1>2, <1>3, <1>6 DEF TakeRow, Row
    <2>2. \A w \in Workers : Owns(w, j)' => ~Misses(w)'
      BY <1>1, <1>5, <2>1 DEF Owns, Covers
    <2>3. QED
      BY <1>2, <2>1, <2>2 DEF Covers
  <1>7. CASE j # i
    <2>1. jobs'[j] = jobs[j]
      BY <1>2, <1>3, <1>7 DEF TakeRow
    <2>2. QED
      BY <1>1, <1>2, <1>5, <2>1, CoverKept
  <1>8. QED
    BY <1>6, <1>7

LEMMA StartCover ==
    ASSUME Inv, EventCover, NEW v \in Workers, GiveUp(v) \/ Call(v) PROVE EventCover'
  <1>1. SUFFICES ASSUME NEW k \in wanted, NEW j \in Jobs, Covers(k, j) PROVE Covers(k, j)'
    <2>1. wanted' = wanted
      BY DEF GiveUp, Call
    <2>2. QED
      BY <1>1, <2>1 DEF EventCover
  <1>2. jobs' = jobs /\ k \in Keys /\ hand \in [Workers -> Hand]
    BY <1>1 DEF GiveUp, Call, Inv, TypeOK
  <1>3. \A w \in Workers : hand'[w] = hand[w] \/ ~Misses(w)'
    BY <1>2 DEF GiveUp, Call, Misses, Hand
  <1>4. QED
    BY <1>1, <1>2, <1>3, CoverKept

\* The owner of a covering row started after the event: if it succeeds, the
\* event has been handled.
LEMMA ReturnCover ==
    ASSUME Inv, EventCover, NEW v \in Workers, NEW outcome \in {"ok", "error", "interrupted"},
           Return(v, outcome)
    PROVE  EventCover'
  <1>1. jobs' = jobs /\ hand \in [Workers -> Hand] /\ wanted' \subseteq wanted
        /\ wanted \subseteq Keys
    BY DEF Return, Inv, TypeOK
  <1>2. SUFFICES ASSUME NEW k \in wanted', NEW j \in Jobs, Covers(k, j) PROVE Covers(k, j)'
    BY <1>1, <1>2 DEF EventCover
  <1>3. /\ hand'[v].stage = "settling" /\ hand'[v].outcome = outcome
        /\ hand'[v].job = hand[v].job /\ hand'[v].attempt = hand[v].attempt
        /\ \A w \in Workers : w # v => hand'[w] = hand[w]
    BY <1>1 DEF Return, Hand
  <1>4. Owns(v, j) => ~Misses(v)'
    <2> SUFFICES ASSUME Owns(v, j), outcome = "ok" PROVE FALSE
        BY <1>3 DEF Misses
    <2>1. hand[v].stage = "running" /\ hand[v].upToDate /\ hand[v].job = j
      <3>1. hand[v].upToDate \in BOOLEAN
        BY <1>1 DEF Hand
      <3>2. QED
        BY <3>1, <1>2 DEF Covers, Misses, Return, Owns
    <2>2. wanted' = wanted \ {KeyOf[j]}
      BY <2>1 DEF Return
    <2>3. QED
      BY <2>2, <1>2 DEF Covers
  <1>5. \A w \in Workers : Owns(w, j)' => ~Misses(w)'
    <2>1. \A w \in Workers : Owns(w, j)' => Owns(w, j)
      BY <1>1, <1>3 DEF Owns
    <2>2. \A w \in Workers : w # v => (Misses(w)' => Misses(w))
      BY <1>3 DEF Misses
    <2>3. QED
      BY <1>2, <1>4, <2>1, <2>2 DEF Covers
  <1>6. QED
    BY <1>1, <1>2, <1>5 DEF Covers

\* The owner did not succeed: it leaves the row waiting or buries it.
LEMMA SettleCover ==
    ASSUME Inv, EventCover, NEW v \in Workers, Settle(v) PROVE EventCover'
  <1> DEFINE h == hand[v]
             i == hand[v].job
  <1>1. /\ jobs \in [Jobs -> Row] /\ hand \in [Workers -> Hand] /\ wanted \subseteq Keys
        /\ wanted' \subseteq wanted /\ h.stage = "settling" /\ i \in Jobs
    BY DEF Settle, Inv, TypeOK, Hand
  <1>2. SUFFICES ASSUME NEW k \in wanted', NEW j \in Jobs, Covers(k, j) PROVE Covers(k, j)'
    BY <1>1, <1>2 DEF EventCover
  <1>3. k \in Keys /\ KeyOf[j] = k /\ jobs[j].state = "live"
    BY <1>1, <1>2 DEF Covers
  <1>4. \A w \in Workers : hand'[w] = hand[w] \/ ~Misses(w)'
    BY <1>1 DEF Settle, Empty, Misses
  <1>5. CASE j = i /\ Owns(v, i)
    <2>1. h.outcome # "ok"
      BY <1>1, <1>2, <1>5 DEF Covers, Misses
    <2>2. ~Buries(h)
      BY <1>2, <1>3, <1>5 DEF Settle
    <2>3. jobs'[j] = SettledRow(jobs[j], h)
      BY <1>1, <1>5 DEF Settle
    <2>4. Unlocked(jobs[j]).state = "live"
      BY <1>1, <1>3 DEF Unlocked, Row
    <2>5. jobs'[j].state = "live" /\ jobs'[j].locked_by = None
      <3> DEFINE free == Unlocked(jobs[j])
      <3>1. free \in Row /\ free.locked_by = None /\ free.state = "live"
        <4>1. jobs[j] \in Row
          BY <1>1
        <4>2. QED
          BY <4>1, <2>4, RowUpdates DEF Unlocked, Row
      <3>2. jobs'[j] = IF h.outcome = "interrupted"
                       THEN [free EXCEPT !.attempts = free.attempts - 1]
                       ELSE [free EXCEPT !.due = FALSE]
        BY <2>1, <2>2, <2>3 DEF SettledRow
      <3> HIDE DEF free
      <3>3. QED
        BY <3>1, <3>2 DEF Row
    <2>6. QED
      BY <1>3, <2>5, UnlockedCovers
  <1>6. CASE ~(j = i /\ Owns(v, i))
    <2>1. jobs'[j] = jobs[j]
      BY <1>1, <1>6 DEF Settle
    <2>2. QED
      BY <1>2, <1>3, <1>4, <2>1, CoverKept
  <1>7. QED
    BY <1>5, <1>6

LEMMA ProcessCover ==
    ASSUME Inv, EventCover, NEW v \in Workers,
           Sigterm(v) \/ Exit(v) \/ Crash(v) \/ Restart(v) \/ SettleFails(v)
    PROVE  EventCover'
  <1>1. SUFFICES ASSUME NEW k \in wanted, NEW j \in Jobs, Covers(k, j) PROVE Covers(k, j)'
    <2>1. wanted' = wanted
      BY DEF Sigterm, Exit, Crash, Restart, SettleFails
    <2>2. QED
      BY <1>1, <2>1 DEF EventCover
  <1>2. jobs' = jobs /\ k \in Keys /\ hand \in [Workers -> Hand]
    BY <1>1 DEF Sigterm, Exit, Crash, Restart, SettleFails, Inv, TypeOK
  <1>3. \A w \in Workers : hand'[w] = hand[w] \/ ~Misses(w)'
    BY <1>2 DEF Sigterm, Exit, Crash, Restart, SettleFails, Empty, Misses
  <1>4. QED
    BY <1>1, <1>2, <1>3, CoverKept

-----------------------------------------------------------------------------

LEMMA CoverStep == Inv /\ EventCover /\ [Next]_vars => EventCover'
  <1> SUFFICES ASSUME Inv, EventCover, [Next]_vars PROVE EventCover'
      OBVIOUS
  <1>1. CASE UNCHANGED vars
    BY <1>1 DEF vars, EventCover, Covers, Misses, Owns
  <1>2. CASE Next
    <2>1. \A j \in Jobs : Enqueue(j) \/ BecomeDue(j) \/ LockExpires(j) => EventCover'
      BY EnqueueCover
    <2>2. \A k \in Keys \ RevivedKeys : Cancel(k) => EventCover'
      BY CancelCover
    <2>3. \A k \in Keys \ RevivedKeys, soon \in BOOLEAN : EnqueueOnce(k, soon) => EventCover'
      BY EnqueueOnceCover
    <2>4. \A ks \in SUBSET RevivedKeys : Revive(ks) => EventCover'
      BY ReviveCover
    <2>5. \A w \in Workers, j \in Jobs : Claim(w, j) \/ ClaimReplyLost(w, j) => EventCover'
      BY ClaimCover
    <2>6. \A w \in Workers : GiveUp(w) \/ Call(w) \/ Settle(w) => EventCover'
      BY StartCover, SettleCover
    <2>7. \A w \in Workers, outcome \in {"ok", "error", "interrupted"} :
             Return(w, outcome) => EventCover'
      BY ReturnCover
    <2>8. \A w \in Workers :
             Sigterm(w) \/ Exit(w) \/ Crash(w) \/ Restart(w) \/ SettleFails(w) => EventCover'
      BY ProcessCover
    <2>9. QED
      BY <1>2, <2>1, <2>2, <2>3, <2>4, <2>5, <2>6, <2>7, <2>8, NextCases
  <1>3. QED
    BY <1>1, <1>2

\* No event is lost: until a handler that started after it has returned nil,
\* or its key was cancelled or buried, a live row of its key is in the table.
THEOREM EventCorrect == Spec => []EventIsCovered
  <1>1. Init => EventCover
    BY DEF Init, EventCover
  <1>2. EventCover => EventIsCovered
    BY DEF EventCover, EventIsCovered, Covers
  <1>3. QED
    BY <1>1, <1>2, CoverStep, Invariant, PTL DEF Spec
=============================================================================
