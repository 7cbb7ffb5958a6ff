----------------------------- MODULE Whiteboard -----------------------------
(***************************************************************************)
(* The whiteboard of one lesson: participants save scenes that the server  *)
(* merges element by element (SaveWhiteboardScene), and the job            *)
(* whiteboard_snapshot copies the scene to storage (whiteboardSnapshot).   *)
(* A save first checks that the lesson is open and saves in another        *)
(* transaction; a snapshot reads, writes the object and marks it in three  *)
(* steps, while the lesson may be cancelled or the board saved again.      *)
(*                                                                         *)
(* Of the queue it keeps what EnqueueOnce and the runner promise: at most  *)
(* one row is added while one waits, a failed or abandoned row waits again *)
(* or is dead, and a late outcome settles nothing.                         *)
(***************************************************************************)
EXTENDS Naturals, Sequences, FiniteSets, Functions

CONSTANTS
    Elements,     \* the element versions participants may send
    MaxElements,  \* maxSceneBytes, counted in elements
    Requests,     \* requests in flight
    Workers,
    SaveLimit,    \* bound: saves that change the scene
    FaultLimit,   \* bound: crashes, expired locks, lost replies of storage
    NoElement     \* no element

Element == [id : Nat, version : Nat, nonce : Nat, index : Nat,
            deleted : BOOLEAN, updated : Nat]

\* Assumed of the constants wherever the module is instantiated.
WhiteboardAssumption ==
    /\ Elements \subseteq Element /\ NoElement \notin Elements
    /\ MaxElements \in Nat \ {0} /\ SaveLimit \in Nat /\ FaultLimit \in Nat

VARIABLES
    lesson,    \* the lesson's status, or "gone" once cancelled
    board,     \* the row of whiteboards
    admitted,  \* requests that found the lesson open
    waiting,   \* unlocked rows of whiteboard_snapshot
    hand,      \* what each worker holds of a snapshot
    object,    \* the scene version in storage, 0 for no object
    deletion,  \* a material_files_delete job holds the object's key
    faults,    \* bound used up
    lostPut,   \* history: a worker left an object it had not marked
    overlap,   \* history: two snapshots were under way at once
    lapsed     \* history: a snapshot is dead, and none has read the board since

vars == <<lesson, board, admitted, waiting, hand, object, deletion, faults, lostPut, overlap,
          lapsed>>

-----------------------------------------------------------------------------
\* Scenes

HeaderOf(scene, id) ==
    IF \E i \in DOMAIN scene : scene[i].id = id
    THEN scene[CHOOSE i \in DOMAIN scene : scene[i].id = id] ELSE NoElement

\* parseHeader and the check for an element sent twice.
WellFormed(scene) ==
    \A i, j \in DOMAIN scene : scene[i].id = scene[j].id => i = j

KeepsStoredMutantByNonce(old, new) == old # NoElement /\ old.nonce <= new.nonce

\* The greater version stays; of equal ones the smaller nonce.
KeepsStored(old, new) ==
    /\ old # NoElement
    /\ old.version > new.version \/ (old.version = new.version /\ old.nonce <= new.nonce)

\* The elements at some positions of a scene, in its order.
Picked(scene, positions) ==
    {[k \in 1..Cardinality(positions) |-> scene[at[k]]] :
        at \in {at \in Bijection(1..Cardinality(positions), positions) :
                   \A k, l \in 1..Cardinality(positions) : k < l => at[k] < at[l]}}

ZOrder(a, b) == a.index < b.index \/ (a.index = b.index /\ a.id < b.id)

\* By fractional index if every element has one (0 stands for none).
Ordered(scene) ==
    IF \E i \in DOMAIN scene : scene[i].index = 0 THEN {scene}
    ELSE {[k \in DOMAIN scene |-> scene[at[k]]] :
             at \in {at \in Bijection(DOMAIN scene, DOMAIN scene) :
                        \A k, l \in DOMAIN scene : k < l => ZOrder(scene[at[k]], scene[at[l]])}}

\* mergeElements: what was sent, then the stored elements that were not.
Merge(stored, incoming) ==
    LET sent == [i \in DOMAIN incoming |->
                     LET old == HeaderOf(stored, incoming[i].id)
                     IN  IF KeepsStored(old, incoming[i]) THEN old ELSE incoming[i]]
        others == {i \in DOMAIN stored : HeaderOf(incoming, stored[i].id) = NoElement}
    IN  UNION {Ordered(sent \o rest) : rest \in Picked(stored, others)}

Changes(stored, incoming) ==
    \E i \in DOMAIN incoming : ~KeepsStored(HeaderOf(stored, incoming[i].id), incoming[i])

Fits(scene) == Cardinality({i \in DOMAIN scene : ~scene[i].deleted}) <= MaxElements

DroppableMutantAnyElement(scene) == DOMAIN scene

Droppable(scene) == {i \in DOMAIN scene : scene[i].deleted}

\* fitScene: over the limit, the tombstones go, the oldest first.
Fit(scene) ==
    LET Older(i, j) == \/ scene[i].updated < scene[j].updated
                       \/ scene[i].updated = scene[j].updated /\ i < j
        excess == IF Len(scene) > MaxElements THEN Len(scene) - MaxElements ELSE 0
        dropped == {some \in SUBSET Droppable(scene) :
                       /\ Cardinality(some) = excess
                       /\ \A i \in some, j \in Droppable(scene) \ some : Older(i, j)}
    IN  UNION {Picked(scene, DOMAIN scene \ some) : some \in dropped}

-----------------------------------------------------------------------------

NoBoard == [exists |-> FALSE, scene |-> <<>>, version |-> 0, marked |-> 0, key |-> FALSE]

Idle == [stage |-> "idle", version |-> 0, owns |-> FALSE]

Init ==
    /\ lesson = "scheduled"
    /\ board = NoBoard
    /\ admitted = {}
    /\ waiting = 0
    /\ hand = [w \in Workers |-> Idle]
    /\ object = 0
    /\ deletion = FALSE
    /\ faults = 0
    /\ lostPut = FALSE /\ overlap = FALSE /\ lapsed = FALSE

\* EnqueueOnce of the snapshot.
Enqueued == IF waiting > 0 THEN waiting ELSE 1

-----------------------------------------------------------------------------
\* The lesson

Start ==
    /\ lesson = "scheduled" /\ lesson' = "live"
    /\ UNCHANGED <<board, admitted, waiting, hand, object, deletion, faults, lostPut, overlap, lapsed>>

Close ==
    /\ lesson = "live" /\ lesson' = "over"
    /\ UNCHANGED <<board, admitted, waiting, hand, object, deletion, faults, lostPut, overlap, lapsed>>

QueuedDeletionMutantNever(b) == FALSE

\* The key CancelLesson finds in the row it deletes.
QueuedDeletion(b) == b.key

\* CancelLesson: the board goes with the lesson, its object with a job.
CancelLesson ==
    /\ lesson = "scheduled" /\ lesson' = "gone"
    /\ board' = NoBoard
    /\ deletion' = (deletion \/ QueuedDeletion(board))
    /\ UNCHANGED <<admitted, waiting, hand, object, faults, lostPut, overlap, lapsed>>

\* room_finished, which LiveKit may deliver at any time.
RoomFinished ==
    /\ board.exists
    /\ waiting' = Enqueued
    /\ UNCHANGED <<lesson, board, admitted, hand, object, deletion, faults, lostPut, overlap, lapsed>>

-----------------------------------------------------------------------------
\* Requests of participants

\* whiteboardLesson and whiteboardOpen: read once, acted upon later.
Admit(r) ==
    /\ r \notin admitted /\ lesson \in {"scheduled", "live"}
    /\ admitted' = admitted \cup {r}
    /\ UNCHANGED <<lesson, board, waiting, hand, object, deletion, faults, lostPut, overlap, lapsed>>

\* OpenWhiteboard: later openers get the room of the first.
OpenWhiteboard(r) ==
    /\ r \in admitted /\ admitted' = admitted \ {r}
    /\ lesson # "gone"
    /\ board' = [board EXCEPT !.exists = TRUE]
    /\ UNCHANGED <<lesson, waiting, hand, object, deletion, faults, lostPut, overlap, lapsed>>

\* SaveWhiteboardScene, under the lock of the board's row.
SaveScene(r, incoming) ==
    /\ r \in admitted /\ admitted' = admitted \ {r}
    /\ board.exists /\ board.version < SaveLimit
    /\ WellFormed(incoming) /\ Changes(board.scene, incoming)
    /\ \E merged \in Merge(board.scene, incoming) :
          /\ Fits(merged)
          /\ \E scene \in Fit(merged) :
                board' = [board EXCEPT !.scene = scene, !.version = @ + 1]
    /\ waiting' = Enqueued
    /\ UNCHANGED <<lesson, hand, object, deletion, faults, lostPut, overlap, lapsed>>

\* No board, a malformed or too large scene, or nothing new.
Refuse(r) ==
    /\ r \in admitted /\ admitted' = admitted \ {r}
    /\ UNCHANGED <<lesson, board, waiting, hand, object, deletion, faults, lostPut, overlap, lapsed>>

-----------------------------------------------------------------------------
\* The worker's snapshot

Busy == {w \in Workers : hand[w].stage \in {"read", "put"}}

Claim(w) ==
    /\ waiting > 0 /\ hand[w].stage = "idle"
    /\ waiting' = waiting - 1
    /\ hand' = [hand EXCEPT ![w] = [Idle EXCEPT !.stage = "claimed", !.owns = TRUE]]
    /\ UNCHANGED <<lesson, board, admitted, object, deletion, faults, lostPut, overlap, lapsed>>

UpToDateMutantByKey(b) == b.key

UpToDate(b) == b.key /\ b.marked >= b.version

\* WhiteboardForSnapshot: the job is done if the board is gone or up to date.
Read(w) ==
    /\ hand[w].stage = "claimed"
    /\ hand' = [hand EXCEPT ![w] =
           IF ~board.exists \/ UpToDate(board) THEN Idle
           ELSE [@ EXCEPT !.stage = "read", !.version = board.version]]
    /\ overlap' = (overlap \/ (board.exists /\ ~UpToDate(board) /\ Busy # {}))
    /\ lapsed' = (lapsed /\ ~hand[w].owns)
    /\ UNCHANGED <<lesson, board, admitted, waiting, object, deletion, faults, lostPut>>

PutObject(w) ==
    /\ hand[w].stage = "read"
    /\ object' = hand[w].version
    /\ hand' = [hand EXCEPT ![w].stage = "put"]
    /\ UNCHANGED <<lesson, board, admitted, waiting, deletion, faults, lostPut, overlap, lapsed>>

\* MarkWhiteboardSnapshot: the mark is written as it is, and the object of a
\* lesson cancelled meanwhile goes to a deletion job.
MarkSnapshot(w) ==
    /\ hand[w].stage = "put"
    /\ IF board.exists
       THEN /\ board' = [board EXCEPT !.key = TRUE, !.marked = hand[w].version]
            /\ UNCHANGED deletion
       ELSE deletion' = TRUE /\ UNCHANGED board
    /\ hand' = [hand EXCEPT ![w] = Idle]
    /\ UNCHANGED <<lesson, admitted, waiting, object, faults, lostPut, overlap, lapsed>>

Fault == faults < FaultLimit /\ faults' = faults + 1

\* The row waits for another attempt, or that was the last and it is dead:
\* which attempt of its row a worker holds is not told apart.
Unsettled ==
    \/ waiting' = waiting + 1 /\ UNCHANGED lapsed
    \/ lapsed' = TRUE /\ UNCHANGED waiting

\* The worker dies or its handler fails.
Fail(w) ==
    /\ hand[w].stage # "idle" /\ Fault
    /\ IF hand[w].owns THEN Unsettled ELSE UNCHANGED <<waiting, lapsed>>
    /\ lostPut' = (lostPut \/ hand[w].stage = "put")
    /\ hand' = [hand EXCEPT ![w] = Idle]
    /\ UNCHANGED <<lesson, board, admitted, object, deletion, overlap>>

\* The lock of a holder expires: it goes on, but no longer owns the row, which
\* another worker may take, or buries.
LockExpires(w) ==
    /\ hand[w].stage # "idle" /\ hand[w].owns /\ Fault
    /\ hand' = [hand EXCEPT ![w].owns = FALSE]
    /\ Unsettled
    /\ UNCHANGED <<lesson, board, admitted, object, deletion, lostPut, overlap>>

\* The worker of material_files_delete.
DeleteObject ==
    /\ deletion
    /\ object' = 0 /\ deletion' = FALSE
    /\ UNCHANGED <<lesson, board, admitted, waiting, hand, faults, lostPut, overlap, lapsed>>

-----------------------------------------------------------------------------

\* A participant sends one element, or two.
Scenes == {<<e>> : e \in Elements} \cup (Elements \X Elements)

Request(r) ==
    \/ Admit(r) \/ OpenWhiteboard(r) \/ Refuse(r)
    \/ \E incoming \in Scenes : SaveScene(r, incoming)

Snapshot(w) == Claim(w) \/ Read(w) \/ PutObject(w) \/ MarkSnapshot(w)

Next ==
    \/ Start \/ Close \/ CancelLesson \/ RoomFinished \/ DeleteObject
    \/ \E r \in Requests : Request(r)
    \/ \E w \in Workers : Snapshot(w) \/ Fail(w) \/ LockExpires(w)

Spec == Init /\ [][Next]_vars

-----------------------------------------------------------------------------

TypeOK ==
    /\ lesson \in {"scheduled", "live", "over", "gone"}
    /\ board.scene \in Seq(Elements) /\ Len(board.scene) <= MaxElements
    /\ board.version \in 0..SaveLimit /\ board.marked \in 0..SaveLimit
    /\ admitted \subseteq Requests
    /\ waiting \in Nat /\ object \in 0..SaveLimit
    /\ \A w \in Workers : hand[w].stage \in {"idle", "claimed", "read", "put"}

Newer(old, new) ==
    \/ new.version > old.version
    \/ new.version = old.version /\ new.nonce < old.nonce

\* However saves of laggards are interleaved, an element never goes back to an
\* older version, and leaves the scene only as a tombstone for which there is
\* no room: nobody's drawing is overwritten, no deletion undone.
SceneForward ==
    [][lesson' # "gone" =>
        \A i \in DOMAIN board.scene :
            LET old == board.scene[i]
                new == HeaderOf(board'.scene, old.id)
            IN  IF new = NoElement
                THEN /\ Len(board'.scene) = MaxElements
                     /\ \E e \in Elements : e.id = old.id /\ e.deleted /\ (e = old \/ Newer(old, e))
                ELSE new = old \/ Newer(old, new)]_vars

\* The object of a cancelled lesson is on its way out, unless a worker died
\* between writing it and marking it.
NoOrphan ==
    lesson = "gone" /\ object # 0 /\ ~lostPut =>
        deletion \/ \E w \in Workers : hand[w].stage = "put"

\* When no snapshot waits or runs, storage has the last saved scene under the
\* mark of its version; unless two snapshots overlapped, or one ran out of
\* attempts and none has come after it.
QuiescentIsFresh ==
    waiting = 0 /\ (\A w \in Workers : hand[w].stage = "idle") /\ ~overlap /\ ~lapsed
        /\ board.exists /\ board.version > 0
    => object = board.version /\ board.key /\ board.marked = board.version
=============================================================================
