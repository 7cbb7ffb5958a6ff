----------------------------- MODULE MCJobQueue -----------------------------
(***************************************************************************)
(* Model checking of JobQueue: what the queue promises its producers and   *)
(* its handlers, and the instances TLC checks it on.                       *)
(***************************************************************************)
EXTENDS JobQueueProperties, TLC

CONSTANTS j1, j2, board, deletion, w1, w2

\* Two rows of one board's snapshot: EnqueueOnce and Cancel act on both.
BoardKeyOf == (j1 :> board) @@ (j2 :> board)

\* A board snapshot and a calendar deletion, which reconnecting revives.
MixedKeyOf == (j1 :> board) @@ (j2 :> deletion)

AllHandles == [w \in {w1, w2} |-> {board, deletion}]

SymmetricJobs == Permutations({j1, j2}) \cup Permutations({w1, w2})
SymmetricWorkers == Permutations({w1, w2})
=============================================================================
