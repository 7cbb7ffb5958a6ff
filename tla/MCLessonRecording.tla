------------------------- MODULE MCLessonRecording --------------------------
(***************************************************************************)
(* Two or three Egresses in two room sessions of one lesson.               *)
(***************************************************************************)
EXTENDS LessonRecordingProperties, TLC

CONSTANTS e1, e2, e3, s1, s2

\* The sizes are distinct; Egresses start in any order.
TwoSizes == (e1 :> 1) @@ (e2 :> 2)
ThreeSizes == (e1 :> 1) @@ (e2 :> 2) @@ (e3 :> 3)

SymmetricSessions == Permutations({s1, s2})
=============================================================================
