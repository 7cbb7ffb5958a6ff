-------------------------- MODULE MCTranscription ---------------------------
(***************************************************************************)
(* One or two workers on the transcript of one lesson.                     *)
(***************************************************************************)
EXTENDS TranscriptionProperties, TLC

CONSTANTS w1, w2, r1, r2, x1, x2

SymmetricIds == Permutations({w1, w2}) \cup Permutations({x1, x2})
=============================================================================
