-------------------------- MODULE LessonCandidates --------------------------
(***************************************************************************)
(* The candidates for the words of one lesson (store/lesson_terms.go,      *)
(* lessonterms): words clicked in its materials, words on its whiteboard,  *)
(* words the teacher adds.  A click is one statement that decides on its   *)
(* snapshot and then inserts; the whiteboard is read first and counted     *)
(* later, by the job of the end of the lesson and by the teacher's button. *)
(***************************************************************************)
EXTENDS Naturals, FiniteSets

CONSTANTS
    Terms, Students,
    Requests,            \* clicks and parses under way
    MaxClickCandidates,
    DrawLimit            \* bound: edits of the whiteboard

\* Assumed of the constants wherever the module is instantiated.
CandidatesAssumption ==
    /\ IsFiniteSet(Students) /\ IsFiniteSet(Requests)
    /\ MaxClickCandidates \in Nat \ {0} /\ DrawLimit \in Nat

VARIABLES
    window,      \* of the room: open or closed
    scene,       \* occurrences of each word on the board
    draws,       \* edits so far
    clicks,      \* lesson_term_clicks
    clicked,     \* count of the click candidates, 0 for none
    onBoard,     \* count of the whiteboard candidates, 0 for none
    manual,      \* manual candidates
    asked,       \* requests
    newest,      \* history: the newest scene that was counted, with its draws
    crossed      \* history: two scenes were being counted at once

vars == <<window, scene, draws, clicks, clicked, onBoard, manual, asked, newest, crossed>>

Free == [at |-> "free"]

Blank == [t \in Terms |-> 0]

Init ==
    /\ window = "open" /\ draws = 0 /\ scene = Blank
    /\ clicks = {} /\ clicked = Blank /\ onBoard = Blank /\ manual = {}
    /\ asked = [r \in Requests |-> Free]
    /\ newest = [scene |-> Blank, draws |-> 0] /\ crossed = FALSE

CloseWindow ==
    /\ window = "open" /\ window' = "closed"
    /\ UNCHANGED <<scene, draws, clicks, clicked, onBoard, manual, asked, newest, crossed>>

-----------------------------------------------------------------------------
\* RecordClickCandidate

ClickCandidates == {t \in Terms : clicked[t] > 0}

MayBeNewMutantOff == Cardinality(ClickCandidates) <= MaxClickCandidates

MayBeNew == Cardinality(ClickCandidates) < MaxClickCandidates

\* The snapshot of the statement: a word that is a candidate, or a new one
\* below the cap.
ClickBegins(r, s, t) ==
    /\ asked[r] = Free /\ window = "open"
    /\ t \in ClickCandidates \/ MayBeNew
    /\ asked' = [asked EXCEPT ![r] = [at |-> "click", student |-> s, term |-> t]]
    /\ UNCHANGED <<window, scene, draws, clicks, clicked, onBoard, manual, newest, crossed>>

FirstClickMutantAlways(s, t) == TRUE

\* The row of lesson_term_clicks did not conflict.
FirstClick(s, t) == <<s, t>> \notin clicks

ClickEnds(r) ==
    LET s == asked[r].student  t == asked[r].term IN
    /\ asked[r].at = "click"
    /\ clicks' = clicks \cup {<<s, t>>}
    /\ clicked' = IF FirstClick(s, t) THEN [clicked EXCEPT ![t] = @ + 1] ELSE clicked
    /\ asked' = [asked EXCEPT ![r] = Free]
    /\ UNCHANGED <<window, scene, draws, onBoard, manual, newest, crossed>>

-----------------------------------------------------------------------------
\* The whiteboard and the teacher's own words

Draw(t, n) ==
    /\ draws < DrawLimit /\ scene[t] # n
    /\ draws' = draws + 1 /\ scene' = [scene EXCEPT ![t] = n]
    /\ UNCHANGED <<window, clicks, clicked, onBoard, manual, asked, newest, crossed>>

\* CollectWhiteboard: WhiteboardScene, before the words are looked up.
CollectReads(r) ==
    /\ asked[r] = Free
    /\ asked' = [asked EXCEPT ![r] = [at |-> "collect", scene |-> scene, draws |-> draws]]
    /\ crossed' = (crossed \/ \E o \in Requests : asked[o].at = "collect")
    /\ UNCHANGED <<window, scene, draws, clicks, clicked, onBoard, manual, newest>>

CountedMutantSum(t, n) == IF onBoard[t] + n > 2 THEN 2 ELSE onBoard[t] + n

\* The count is that of the scene; a word wiped off the board stays.
Counted(t, n) == IF n > 0 THEN n ELSE onBoard[t]

SaveWhiteboardCandidates(r) ==
    LET q == asked[r] IN
    /\ q.at = "collect"
    /\ onBoard' = [t \in Terms |-> Counted(t, q.scene[t])]
    /\ newest' = IF q.draws >= newest.draws THEN [scene |-> q.scene, draws |-> q.draws] ELSE newest
    /\ asked' = [asked EXCEPT ![r] = Free]
    /\ UNCHANGED <<window, scene, draws, clicks, clicked, manual, crossed>>

AddManualCandidates(t) ==
    /\ t \notin manual /\ manual' = manual \cup {t}
    /\ UNCHANGED <<window, scene, draws, clicks, clicked, onBoard, asked, newest, crossed>>

\* The statement fails; the popup of a click does not notice, the job and the
\* button start over.
Fails(r) ==
    /\ asked[r] # Free /\ asked' = [asked EXCEPT ![r] = Free]
    /\ UNCHANGED <<window, scene, draws, clicks, clicked, onBoard, manual, newest, crossed>>

-----------------------------------------------------------------------------

Word(t) == AddManualCandidates(t) \/ \E n \in 0..2 : Draw(t, n)

Request(r) ==
    \/ \E s \in Students, t \in Terms : ClickBegins(r, s, t)
    \/ ClickEnds(r) \/ CollectReads(r) \/ SaveWhiteboardCandidates(r) \/ Fails(r)

Next ==
    \/ CloseWindow
    \/ \E t \in Terms : Word(t)
    \/ \E r \in Requests : Request(r)

Spec == Init /\ [][Next]_vars

-----------------------------------------------------------------------------

TypeOK ==
    /\ window \in {"open", "closed"} /\ draws \in 0..DrawLimit /\ manual \subseteq Terms
    /\ clicks \subseteq Students \X Terms
    /\ \A t \in Terms : clicked[t] \in 0..Cardinality(Students) /\ onBoard[t] \in 0..2

\* The count of a clicked word is the number of people who clicked it, however
\* often and in how many tabs each of them did.
CountIsClickers ==
    \A t \in Terms : clicked[t] = Cardinality({c \in clicks : c[2] = t})

\* Clicks on new words at once exceed the cap by one each at most, but for one
\* of them.
SoftClickCap == Cardinality(ClickCandidates) < MaxClickCandidates + Cardinality(Requests)

\* However often the board was parsed, the counts are those of the newest scene
\* parsed and not a sum, and a word that was ever counted stays; scenes that
\* are parsed at once may be written in the wrong order.
CountsOneScene ==
    crossed \/ \A t \in Terms : newest.scene[t] # 0 => onBoard[t] = newest.scene[t]
=============================================================================
