-------------------------- MODULE LessonDictionary --------------------------
(***************************************************************************)
(* The confirmed words of one lesson and their assignment to the           *)
(* dictionaries of its students (SetLessonTerms, AssignLessonTerms of      *)
(* store/lesson_terms.go).  A new list is a transaction of a DELETE and an *)
(* INSERT, which see what others have committed and wait for the rows      *)
(* others have touched.  An assignment reads the list once and is a        *)
(* transaction per student and word, so it stops where it fails.           *)
(* Candidates are never removed: here they only grow (LessonCandidates).   *)
(***************************************************************************)
EXTENDS Naturals

CONSTANTS
    Terms, Students,
    Requests       \* lists and assignments under way

VARIABLES
    candidates,  \* words of lesson_term_candidates
    confirmed,   \* lesson_terms
    dict,        \* user_terms of each student: status, 0 for none, and source lesson
    asked,       \* requests
    list,        \* history: the list last saved
    mixed,       \* history: two lists were being saved at once
    removed      \* history: words students removed while words were assigned

vars == <<candidates, confirmed, dict, asked, list, mixed, removed>>

Free == [at |-> "free"]

NoWord == [status |-> 0, source |-> "none"]

Init ==
    /\ candidates \in SUBSET Terms /\ confirmed = {}
    /\ dict = [s \in Students |-> [t \in Terms |-> NoWord]]
    /\ asked = [r \in Requests |-> Free]
    /\ list = {} /\ mixed = FALSE /\ removed = {}

At(at) == {r \in Requests : asked[r].at \in at}

NewCandidate(t) ==
    /\ t \notin candidates /\ candidates' = candidates \cup {t}
    /\ UNCHANGED <<confirmed, dict, asked, list, mixed, removed>>

-----------------------------------------------------------------------------
\* SetLessonTerms

Saving == {"deleting", "inserting", "committing"}

\* Words other transactions have deleted or inserted and not yet committed.
Touched(r) == UNION {asked[o].gone \cup asked[o].new : o \in At(Saving) \ {r}}

\* A word that is no candidate refuses the whole list.
SetBegins(r, ts) ==
    /\ asked[r] = Free /\ ts \subseteq candidates
    /\ asked' = [asked EXCEPT ![r] = [at |-> "deleting", terms |-> ts, gone |-> {}, new |-> {}]]
    /\ mixed' = (mixed \/ At(Saving) # {})
    /\ UNCHANGED <<candidates, confirmed, dict, list, removed>>

DroppedMutantNone(ts) == {}

Dropped(ts) == confirmed \ ts

SetDeletes(r) ==
    LET gone == Dropped(asked[r].terms) IN
    /\ asked[r].at = "deleting" /\ gone \cap Touched(r) = {}
    /\ asked' = [asked EXCEPT ![r].gone = gone, ![r].at = "inserting"]
    /\ UNCHANGED <<candidates, confirmed, dict, list, mixed, removed>>

SetInserts(r) ==
    LET ts == asked[r].terms IN
    /\ asked[r].at = "inserting" /\ ts \cap Touched(r) = {}
    /\ asked' = [asked EXCEPT ![r].new = ts \ confirmed, ![r].at = "committing"]
    /\ UNCHANGED <<candidates, confirmed, dict, list, mixed, removed>>

SetCommits(r) ==
    /\ asked[r].at = "committing"
    /\ confirmed' = (confirmed \ asked[r].gone) \cup asked[r].new
    /\ list' = asked[r].terms /\ asked' = [asked EXCEPT ![r] = Free]
    /\ UNCHANGED <<candidates, dict, mixed, removed>>

-----------------------------------------------------------------------------
\* The dictionaries

SavedMutantResets(w, status, source) ==
    [status |-> IF status = 0 THEN 1 ELSE status, source |-> IF w.source = "none" THEN source ELSE w.source]

\* SaveUserTerm: status 0 is none given, source "none" no lesson.
Saved(w, status, source) ==
    [status |-> IF status # 0 THEN status ELSE IF w.status = 0 THEN 1 ELSE w.status,
     source |-> IF w.source = "none" THEN source ELSE w.source]

\* The student adds a word, off the lessons or in another one, or learns it.
StudentSaves(s, t, status, source) ==
    /\ dict[s][t] # Saved(dict[s][t], status, source)
    /\ dict' = [dict EXCEPT ![s][t] = Saved(@, status, source)]
    /\ UNCHANGED <<candidates, confirmed, asked, list, mixed, removed>>

StudentRemoves(s, t) ==
    /\ dict[s][t].status # 0 /\ dict' = [dict EXCEPT ![s][t] = NoWord]
    /\ removed' = IF At({"assign"}) = {} THEN removed ELSE removed \cup {<<s, t>>}
    /\ asked' = [r \in Requests |-> IF asked[r].at = "assigned" THEN Free ELSE asked[r]]
    /\ UNCHANGED <<candidates, confirmed, list, mixed>>

\* handleAssignLessonTerms: the students are picked and the list is read
\* once; an empty list is refused.
AssignBegins(r, ss) ==
    /\ asked[r] = Free /\ ss # {} /\ confirmed # {}
    /\ asked' = [asked EXCEPT ![r] =
           [at |-> "assign", students |-> ss, terms |-> confirmed, left |-> ss \X confirmed]]
    /\ removed' = IF At({"assign", "assigned"}) = {} THEN {} ELSE removed
    /\ UNCHANGED <<candidates, confirmed, dict, list, mixed>>

RestMutantSkips(left, p) == {q \in left : q[1] # p[1]}

Rest(left, p) == left \ {p}

\* The order of the students and of the words does not matter here.
AssignOne(r, s, t) ==
    LET rest == Rest(asked[r].left, <<s, t>>) IN
    /\ asked[r].at = "assign" /\ <<s, t>> \in asked[r].left
    /\ dict' = [dict EXCEPT ![s][t] = Saved(@, 0, "this")]
    /\ asked' = [asked EXCEPT ![r].left = rest, ![r].at = IF rest = {} THEN "assigned" ELSE "assign"]
    /\ UNCHANGED <<candidates, confirmed, list, mixed, removed>>

\* An answer is read, or a request fails where it stands: a transaction is
\* rolled back, words assigned before stay.
Ends(r) ==
    /\ asked[r] # Free /\ asked' = [asked EXCEPT ![r] = Free]
    /\ UNCHANGED <<candidates, confirmed, dict, list, mixed, removed>>

-----------------------------------------------------------------------------

Word(t) ==
    \/ NewCandidate(t)
    \/ \E s \in Students :
           \/ \E status \in {0, 5}, source \in {"none", "other"} : StudentSaves(s, t, status, source)
           \/ StudentRemoves(s, t)

Request(r) ==
    \/ \E ts \in SUBSET Terms : SetBegins(r, ts)
    \/ \E ss \in SUBSET Students : AssignBegins(r, ss)
    \/ \E s \in Students, t \in Terms : AssignOne(r, s, t)
    \/ SetDeletes(r) \/ SetInserts(r) \/ SetCommits(r) \/ Ends(r)

Next ==
    \/ \E t \in Terms : Word(t)
    \/ \E r \in Requests : Request(r)

Spec == Init /\ [][Next]_vars

-----------------------------------------------------------------------------

TypeOK ==
    /\ confirmed \subseteq candidates /\ candidates \subseteq Terms
    /\ \A s \in Students, t \in Terms :
           dict[s][t].status \in {0, 1, 5} /\ dict[s][t].source \in {"none", "this", "other"}

\* The words of the lesson are one list the teacher sent, and all of it: only
\* lists that are saved at once may be mixed.
OneWholeList == mixed \/ confirmed = list

\* Assigning the words of a lesson takes nothing a student has learned away,
\* and the lesson a word came from stays the first one.
AssignKeeps ==
    [][\A s \in Students, t \in Terms :
           /\ dict[s][t].status = 5 => dict'[s][t].status \in {0, 5}
           /\ dict[s][t].source # "none" => dict'[s][t] = NoWord \/ dict'[s][t].source = dict[s][t].source]_vars

\* An assignment that was answered has reached every student and every word it
\* read, whatever failed before and whatever was confirmed meanwhile.
AssignedToAll ==
    \A r \in At({"assigned"}) : \A s \in asked[r].students, t \in asked[r].terms :
        dict[s][t].status # 0 \/ <<s, t>> \in removed
=============================================================================
