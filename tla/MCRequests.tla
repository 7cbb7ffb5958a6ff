------------------------------ MODULE MCRequests ------------------------------
(***************************************************************************)
(* The scenes, sentences and requests TLC checks Requests on.              *)
(***************************************************************************)
EXTENDS Requests, TLC

CONSTANTS
    p1, p2,                    \* requests under way, or workers
    x1, x2,                    \* words or people
    y1, y2, y3,                \* words
    only,                      \* the only one of its kind
    key1,                      \* a client's key
    c1, c2, c3, bad,           \* contents of files, sentences
    owner, colleague, invitee,  \* users
    g1, g2, g3,                \* guests
    a, b                       \* lemmas

Symmetry == Permutations({p1, p2}) \cup Permutations({x1, x2})

\* Two elements drawn, changed at once and deleted, and a third.
Drawn ==
    LET Element(id, version, nonce, deleted, updated) ==
            [id |-> id, version |-> version, nonce |-> nonce, index |-> id,
             deleted |-> deleted, updated |-> updated]
    IN  {Element(1, 1, 2, FALSE, 1), Element(1, 1, 1, FALSE, 1), Element(1, 2, 2, TRUE, 2),
         Element(2, 1, 1, FALSE, 1), Element(3, 1, 1, FALSE, 2)}

\* What a participant sends: one element, or the first two.
Incoming == {<<e>> : e \in Drawn} \cup {s \in Drawn \X Drawn : s[1].id = 1 /\ s[2].id = 2}

\* Two sentences of one length, where the id decides.  The next export has the
\* first one longer.
Imported ==
    LET Sentence(id, ord, lemmas) == [src |-> 1, id |-> id, ord |-> ord, lemmas |-> lemmas] IN
    {{Sentence(1, 20, {a}), Sentence(2, 20, {a, b})},
     {Sentence(1, 30, {a}), Sentence(2, 20, {a, b})}}

\* What a request of somebody logged in asks for; only a change of the role
\* names one.
Asking ==
    {<<op, "student">> : op \in {"own", "reset", "archive", "return"}}
        \cup {<<"role", "student">>, <<"role", "admin">>}

\* A review that went well; attempts that went both ways.
Rating == {<<"review", "good">>, <<"attempt", "good">>, <<"attempt", "again">>}

\* The student knows a word of the lesson already.
Saving == {<<5, "other">>}
=============================================================================
