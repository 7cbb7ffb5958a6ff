---------------------------- MODULE ClozeOptions ----------------------------
(***************************************************************************)
(* The answer options of cloze items (httpapi/cloze.go, store/cloze.go).   *)
(* An item is pinned to one set of options when it is first shown: the     *)
(* dictionary's or the one of the LLM, whose answer is cached per sentence *)
(* and shared by all students.  The feed (GET) pins what it can show at    *)
(* once, a second request (POST) asks the LLM.  Both read the items,       *)
(* decide on what they read, pin in the database and read again.  A cached *)
(* set is removed by hand, with the items pinned to it.                    *)
(***************************************************************************)
EXTENDS Naturals, FiniteSets

CONSTANTS
    Users, Sentences,
    Requests,
    DailyLimit,    \* of calls to the LLM
    CallLimit,     \* bound: answers of the LLM
    RemovalLimit   \* bound: removals by hand

\* Assumed of the constants wherever the module is instantiated.
OptionsAssumption ==
    IsFiniteSet(Requests) /\ DailyLimit \in Nat /\ CallLimit \in Nat

Items == Users \X Sentences

VARIABLES
    configured,  \* the LLM has a key
    shaped,      \* sentences whose answer looks like an option of the LLM
    exists,      \* cloze_items
    pinned,      \* option_source
    cache,       \* cloze_distractors: 0 for none, or the answer it came from
    used,        \* llm_usage
    calls,       \* answers of the LLM so far
    asked,       \* requests
    removal,     \* the operator's transaction
    removals,
    shown,       \* history: the sets each item was shown with
    stranded,    \* history: items whose cached set was removed under them
    bare         \* history: a POST showed the answer alone

vars == <<configured, shaped, exists, pinned, cache, used, calls, asked, removal, removals, shown, stranded, bare>>

Free == [at |-> "free"]

Init ==
    /\ configured \in BOOLEAN /\ shaped \in SUBSET Sentences
    /\ exists = Items /\ pinned = [i \in Items |-> "none"]
    /\ cache = [c \in Sentences |-> 0] /\ used = [u \in Users |-> 0] /\ calls = 0
    /\ asked = [r \in Requests |-> Free] /\ removal = Free /\ removals = 0
    /\ shown = [i \in Items |-> {}] /\ stranded = {} /\ bare = FALSE

\* CreateClozeItem: the sentence of a removed item becomes an item again.
CreateClozeItem(i) ==
    /\ i \notin exists /\ exists' = exists \cup {i}
    /\ UNCHANGED <<configured, shaped, pinned, cache, used, calls, asked, removal, removals, shown, stranded, bare>>

-----------------------------------------------------------------------------
\* Reading and showing

noClozeOptions(i) == pinned[i] = "llm" /\ cache[i[2]] = 0

\* clozeOptions: the answer alone is 0, as there is no such set.
Options(i) == IF pinned[i] = "llm" THEN cache[i[2]] ELSE CallLimit + 1

\* Items without a pin are pending and show no options.
Show(is) ==
    shown' = [i \in Items |-> IF i \in is /\ pinned[i] # "none" THEN shown[i] \cup {Options(i)} ELSE shown[i]]

Unpinned(is) == {i \in is : pinned[i] = "none"}

Odd(is) == {i \in Unpinned(is) : i[2] \notin shaped}

Cached(is) == {i \in Unpinned(is) \ Odd(is) : cache[i[2]] # 0}

Unknown(is) == Unpinned(is) \ (Odd(is) \cup Cached(is))

\* What follows the reading: nothing to pin, a call of the LLM, or the pins.
Proceed(r, u, kind, is, list, need) ==
    IF need # {}
    THEN asked' = [asked EXCEPT ![r] = [at |-> "reserve", kind |-> kind, user |-> u, items |-> is,
                                        list |-> list, cached |-> Cached(is), need |-> need]] /\ shown' = shown
    ELSE IF list \cup Cached(is) = {} THEN Show(is) /\ asked' = asked
    ELSE asked' = [asked EXCEPT ![r] = [at |-> "pinLLM", kind |-> kind, user |-> u, items |-> is,
                                        list |-> list, cached |-> Cached(is)]] /\ shown' = shown

\* handlePracticeCloze: the first item is on the screen at once and does not
\* wait for the LLM; nothing does without a key.
Feed(r, u, is, first) ==
    LET atOnce == IF configured THEN Unknown(is) \cap {first} ELSE Unknown(is) IN
    /\ asked[r] = Free /\ first \in is /\ is \subseteq exists /\ is \subseteq {u} \X Sentences
    /\ \A i \in is : ~noClozeOptions(i)
    /\ Proceed(r, u, "GET", is, Odd(is) \cup atOnce, {})
    /\ UNCHANGED <<configured, shaped, exists, pinned, cache, used, calls, removal, removals, stranded, bare>>

\* handleClozeDistractors: an item that is gone or has no options refuses the
\* whole request before anything is paid for.
Distractors(r, u, is) ==
    /\ configured /\ asked[r] = Free
    /\ is # {} /\ is \subseteq exists /\ is \subseteq {u} \X Sentences
    /\ \A i \in is : ~noClozeOptions(i)
    /\ Proceed(r, u, "POST", is, Odd(is), Unknown(is))
    /\ UNCHANGED <<configured, shaped, exists, pinned, cache, used, calls, removal, removals, stranded, bare>>

-----------------------------------------------------------------------------
\* The call of the LLM

MayReserveMutantLate(u) == used[u] <= DailyLimit

MayReserve(u) == used[u] < DailyLimit

\* ReserveLLMRequest; without a place the items get the dictionary's options.
Reserve(r) ==
    LET q == asked[r] IN
    /\ q.at = "reserve"
    /\ IF MayReserve(q.user)
       THEN used' = [used EXCEPT ![q.user] = @ + 1] /\ asked' = [asked EXCEPT ![r].at = "call"]
       ELSE /\ used' = used
            /\ asked' = [asked EXCEPT ![r] = [at |-> "pinLLM", kind |-> q.kind, user |-> q.user, items |-> q.items,
                                              list |-> q.list \cup q.need, cached |-> q.cached]]
    /\ UNCHANGED <<configured, shaped, exists, pinned, cache, calls, removal, removals, shown, stranded, bare>>

\* Generate, ParseDistractors: options for some of the items, for none when the
\* call or its answer is no good.
Answer(r, got) ==
    LET q == asked[r] IN
    /\ q.at = "call" /\ got \subseteq q.need /\ calls < CallLimit
    /\ calls' = calls + 1
    /\ asked' = [asked EXCEPT ![r] =
           [at |-> IF got = {} THEN "pinLLM" ELSE "save", kind |-> q.kind, user |-> q.user, items |-> q.items,
            list |-> q.list \cup (q.need \ got), cached |-> q.cached \cup got, answer |-> calls + 1, unsaved |-> got]]
    /\ UNCHANGED <<configured, shaped, exists, pinned, cache, used, removal, removals, shown, stranded, bare>>

\* SaveClozeDistractors, item by item; the first set stays.
Save(r, i) ==
    LET q == asked[r]  left == q.unsaved \ {i} IN
    /\ q.at = "save" /\ i \in q.unsaved
    /\ cache' = [cache EXCEPT ![i[2]] = IF @ = 0 THEN q.answer ELSE @]
    /\ asked' = [asked EXCEPT ![r].unsaved = left, ![r].at = IF left = {} THEN "pinLLM" ELSE "save"]
    /\ UNCHANGED <<configured, shaped, exists, pinned, used, calls, removal, removals, shown, stranded, bare>>

-----------------------------------------------------------------------------
\* LockClozeOptions and the second reading

StillFreeMutantAlways(i) == i \in exists

StillFree(i) == i \in exists /\ pinned[i] = "none"

PinLLM(r) ==
    LET q == asked[r] IN
    /\ q.at = "pinLLM"
    /\ pinned' = [i \in Items |-> IF i \in q.cached /\ StillFree(i) /\ cache[i[2]] # 0 THEN "llm" ELSE pinned[i]]
    /\ asked' = [asked EXCEPT ![r].at = "pinList"]
    /\ UNCHANGED <<configured, shaped, exists, cache, used, calls, removal, removals, shown, stranded, bare>>

PinList(r) ==
    LET q == asked[r] IN
    /\ q.at = "pinList"
    /\ pinned' = [i \in Items |-> IF i \in q.list /\ StillFree(i) THEN "list" ELSE pinned[i]]
    /\ asked' = [asked EXCEPT ![r].at = "show"]
    /\ UNCHANGED <<configured, shaped, exists, cache, used, calls, removal, removals, shown, stranded, bare>>

RefusesMutantNever(is) == FALSE

\* Only the POST looks again for items without options.
Refuses(is) == \E i \in is : noClozeOptions(i)

Reread(r) ==
    LET q == asked[r]  is == q.items \cap exists IN
    /\ q.at = "show" /\ asked' = [asked EXCEPT ![r] = Free]
    /\ IF q.kind = "POST" /\ Refuses(is) THEN UNCHANGED <<shown, bare>>
       ELSE Show(is) /\ bare' = (bare \/ (q.kind = "POST" /\ \E i \in is : noClozeOptions(i)))
    /\ UNCHANGED <<configured, shaped, exists, pinned, cache, used, calls, removal, removals, stranded>>

\* The database fails, or the client leaves before the call ends.
Fails(r) ==
    /\ asked[r] # Free /\ asked' = [asked EXCEPT ![r] = Free]
    /\ UNCHANGED <<configured, shaped, exists, pinned, cache, used, calls, removal, removals, shown, stranded, bare>>

-----------------------------------------------------------------------------
\* A cached set is removed by hand: the pinned items are deleted, or forgotten,
\* and then the set, in one transaction.

RemoveBegins(c, whole) ==
    /\ removal = Free /\ removals < RemovalLimit /\ cache[c] # 0
    /\ removal' = [at |-> "deleting", sentence |-> c,
                   items |-> {i \in exists : whole /\ i[2] = c /\ pinned[i] = "llm"}]
    /\ removals' = removals + 1
    /\ UNCHANGED <<configured, shaped, exists, pinned, cache, used, calls, asked, shown, stranded, bare>>

RemoveCommits ==
    LET c == removal.sentence  gone == removal.items IN
    /\ removal # Free /\ removal' = Free
    /\ cache' = [cache EXCEPT ![c] = 0]
    /\ exists' = exists \ gone
    /\ pinned' = [i \in Items |-> IF i \in gone THEN "none" ELSE pinned[i]]
    /\ shown' = [i \in Items |-> IF i \in gone THEN {} ELSE shown[i]]
    /\ stranded' = (stranded \ gone) \cup {i \in exists \ gone : i[2] = c /\ pinned[i] = "llm"}
    /\ UNCHANGED <<configured, shaped, used, calls, asked, removals, bare>>

-----------------------------------------------------------------------------

Request(r) ==
    \/ \E u \in Users : \E is \in SUBSET ({u} \X Sentences) :
           \/ \E first \in is : Feed(r, u, is, first)
           \/ Distractors(r, u, is)
    \/ Reserve(r) \/ PinLLM(r) \/ PinList(r) \/ Reread(r) \/ Fails(r)
    \/ \E got \in SUBSET Items : Answer(r, got)
    \/ \E i \in Items : Save(r, i)

Operator ==
    \/ \E c \in Sentences, whole \in BOOLEAN : RemoveBegins(c, whole)
    \/ RemoveCommits

Next ==
    \/ \E i \in Items : CreateClozeItem(i)
    \/ \E r \in Requests : Request(r)
    \/ Operator

Spec == Init /\ [][Next]_vars

-----------------------------------------------------------------------------

TypeOK ==
    /\ exists \subseteq Items /\ stranded \subseteq Items
    /\ \A i \in Items : pinned[i] \in {"none", "list", "llm"} /\ shown[i] \subseteq 0..(CallLimit + 1)
    /\ \A c \in Sentences : cache[c] \in 0..CallLimit

\* An item is shown with one set of options for as long as it lives, whichever
\* requests run at once, since two sets have only the answer in common.
OneSet == \A i \in Items : i \in stranded \/ Cardinality(shown[i]) <= 1

\* The request for options never shows the answer as the only one.
NoBareAnswer == ~bare

\* Every call under way and every call made has a place of the day.
WithinLimit ==
    \A u \in Users :
        /\ used[u] <= DailyLimit
        /\ Cardinality({r \in Requests : asked[r].at \in {"call", "save"} /\ asked[r].user = u}) <= used[u]
=============================================================================
