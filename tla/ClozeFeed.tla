----------------------------- MODULE ClozeFeed ------------------------------
(***************************************************************************)
(* How the feed of cloze items of one student is filled (clozeItemIDs,     *)
(* clozeFill, newClozeItem of httpapi/cloze.go).  A word takes an item it  *)
(* has not answered, else a new one from the first free sentence of its    *)
(* texts, else an answered one.  A search reads so many texts of a kind    *)
(* and no more, whether they are items already or not.  A word with no     *)
(* sentence left is noted in cloze_misses and not searched for an hour,    *)
(* unless a source has come since.  Feeds of several tabs, new sources,    *)
(* answers and changes of the dictionary interleave with the queries of a  *)
(* feed.  Every sentence here has every word, so that words compete for    *)
(* it.                                                                     *)
(***************************************************************************)
EXTENDS Naturals, FiniteSets

CONSTANTS
    Words,
    Speech,      \* sentences of transcripts, which have no time
    Materials,   \* sentences of lesson materials
    Generated,   \* sentences of the student's generated texts
    Tatoeba,     \* sentences of the imported corpus
    Requests,
    Limit,       \* items of a feed
    LessonTexts, \* texts of transcripts, and of materials, a search reads
    OtherTexts,  \* generated texts, and sentences of the corpus
    LossLimit    \* bound: words and texts removed

\* Assumed of the constants wherever the module is instantiated.
FeedAssumption ==
    /\ IsFiniteSet(Speech \cup Materials \cup Generated \cup Tatoeba)
    /\ Tatoeba \cap (Speech \cup Materials \cup Generated) = {}
    /\ LessonTexts \in Nat /\ OtherTexts \in Nat /\ LossLimit \in Nat

Sentences == Speech \cup Materials \cup Generated \cup Tatoeba

VARIABLES
    dict,      \* user_terms
    texts,     \* sentences there are
    items,     \* cloze_items: word, sentence -> none, new, answered, or no options left
    misses,    \* words with a note in cloze_misses that is not stale
    unfinished, \* sentences of an import that is still running
    feeds,     \* requests
    returned,  \* history: words that came back while a feed was being filled
    cut,       \* history: words whose note is of a search cut short
    losses     \* bound used up

vars == <<dict, texts, items, misses, unfinished, feeds, returned, cut, losses>>

Free == [at |-> "free"]

Init ==
    /\ dict = Words /\ texts = {}
    /\ items = [p \in Words \X Sentences |-> "none"]
    /\ misses = {} /\ unfinished = {} /\ feeds = [r \in Requests |-> Free]
    /\ returned = {} /\ cut = {} /\ losses = 0

Running == {r \in Requests : feeds[r] # Free}

-----------------------------------------------------------------------------
\* What goes on around a feed

\* A source with a time makes the notes before it stale, and those of the feeds
\* that began before it.
Stale ==
    /\ misses' = {} /\ cut' = {}
    /\ feeds' = [r \in Requests |-> IF r \in Running THEN [feeds[r] EXCEPT !.news = TRUE] ELSE feeds[r]]

NewText(s) ==
    /\ s \notin texts \cup Tatoeba /\ texts' = texts \cup {s}
    /\ IF s \in Speech THEN UNCHANGED <<misses, feeds, cut>> ELSE Stale
    /\ UNCHANGED <<dict, items, unfinished, returned, losses>>

\* DeleteMaterial or CancelLesson; the items of a text go with it.
Without(gone) == [p \in DOMAIN items |-> IF p[2] \in gone THEN "none" ELSE items[p]]

DeleteMaterial(s) ==
    /\ s \in Materials \cap texts /\ texts' = texts \ {s} /\ items' = Without({s})
    /\ losses < LossLimit /\ losses' = losses + 1
    /\ UNCHANGED <<dict, misses, unfinished, feeds, returned, cut>>

\* A batch of the corpus: its sentences are seen at once, the time comes with
\* the end of the import.
ImportBatch(s) ==
    /\ s \in Tatoeba \ texts /\ texts' = texts \cup {s}
    /\ unfinished' = unfinished \cup {s}
    /\ UNCHANGED <<dict, items, misses, feeds, returned, cut, losses>>

\* finish deletes the sentences the import has not had.
ImportFinishes(gone) ==
    /\ unfinished # {} /\ unfinished' = {}
    /\ gone \subseteq (texts \cap Tatoeba) \ unfinished
    /\ texts' = texts \ gone /\ items' = Without(gone)
    /\ Stale
    /\ UNCHANGED <<dict, returned, losses>>

\* clozeMissTTL
HourPasses ==
    /\ Running = {} /\ misses # {} /\ misses' = {} /\ cut' = {}
    /\ UNCHANGED <<dict, texts, items, feeds, returned, unfinished, losses>>

Answered(w, s) ==
    /\ items[<<w, s>>] = "new" /\ items' = [items EXCEPT ![<<w, s>>] = "answered"]
    /\ UNCHANGED <<dict, texts, misses, feeds, returned, unfinished, cut, losses>>

\* The cached options of the item are deleted.
OptionsLost(w, s) ==
    /\ items[<<w, s>>] \in {"new", "answered"} /\ items' = [items EXCEPT ![<<w, s>>] = "bare"]
    /\ UNCHANGED <<dict, texts, misses, feeds, returned, unfinished, cut, losses>>

\* DeleteUserTerm, and what goes with the word.
RemoveWord(w) ==
    /\ w \in dict /\ dict' = dict \ {w}
    /\ items' = [p \in DOMAIN items |-> IF p[1] = w THEN "none" ELSE items[p]]
    /\ misses' = misses \ {w} /\ cut' = cut \ {w}
    /\ losses < LossLimit /\ losses' = losses + 1
    /\ UNCHANGED <<texts, feeds, returned, unfinished>>

AddWord(w) ==
    /\ w \notin dict /\ dict' = dict \cup {w}
    /\ returned' = IF Running = {} THEN returned \ {w} ELSE returned \cup {w}
    /\ UNCHANGED <<texts, items, misses, feeds, unfinished, cut, losses>>

-----------------------------------------------------------------------------
\* The feed

\* ClozeTargets: a word with a fresh note is in the queue only for its items.
ClozeTargets == {w \in dict : w \notin misses \/ \E s \in Sentences : items[<<w, s>>] # "none"}

Begins(r) ==
    /\ feeds[r] = Free
    /\ feeds' = [feeds EXCEPT ![r] =
           [at |-> "refs", todo |-> ClozeTargets, checked |-> misses,
            batch |-> {}, missed |-> {}, news |-> FALSE]]
    /\ UNCHANGED <<dict, texts, items, misses, returned, unfinished, cut, losses>>

\* ClozeItemRefs, then ClozeLessonTexts for the words that are searched.
ReadsItems(r) ==
    /\ feeds[r].at = "refs"
    /\ feeds' = [feeds EXCEPT ![r] =
           [at |-> "texts", todo |-> @.todo, checked |-> @.checked, batch |-> {}, missed |-> {}, news |-> @.news,
            own |-> items]]
    /\ UNCHANGED <<dict, texts, items, misses, returned, unfinished, cut, losses>>

ReadsTexts(r) ==
    /\ feeds[r].at = "texts"
    /\ feeds' = [feeds EXCEPT ![r] =
           [at |-> "fill", todo |-> @.todo, checked |-> @.checked, batch |-> {}, missed |-> {}, news |-> @.news,
            own |-> @.own, lesson |-> texts \cap (Speech \cup Materials), short |-> {}]]
    /\ UNCHANGED <<dict, texts, items, misses, returned, unfinished, cut, losses>>

TakenMutantByWord(q) == {p[2] : p \in {b \in q.batch : b[1] \in q.todo}}

Taken(q) == {p[2] : p \in q.batch}

Own(q, w, state) == {s \in Sentences : q.own[<<w, s>>] = state}

Pickable(q, w, state) == Own(q, w, state) \ Taken(q)

\* ORDER BY and LIMIT: the order puts no sentence before another for ever.
Limited(S, n) ==
    IF Cardinality(S) <= n THEN {S} ELSE {R \in SUBSET S : Cardinality(R) = n}

\* What the search for a word may read of the texts with it.
Searched(q) ==
    {speech \cup materials \cup generated \cup corpus :
        speech \in Limited(q.lesson \cap Speech, LessonTexts),
        materials \in Limited(q.lesson \cap Materials, LessonTexts),
        generated \in Limited(texts \cap Generated, OtherTexts),
        corpus \in Limited(texts \cap Tatoeba, OtherTexts)}

Whole(q) == q.lesson \cup (texts \cap (Generated \cup Tatoeba))

\* Sentences found that are not an item of the word yet.
Unused(q, w, found) == {s \in found : q.own[<<w, s>>] = "none"}

\* Lessons come first.
FirstFree(q, w, found) ==
    LET free == Unused(q, w, found) \ Taken(q)  lesson == free \cap q.lesson
    IN  IF lesson # {} THEN lesson ELSE free

IsMissMutantBusy(q, w, found) == TRUE

\* A sentence that another word of the feed has taken is no miss.
IsMiss(q, w, found) == Unused(q, w, found) \cap Taken(q) = {}

\* The words go in the order of the queue, which is any order here.
Turn(r, w) == feeds[r].at = "fill" /\ w \in feeds[r].todo /\ Cardinality(feeds[r].batch) < Limit

Gives(r, w, S, missed, short) ==
    LET q == [feeds[r] EXCEPT !.todo = @ \ {w}, !.missed = @ \cup missed, !.short = @ \cup short] IN
    IF S = {} THEN feeds' = [feeds EXCEPT ![r] = q]
    ELSE \E s \in S : feeds' = [feeds EXCEPT ![r] = [q EXCEPT !.batch = @ \cup {<<w, s>>}]]

GivesUnanswered(r, w) ==
    /\ Turn(r, w) /\ Own(feeds[r], w, "new") # {}
    /\ Gives(r, w, Pickable(feeds[r], w, "new"), {}, {})
    /\ UNCHANGED <<dict, texts, items, misses, returned, unfinished, cut, losses>>

\* CreateClozeItem; an item another feed has created is taken over.
GivesNew(r, w) ==
    LET q == feeds[r] IN
    /\ Turn(r, w) /\ Own(q, w, "new") = {} /\ w \notin q.checked /\ w \in dict
    /\ \E found \in Searched(q) : \E s \in FirstFree(q, w, found) \cap texts :
           /\ items' = [items EXCEPT ![<<w, s>>] = IF @ = "none" THEN "new" ELSE @]
           /\ Gives(r, w, {s}, {}, {})
    /\ UNCHANGED <<dict, texts, misses, returned, unfinished, cut, losses>>

\* Nothing new: the word has been searched lately, or has no free sentence.
GivesAnswered(r, w) ==
    LET q == feeds[r]
        searched == w \notin q.checked
    IN
    /\ Turn(r, w) /\ Own(q, w, "new") = {}
    /\ \E found \in Searched(q) :
           LET missed == {v \in {w} : searched /\ IsMiss(q, w, found)} IN
           /\ searched => FirstFree(q, w, found) = {}
           /\ Gives(r, w, Pickable(q, w, "answered"), missed, {v \in missed : found # Whole(q)})
    /\ UNCHANGED <<dict, texts, items, misses, returned, unfinished, cut, losses>>

\* CreateClozeItem finds the word gone, or takes it for gone when the text is:
\* the search ends there.  It is no miss only if it met a sentence taken.
FindsGone(r, w) ==
    LET q == feeds[r] IN
    /\ Turn(r, w) /\ Own(q, w, "new") = {} /\ w \notin q.checked
    /\ \E found \in Searched(q), missed \in SUBSET {w} :
           /\ FirstFree(q, w, found) # {}
           /\ w \notin dict \/ ~(FirstFree(q, w, found) \subseteq texts)
           /\ IsMiss(q, w, found) => missed = {w}
           /\ Gives(r, w, Pickable(q, w, "answered"), missed, missed)
    /\ UNCHANGED <<dict, texts, items, misses, returned, unfinished, cut, losses>>

NotedMutantNow(q) == q.missed \cap dict

\* The notes have the time at which the feed began, and are of words that are
\* still there.
Noted(q) == IF q.news THEN {} ELSE q.missed \cap dict

\* RecordClozeMisses
Ends(r) ==
    LET q == feeds[r] IN
    /\ q.at = "fill" /\ (q.todo = {} \/ Cardinality(q.batch) = Limit)
    /\ misses' = (misses \ q.missed) \cup Noted(q)
    /\ cut' = (cut \ q.missed) \cup (q.short \cap Noted(q))
    /\ feeds' = [feeds EXCEPT ![r] = Free]
    /\ UNCHANGED <<dict, texts, items, returned, unfinished, losses>>

Fails(r) ==
    /\ r \in Running /\ feeds' = [feeds EXCEPT ![r] = Free]
    /\ UNCHANGED <<dict, texts, items, misses, returned, unfinished, cut, losses>>

-----------------------------------------------------------------------------

Word(w) ==
    \/ RemoveWord(w) \/ AddWord(w)
    \/ \E s \in Sentences : Answered(w, s) \/ OptionsLost(w, s)
    \/ \E r \in Requests : GivesUnanswered(r, w) \/ GivesNew(r, w) \/ GivesAnswered(r, w)
                            \/ FindsGone(r, w)

Request(r) == Begins(r) \/ ReadsItems(r) \/ ReadsTexts(r) \/ Ends(r) \/ Fails(r)

Next ==
    \/ \E s \in Sentences : NewText(s) \/ DeleteMaterial(s) \/ ImportBatch(s)
    \/ \E gone \in SUBSET Tatoeba : ImportFinishes(gone)
    \/ HourPasses
    \/ \E w \in Words : Word(w)
    \/ \E r \in Requests : Request(r)

Spec == Init /\ [][Next]_vars

-----------------------------------------------------------------------------

TypeOK ==
    /\ dict \subseteq Words /\ texts \subseteq Sentences /\ returned \cup misses \subseteq Words
    /\ cut \subseteq misses /\ losses \in 0..LossLimit
    /\ unfinished \subseteq texts \cap Tatoeba
    /\ \A p \in DOMAIN items : items[p] \in {"none", "new", "answered", "bare"}

\* A feed has no sentence twice, since the answer to one item shows the
\* sentence of the other.
SentenceOnce ==
    \A r \in Running : Cardinality(Taken(feeds[r])) = Cardinality(feeds[r].batch)

\* Words whose note says that all their texts are items.
Exhausted == misses \ (returned \cup cut)

\* Sentences of sources with a time.
Lasting == texts \ (Speech \cup unfinished)

\* A word is not searched again only as long as every sentence of a source
\* with a time is an item of it, whatever came while a feed was looking.
\* Excused: a search that left texts unread, since it read its limit of a kind
\* with items of the word among them or met a text just deleted; the sentences
\* of an import that has not finished; and a word that was removed and added
\* meanwhile, which may wait for the hour.
NothingHidden ==
    \A w \in Words : w \in Exhausted => \A s \in Lasting : items[<<w, s>>] # "none"
=============================================================================
