--------------------------- MODULE PracticeTexts ---------------------------
(* Text practice of one user: texts a model writes around words of the      *)
(* user's dictionary (httpapi/practice.go, textgen/generate.go) and the     *)
(* search that pages through these texts and the Tatoeba sentences          *)
(* (store/practice.go SearchPracticeTexts).                                 *)
EXTENDS Integers, FiniteSets

CONSTANTS
    Words,        \* lemmas of the user's dictionary
    Corpora,      \* Tatoeba sentences as imports leave them: [src, id, ord, lemmas]
    Requests,     \* generations under way
    DailyLimit,   \* generations a user may ask for in a day
    PageSize,     \* texts of a page
    CandidateLimit, \* sentences a search takes for a word
    LearnLimit    \* bound: changes of the dictionary and imports

MaxAttempts == 2   \* textgen: a draft and one retry

Text == [src : Int, id : Int, ord : Int, lemmas : SUBSET Words]

\* Assumed of the constants wherever the module is instantiated.
PracticeAssumption ==
    /\ IsFiniteSet(Words) /\ IsFiniteSet(Requests)
    /\ \A c \in Corpora : c \subseteq Text /\ IsFiniteSet(c) /\ \A s \in c : s.src = 1
    /\ DailyLimit \in Nat /\ LearnLimit \in Nat /\ CandidateLimit \in Nat

VARIABLES
    learning,  \* words of the dictionary not learned yet (PracticeLemmas)
    corpus,    \* tatoeba_sentences that have a translation
    changes,   \* changes of the dictionary and imports so far
    texts,     \* generated_texts
    used,      \* places of the day taken
    calls,     \* calls of the model so far
    request,   \* what each generation has done
    reader     \* the pages read: words, cursor, texts shown, once or twice, and
               \* those there at the first that each page was sure to read

vars == <<learning, corpus, changes, texts, used, calls, request, reader>>

Idle == [step |-> "idle"]
Away == [step |-> "away"]
Start == <<>>      \* no cursor

Init ==
    /\ learning \in SUBSET Words /\ corpus \in Corpora /\ changes = 0
    /\ texts = {} /\ used = 0 /\ calls = 0
    /\ request = [r \in Requests |-> Idle]
    /\ reader = Away

(* A review, a click or an edit: a word joins or leaves the unlearned ones. *)
Learn(w) ==
    /\ changes < LearnLimit /\ changes' = changes + 1
    /\ learning' = IF w \in learning THEN learning \ {w} ELSE learning \cup {w}
    /\ UNCHANGED <<corpus, texts, used, calls, request, reader>>

(* A batch of an import, or its end, changes the sentences there are.       *)
Import ==
    /\ changes < LearnLimit /\ changes' = changes + 1
    /\ corpus' \in Corpora
    /\ UNCHANGED <<learning, texts, used, calls, request, reader>>

-----------------------------------------------------------------------------
(* handleGenerateText: the words are given or taken from the dictionary; a  *)
(* place of the daily limit is taken before the model is called and never   *)
(* returned.                                                                *)

Reserve(r, words) ==
    /\ request[r] = Idle /\ words # {} /\ used < DailyLimit
    /\ used' = used + 1
    /\ request' = [request EXCEPT ![r] = [step |-> "call", words |-> words, attempt |-> 1]]
    /\ UNCHANGED <<learning, corpus, changes, texts, calls, reader>>

Called(r, then) ==
    /\ request[r].step = "call"
    /\ calls' = calls + 1
    /\ request' = [request EXCEPT ![r] = then]
    /\ UNCHANGED <<learning, corpus, changes, texts, used, reader>>

Passes(r) == Called(r, [step |-> "passed", words |-> request[r].words])

(* Below the threshold: one retry, then CoverageError. *)
Misses(r) ==
    LET n == request[r].attempt IN
    Called(r, IF n < MaxAttempts THEN [request[r] EXCEPT !.attempt = n + 1] ELSE Idle)

(* An error of the provider, the budget is over or the user has left. *)
Fails(r) == Called(r, Idle)

NewText(words) ==
    LET id == Cardinality(texts) + 1 IN [src |-> 0, id |-> id, ord |-> -id, lemmas |-> words]

(* A paid text is stored even if the user has left. *)
Save(r) ==
    /\ request[r].step = "passed"
    /\ texts' = texts \cup {NewText(request[r].words)}
    /\ request' = [request EXCEPT ![r] = Idle]
    /\ UNCHANGED <<learning, corpus, changes, used, calls, reader>>

-----------------------------------------------------------------------------
(* SearchPracticeTexts: the texts with a word of the search, by the number  *)
(* of its words in the text, own texts before sentences, then by order and  *)
(* id; a page begins after the key of the last text shown.                  *)

Key(t, words) == <<-Cardinality(t.lemmas \cap words), t.src, t.ord, t.id>>

Before(a, b) ==
    \E i \in 1..4 : a[i] < b[i] /\ \A j \in 1..i - 1 : a[j] = b[j]

WithWord(w) == {s \in corpus : w \in s.lemmas}

(* LIMIT without ORDER BY: any so many of them, and others on the next page. *)
Limited(S, n) ==
    IF Cardinality(S) <= n THEN {S} ELSE {R \in SUBSET S : Cardinality(R) = n}

Candidates(words) ==
    {UNION {pick[w] : w \in words} :
        pick \in {p \in [words -> SUBSET corpus] :
                     \A w \in words : p[w] \in Limited(WithWord(w), CandidateLimit)}}

Found(words, after, candidates) ==
    {t \in texts \cup candidates : /\ t.lemmas \cap words # {}
                                   /\ after = Start \/ Before(after, Key(t, words))}

(* What every search reads: own texts, and sentences with a word of the     *)
(* search that is in no more sentences than a search takes.                 *)
ReadForSure(words) ==
    texts \cup {s \in corpus : \E w \in words \cap s.lemmas :
                                  Cardinality(WithWord(w)) <= CandidateLimit}

(* ORDER BY and LIMIT: so many rows, and none left out comes before one.    *)
Pages(found, words) ==
    {page \in SUBSET found :
        /\ Cardinality(page) = PageSize
        /\ \A t \in page, o \in found \ page : Before(Key(t, words), Key(o, words))}

(* The row beyond the page, which only tells that there is a next page.     *)
LastMutantBeyond(page, found, words) ==
    {t \in found \ page : \A o \in found \ page : ~Before(Key(o, words), Key(t, words))}

Last(page, found, words) ==
    {t \in page : \A o \in page : ~Before(Key(t, words), Key(o, words))}

(* One row more than a page is asked for: without it there is no cursor.    *)
Read(old, words) ==
    LET Shown(step, page, cursor) ==
            [step |-> step, given |-> old.given, words |-> words, cursor |-> cursor,
             shown |-> old.shown \cup page, twice |-> old.twice \/ page \cap old.shown # {},
             had |-> old.had \cap ReadForSure(words), steady |-> old.steady /\ words = old.words]
    IN  /\ \E candidates \in Candidates(words) :
               LET found == Found(words, old.cursor, candidates) IN
               IF Cardinality(found) <= PageSize
               THEN reader' = Shown("done", found, Start)
               ELSE \E page \in Pages(found, words) : \E last \in Last(page, found, words) :
                        reader' = Shown("next", page, Key(last, words))
        /\ UNCHANGED <<learning, corpus, changes, texts, used, calls, request>>

(* A search without words of its own takes those of the dictionary, and     *)
(* takes them again for every page; if there are none, the page is empty.   *)
WordsOf(given) == IF given = {} THEN learning ELSE given

FirstPage(given) ==
    /\ reader = Away
    /\ Read([given |-> given, words |-> WordsOf(given), cursor |-> Start, shown |-> {},
             twice |-> FALSE, had |-> texts \cup corpus, steady |-> TRUE],
            WordsOf(given))

NextPage == reader.step = "next" /\ Read(reader, WordsOf(reader.given))

Leave ==
    /\ reader # Away /\ reader' = Away
    /\ UNCHANGED <<learning, corpus, changes, texts, used, calls, request>>

Next ==
    \/ \E w \in Words : Learn(w)
    \/ Import
    \/ \E r \in Requests :
          \/ \E words \in {learning} \cup {{w} : w \in Words} : Reserve(r, words)
          \/ Passes(r) \/ Misses(r) \/ Fails(r) \/ Save(r)
    \/ \E given \in SUBSET Words : FirstPage(given)
    \/ NextPage \/ Leave

Spec == Init /\ [][Next]_vars

-----------------------------------------------------------------------------
TypeOK ==
    /\ learning \subseteq Words /\ corpus \in Corpora /\ changes \in 0..LearnLimit
    /\ used \in 0..DailyLimit /\ calls \in Nat
    /\ \A t \in texts : t.src = 0 /\ t.lemmas \subseteq Words
    /\ \A r \in Requests : request[r].step \in {"idle", "call", "passed"}
    /\ reader.step \in {"away", "next", "done"}

(* Paging by the key of the last text (SearchPracticeTexts), while texts    *)
(* are generated and the corpus is imported between the pages: no text is   *)
(* shown twice, and a reader who reaches the last page has seen all his own *)
(* texts that were there at the first, and the sentences that were read for *)
(* every page; the others are a sample.  A sentence an import has edited is *)
(* another text.  Excused: the words came from a dictionary that changed    *)
(* between two pages.  And the model is called at most MaxAttempts times    *)
(* for each place of the daily limit taken.                                 *)
EveryTextOnce ==
    /\ reader # Away /\ reader.steady =>
          /\ ~reader.twice
          /\ reader.step = "done" =>
                {t \in reader.had : t.lemmas \cap reader.words # {}} \subseteq reader.shown
    /\ calls <= MaxAttempts * used
=============================================================================
