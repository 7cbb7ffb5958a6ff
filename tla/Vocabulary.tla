----------------------------- MODULE Vocabulary -----------------------------
(***************************************************************************)
(* The personal dictionary of one student: words, their FSRS cards, the    *)
(* journal of reviews, the cloze items of the words and the journal of     *)
(* answers (store/user_terms.go, store/srs.go, RecordClozeAttempt of       *)
(* store/cloze.go).  A review and a cloze answer are stamped with the      *)
(* clock of api when they arrive; the transaction then locks the word and  *)
(* its card, looks its key up and commits.  Answers to one word wait for   *)
(* each other, answers to two words with one key meet at the unique index. *)
(***************************************************************************)
EXTENDS Naturals, FiniteSets

CONSTANTS
    Terms, Keys,    \* words, idempotency keys of the clients
    Requests,       \* reviews and answers under way
    Intervals,      \* days FSRS may schedule a card for
    Horizon,        \* bound: the clock
    ReviewLimit,    \* bound: rows of the journals ever written
    AddLimit        \* bound: words and items added on the way

\* "none" stands for the review that a cloze answer counted as.
\* Assumed of the constants wherever the module is instantiated.
VocabularyAssumption ==
    /\ Intervals \subseteq Nat /\ "none" \notin Keys
    /\ Horizon \in Nat /\ ReviewLimit \in Nat /\ AddLimit \in Nat

VARIABLES
    now,
    words,     \* user_terms.status by term, 0 without a row
    cards,     \* srs_cards by term
    items,     \* the cloze item of each term, 0 without one
    reviews,   \* srs_reviews
    attempts,  \* cloze_attempts
    asked,     \* requests by id
    written,   \* journal rows ever written
    added,     \* words and items ever added
    byHand,    \* history: words whose status the student set after the last review
    bare       \* history: words an old api added without a card

vars == <<now, words, cards, items, reviews, attempts, asked, written, added, byHand, bare>>

Ratings == {"again", "good"}

NoCard == [state |-> "none", days |-> 0, due |-> 0, reps |-> 0, last |-> 0]

NewCard(at) == [NoCard EXCEPT !.state = "new", !.due = at]

NoRequest == [at |-> "free"]

Init ==
    /\ now = 0
    /\ words = [t \in Terms |-> 1] /\ cards = [t \in Terms |-> NewCard(0)]
    /\ items = [t \in Terms |-> 0] /\ reviews = {} /\ attempts = {}
    /\ asked = [r \in Requests |-> NoRequest]
    /\ written = 0 /\ added = 0 /\ byHand = {} /\ bare = {}

Tick ==
    /\ now < Horizon /\ now' = now + 1
    /\ UNCHANGED <<words, cards, items, reviews, attempts, asked, written, added, byHand, bare>>

Locked(t) == \E r \in Requests : asked[r].at = "locked" /\ asked[r].term = t

-----------------------------------------------------------------------------
\* The schedule

\* srs.Status: the status of a word from its card.
Status(c) ==
    CASE c.state = "new" -> 1
      [] c.state \in {"learning", "relearning"} -> 2
      [] c.days >= 30 -> 5
      [] c.days >= 7 -> 4
      [] OTHER -> 3

\* srs.Review over go-fsrs: the cards a rating may lead to; none if the card
\* was reviewed later than the rating was stamped.
Reviewed(c, rating, at) ==
    IF c.last > at THEN {}
    ELSE LET Next(state, days, due) ==
                 [state |-> state, days |-> days, due |-> due, reps |-> c.reps + 1, last |-> at]
         IN  IF rating = "again"
             THEN {Next(IF c.state \in {"new", "learning"} THEN "learning" ELSE "relearning", 0, at + 1)}
             ELSE {Next("review", days, at + 2) : days \in Intervals}
                  \cup (IF c.state = "new" THEN {Next("learning", 0, at + 1)} ELSE {})

CountsMutantAnyRight(c, q) == TRUE

\* A review of a due card counts; so does a cloze answer to one, and a miss
\* of any card.
Counts(c, q) == c.due <= q.stamp \/ (q.kind = "attempt" /\ q.rating = "again")

StatusAfterMutantLapse(c) == IF c.state = "relearning" THEN 3 ELSE Status(c)

StatusAfter(c) == Status(c)

-----------------------------------------------------------------------------
\* Words

CardOfMutantUpsert(t) == IF cards[t] = NoCard /\ added = 0 THEN NewCard(now) ELSE cards[t]

\* The card that comes with a new row, in its transaction.
CardOf(t) == NewCard(now)

\* SaveUserTerm: status 0 is none given.
SaveUserTerm(t, status) ==
    /\ ~Locked(t)
    /\ IF words[t] = 0
       THEN /\ added < AddLimit /\ added' = added + 1
            /\ words' = [words EXCEPT ![t] = IF status = 0 THEN 1 ELSE status]
            /\ cards' = [cards EXCEPT ![t] = CardOf(t)]
       ELSE /\ status # 0 /\ words' = [words EXCEPT ![t] = status]
            /\ UNCHANGED <<cards, added>>
    /\ byHand' = IF status = 0 THEN byHand ELSE byHand \cup {t}
    /\ UNCHANGED <<now, items, reviews, attempts, asked, written, bare>>

\* An api of before migration 0021, while the new one is rolled out.
SaveByOldApi(t) ==
    /\ ~Locked(t) /\ words[t] = 0 /\ added < AddLimit
    /\ added' = added + 1 /\ words' = [words EXCEPT ![t] = 1]
    /\ bare' = bare \cup {t}
    /\ UNCHANGED <<now, cards, items, reviews, attempts, asked, written, byHand>>

BackfillSRSCards ==
    /\ \E t \in Terms : words[t] # 0 /\ cards[t] = NoCard
    /\ cards' = [t \in Terms |-> IF words[t] # 0 /\ cards[t] = NoCard THEN NewCard(0) ELSE cards[t]]
    /\ bare' = {}
    /\ UNCHANGED <<now, words, items, reviews, attempts, asked, written, added, byHand>>

KeptReviewsMutantAll(t) == reviews

\* The cascade of a removed word over the journal.
KeptReviews(t) == {v \in reviews : v.term # t}

DeleteUserTerm(t) ==
    /\ words[t] # 0 /\ ~Locked(t)
    /\ words' = [words EXCEPT ![t] = 0] /\ cards' = [cards EXCEPT ![t] = NoCard]
    /\ items' = [items EXCEPT ![t] = 0]
    /\ reviews' = KeptReviews(t) /\ attempts' = {a \in attempts : a.term # t}
    /\ byHand' = byHand \ {t} /\ bare' = bare \ {t}
    /\ UNCHANGED <<now, asked, written, added>>

\* A feed of cloze items has found a sentence for the word.
CreateClozeItem(t) ==
    /\ words[t] # 0 /\ items[t] = 0 /\ added < AddLimit
    /\ added' = added + 1 /\ items' = [items EXCEPT ![t] = added + 1]
    /\ UNCHANGED <<now, words, cards, reviews, attempts, asked, written, byHand, bare>>

-----------------------------------------------------------------------------
\* Reviews and answers

\* handleReview and handleClozeAttempt; the item of an answer is read before
\* the word is locked.
Ask(r, kind, t, key, rating) ==
    /\ asked[r] = NoRequest /\ (kind = "attempt" => items[t] # 0)
    /\ asked' = [asked EXCEPT ![r] =
           [at |-> "came", kind |-> kind, term |-> t, item |-> IF kind = "attempt" THEN items[t] ELSE 0,
            key |-> key, rating |-> rating, stamp |-> now]]
    /\ UNCHANGED <<now, words, cards, items, reviews, attempts, written, added, byHand, bare>>

Answered(r) == [asked EXCEPT ![r] = NoRequest]

TakenMutantNever(q) == FALSE

\* The key is in the journal that holds the keys of this kind.
Taken(q) == \E j \in (IF q.kind = "review" THEN reviews ELSE attempts) : j.key = q.key

\* lockCard, then the look-up of the key: one already there ends the request,
\* as a duplicate or as a conflict.
LockCard(r) ==
    LET q == asked[r] IN
    /\ q.at = "came" /\ ~Locked(q.term)
    /\ asked' = IF words[q.term] = 0 \/ cards[q.term] = NoCard \/ Taken(q)
                THEN Answered(r) ELSE [asked EXCEPT ![r].at = "locked"]
    /\ UNCHANGED <<now, words, cards, items, reviews, attempts, written, added, byHand, bare>>

\* applyReview and the row of cloze_attempts.  A key taken meanwhile by an
\* answer to another word fails the whole transaction, and so does an item
\* that is gone.
Commit(r) ==
    LET q == asked[r]  t == q.term  id == written + 1 IN
    /\ q.at = "locked" /\ written < ReviewLimit
    /\ ~Taken(q) /\ (q.kind = "attempt" => items[t] = q.item)
    /\ IF Counts(cards[t], q)
       THEN \E c \in Reviewed(cards[t], q.rating, q.stamp) :
                /\ cards' = [cards EXCEPT ![t] = c]
                /\ words' = [words EXCEPT ![t] = StatusAfter(c)] /\ byHand' = byHand \ {t}
                /\ reviews' = reviews \cup {[id |-> id, term |-> t, rating |-> q.rating,
                                             key |-> IF q.kind = "review" THEN q.key ELSE "none"]}
       ELSE q.kind = "attempt" /\ UNCHANGED <<cards, words, byHand, reviews>>
    /\ attempts' = IF q.kind = "review" THEN attempts
                   ELSE attempts \cup {[term |-> t, item |-> q.item, key |-> q.key, rating |-> q.rating,
                                        review |-> IF Counts(cards[t], q) THEN id ELSE 0]}
    /\ written' = id /\ asked' = Answered(r)
    /\ UNCHANGED <<now, items, added, bare>>

\* Not due, a key or an item lost on the way, a card reviewed later than the
\* stamp, or any failure of the database.
Rollback(r) ==
    /\ asked[r] # NoRequest /\ asked' = Answered(r)
    /\ UNCHANGED <<now, words, cards, items, reviews, attempts, written, added, byHand, bare>>

-----------------------------------------------------------------------------

Word(t) ==
    \/ \E status \in {0, 3} : SaveUserTerm(t, status)
    \/ SaveByOldApi(t) \/ DeleteUserTerm(t) \/ CreateClozeItem(t)

Request(r) ==
    \/ \E kind \in {"review", "attempt"}, t \in Terms, key \in Keys, rating \in Ratings : Ask(r, kind, t, key, rating)
    \/ LockCard(r) \/ Commit(r) \/ Rollback(r)

Next ==
    \/ Tick \/ BackfillSRSCards
    \/ \E t \in Terms : Word(t)
    \/ \E r \in Requests : Request(r)

Spec == Init /\ [][Next]_vars

-----------------------------------------------------------------------------

TypeOK ==
    /\ now \in 0..Horizon /\ written \in 0..ReviewLimit /\ added \in 0..AddLimit
    /\ \A t \in Terms : words[t] \in 0..5 /\ items[t] \in 0..AddLimit
    /\ \A v \in reviews : v.id \in 1..written /\ v.rating \in Ratings
    /\ \A a \in attempts : a.review \in 0..written /\ a.key \in Keys

\* A word is never without its card and a card never without its word, but
\* for the words an old api added since the last backfill.
CardPerWord ==
    \A t \in Terms : /\ words[t] # 0 /\ cards[t] = NoCard => t \in bare
                     /\ cards[t] # NoCard => words[t] # 0

\* A key counts once, however often the answer is sent and whatever words it
\* is sent for; a counted answer to a cloze item has a review of its own.
CountedOnce ==
    /\ \A k \in Keys : /\ Cardinality({v \in reviews : v.key = k}) <= 1
                       /\ Cardinality({a \in attempts : a.key = k}) <= 1
    /\ \A a \in attempts : a.review # 0 =>
           \E v \in reviews : v.id = a.review /\ v.rating = a.rating /\ v.term = a.term
    /\ \A a, b \in attempts : a # b /\ a.review = b.review => a.review = 0

\* A card has been moved by the reviews in its journal and by nothing else,
\* also after its word was removed and added again.
CardMatchesJournal ==
    \A t \in Terms : cards[t].reps = Cardinality({v \in reviews : v.term = t})

\* Two tabs never move a card twice for one showing: a card that is not due is
\* moved by a missed cloze answer only.
MovesWhenDue ==
    [][\A t \in Terms : cards'[t].reps > cards[t].reps /\ cards[t].due > now =>
           \E a \in attempts' \ attempts : a.term = t /\ a.rating = "again"]_vars

\* The status the student sees is that of the card, unless the student set it
\* after the last review.
StatusFollowsCard ==
    \A t \in Terms : words[t] # 0 /\ cards[t] # NoCard /\ t \notin byHand => words[t] = Status(cards[t])
=============================================================================
