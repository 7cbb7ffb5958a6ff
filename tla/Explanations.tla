---------------------------- MODULE Explanations ----------------------------
(* Explanations of a word in its sentence (httpapi/explain.go,              *)
(* store/explanations.go): one cache for everybody, a daily limit of calls  *)
(* per user, and a paid answer that is kept whoever has left by then.       *)
EXTENDS Naturals, FiniteSets

CONSTANTS
    Users,        \* students, teachers, admins
    Keys,         \* term and hash of the form and the sentence
    Requests,     \* requests under way
    DailyLimit,   \* explanations a user may call for in a day
    LastDay,      \* bound: days
    CallLimit,    \* bound: answers the model gives
    NoText        \* the key is not cached

\* Assumed of the constants wherever the module is instantiated.
ExplanationsAssumption ==
    /\ IsFiniteSet(Requests) /\ DailyLimit \in Nat
    /\ LastDay \in Nat \ {0} /\ CallLimit \in Nat /\ NoText \notin 1..CallLimit

VARIABLES
    day,        \* the date, UTC
    cached,     \* term_explanations: the text of each key
    used,       \* llm_usage of kind explain: places taken on each day
    request,    \* what each request has done
    calls,      \* history: calls paid on each day, and the answers so far
    answered    \* history: the texts users were shown

vars == <<day, cached, used, request, calls, answered>>

Days == 1..LastDay
Texts == 1..CallLimit
Idle == [step |-> "idle"]

Init ==
    /\ day = 1
    /\ cached = [k \in Keys |-> NoText]
    /\ used = [u \in Users |-> [d \in Days |-> 0]]
    /\ request = [r \in Requests |-> Idle]
    /\ calls = [texts |-> 0, paid |-> [u \in Users |-> [d \in Days |-> 0]]]
    /\ answered = {}

Shown(key, text) == answered' = answered \cup {[key |-> key, text |-> text]}

(* The cache is read first: a hit costs nothing. *)
Ask(r, u, k) ==
    /\ request[r] = Idle
    /\ IF cached[k] # NoText
       THEN Shown(k, cached[k]) /\ UNCHANGED request
       ELSE /\ request' = [request EXCEPT ![r] = [step |-> "missed", user |-> u, key |-> k]]
            /\ UNCHANGED answered
    /\ UNCHANGED <<day, cached, used, calls>>

(* ReserveLLMRequest: check and increment are one statement.  Refused: 429. *)
Reserve(r) ==
    LET u == request[r].user IN
    /\ request[r].step = "missed"
    /\ IF used[u][day] < DailyLimit
       THEN /\ used' = [used EXCEPT ![u][day] = @ + 1]
            /\ request' = [request EXCEPT ![r] = [step |-> "reserved", user |-> u,
                                                  key |-> @.key, day |-> day]]
       ELSE used' = used /\ request' = [request EXCEPT ![r] = Idle]
    /\ UNCHANGED <<day, cached, calls, answered>>

Paid(r) == [calls.paid EXCEPT ![request[r].user][request[r].day] = @ + 1]

(* The model answers. *)
Call(r) ==
    /\ request[r].step = "reserved" /\ calls.texts < CallLimit
    /\ calls' = [texts |-> calls.texts + 1, paid |-> Paid(r)]
    /\ request' = [request EXCEPT ![r] = [step |-> "paid", user |-> @.user, key |-> @.key,
                                          text |-> calls.texts + 1]]
    /\ UNCHANGED <<day, cached, used, answered>>

(* The call fails, the answer is empty or the user leaves while it lasts:   *)
(* the place is not given back, for the call may have cost money.           *)
CallFails(r) ==
    /\ request[r].step = "reserved"
    /\ calls' = [calls EXCEPT !.paid = Paid(r)]
    /\ request' = [request EXCEPT ![r] = Idle]
    /\ UNCHANGED <<day, cached, used, answered>>

(* The statement keeps the text that came first, but the answer does not.   *)
StoredMutantOwn(k, text) == text

(* What SaveTermExplanation returns: ON CONFLICT DO NOTHING, then the row   *)
(* that is there.                                                           *)
Stored(k, text) == IF cached[k] = NoText THEN text ELSE cached[k]

(* Saved without the request's context; the user may be gone by now. *)
Save(r) ==
    LET k == request[r].key
        text == Stored(k, request[r].text)
    IN  /\ request[r].step = "paid"
        /\ cached' = [cached EXCEPT ![k] = IF @ = NoText THEN text ELSE @]
        /\ request' = [request EXCEPT ![r] = Idle]
        /\ Shown(k, text) \/ UNCHANGED answered
        /\ UNCHANGED <<day, used, calls>>

(* The api restarts: its requests are gone, an answer not yet saved too. *)
Crash ==
    /\ request' = [r \in Requests |-> Idle] /\ request' # request
    /\ UNCHANGED <<day, cached, used, calls, answered>>

Midnight ==
    /\ day < LastDay /\ day' = day + 1
    /\ UNCHANGED <<cached, used, request, calls, answered>>

Next ==
    \/ \E r \in Requests, u \in Users, k \in Keys : Ask(r, u, k)
    \/ \E r \in Requests : Reserve(r) \/ Call(r) \/ CallFails(r) \/ Save(r)
    \/ Crash \/ Midnight

Spec == Init /\ [][Next]_vars

-----------------------------------------------------------------------------
TypeOK ==
    /\ day \in Days
    /\ cached \in [Keys -> Texts \cup {NoText}]
    /\ used \in [Users -> [Days -> 0..DailyLimit]]
    /\ calls.texts \in 0..CallLimit
    /\ \A r \in Requests : request[r].step \in {"idle", "missed", "reserved", "paid"}
    /\ answered \subseteq [key : Keys, text : Texts]

(* Two requests that missed the cache together both call and both pay, yet  *)
(* whoever asks about a key, then or later, is shown one and the same text  *)
(* (the comment of SaveTermExplanation); and no user is paid for more often *)
(* in a day than the limit allows, across midnight too.                     *)
OneExplanation ==
    /\ \A a \in answered : a.text = cached[a.key]
    /\ \A u \in Users, d \in Days : calls.paid[u][d] <= used[u][d] /\ used[u][d] <= DailyLimit
=============================================================================
