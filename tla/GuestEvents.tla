---------------------------- MODULE GuestEvents ----------------------------
(***************************************************************************)
(* One open event and the guests who join it by its link                   *)
(* (store/guests.go, httpapi/guests.go).  JoinAsGuest is a transaction of  *)
(* several statements under FOR KEY SHARE of the lesson's row: joins do    *)
(* not wait for each other, while a new or revoked link, a reschedule and  *)
(* a cancel (FOR UPDATE) wait for all of them, and a join for these.       *)
(***************************************************************************)
EXTENDS Naturals, FiniteSets

CONSTANTS
    Requests,          \* joins under way
    Guests,            \* accounts that joins may create
    MaxGuestsPerEvent,
    Grace,             \* GuestSessionGrace
    Horizon            \* bound: the clock

\* Assumed of the constants wherever the module is instantiated.
GuestAssumption ==
    /\ IsFiniteSet(Requests) /\ MaxGuestsPerEvent \in Nat \ {0} /\ Grace \in Nat /\ Horizon \in Nat \ {0}

VARIABLES
    now,
    lesson,   \* its row: status and end
    link,     \* which link is valid, 0 for none
    issued,   \* links issued so far
    join,     \* the transaction of each request
    guests,   \* participants with the role guest
    expires   \* expires_at of each guest's session, 0 for no session

vars == <<now, lesson, link, issued, join, guests, expires>>

Free == [at |-> "free", link |-> 0, end |-> 0]

Init ==
    /\ now = 0 /\ lesson \in [status : {"scheduled"}, end : 1..Horizon]
    /\ link = 0 /\ issued = 0
    /\ join = [r \in Requests |-> Free]
    /\ guests = {} /\ expires = [g \in Guests |-> 0]

LockedMutantNever == FALSE

\* FOR UPDATE waits while a join holds the row.
Locked == \E r \in Requests : join[r].at \in {"locked", "counted"}

Tick ==
    /\ now < Horizon + Grace /\ now' = now + 1
    /\ UNCHANGED <<lesson, link, issued, join, guests, expires>>

-----------------------------------------------------------------------------
\* The teacher

\* SetGuestToken: the unique column makes its UPDATE wait.
IssueLink ==
    /\ lesson.status # "gone" /\ ~Locked /\ issued < Cardinality(Requests)
    /\ issued' = issued + 1 /\ link' = issued + 1
    /\ UNCHANGED <<now, lesson, join, guests, expires>>

RevokeLink ==
    /\ link # 0 /\ ~Locked /\ link' = 0
    /\ UNCHANGED <<now, lesson, issued, join, guests, expires>>

MovedSessionsMutantNone(end) == expires

\* The sessions of the event's guests move with its end.
MovedSessions(end) == [g \in Guests |-> IF g \in guests /\ expires[g] # 0 THEN end + Grace ELSE expires[g]]

RescheduleLesson(end) ==
    /\ lesson.status = "scheduled" /\ ~Locked /\ end > now
    /\ lesson' = [lesson EXCEPT !.end = end]
    /\ expires' = MovedSessions(end)
    /\ UNCHANGED <<now, link, issued, join, guests>>

\* The participants go with the lesson, accounts and sessions stay.
CancelLesson ==
    /\ lesson.status = "scheduled" /\ ~Locked
    /\ lesson' = [lesson EXCEPT !.status = "gone"] /\ link' = 0 /\ guests' = {}
    /\ UNCHANGED <<now, issued, join, expires>>

\* The recording takes the row FOR NO KEY UPDATE and waits for no join.
StartLesson ==
    /\ lesson.status = "scheduled" /\ lesson' = [lesson EXCEPT !.status = "live"]
    /\ UNCHANGED <<now, link, issued, join, guests, expires>>

-----------------------------------------------------------------------------
\* JoinAsGuest

\* The request comes with a link that was once issued.
Follow(r, n) ==
    /\ join[r] = Free /\ join' = [join EXCEPT ![r] = [Free EXCEPT !.at = "came", !.link = n]]
    /\ UNCHANGED <<now, lesson, link, issued, guests, expires>>

\* SELECT ... FOR KEY SHARE: the link, then the end of the row it locks.
LockLesson(r) ==
    /\ join[r].at = "came"
    /\ join' = [join EXCEPT ![r] = IF link = @.link /\ lesson.end >= now
                                   THEN [@ EXCEPT !.at = "locked", !.end = lesson.end] ELSE Free]
    /\ UNCHANGED <<now, lesson, link, issued, guests, expires>>

Full(n) == n >= MaxGuestsPerEvent

CountGuests(r) ==
    /\ join[r].at = "locked"
    /\ join' = [join EXCEPT ![r] = IF Full(Cardinality(guests)) THEN Free
                                   ELSE [@ EXCEPT !.at = "counted"]]
    /\ UNCHANGED <<now, lesson, link, issued, guests, expires>>

\* The account, its place in the event and its session are committed together.
CommitJoin(r, g) ==
    /\ join[r].at = "counted" /\ g \notin guests /\ expires[g] = 0
    /\ guests' = guests \cup {g} /\ expires' = [expires EXCEPT ![g] = join[r].end + Grace]
    /\ join' = [join EXCEPT ![r] = Free]
    /\ UNCHANGED <<now, lesson, link, issued>>

Rollback(r) ==
    /\ join[r] # Free /\ join' = [join EXCEPT ![r] = Free]
    /\ UNCHANGED <<now, lesson, link, issued, guests, expires>>

\* CleanupExpiredSessions.
Cleanup(g) ==
    /\ expires[g] \in 1..now /\ expires' = [expires EXCEPT ![g] = 0]
    /\ UNCHANGED <<now, lesson, link, issued, join, guests>>

-----------------------------------------------------------------------------

JoinAsGuest(r) ==
    \/ \E n \in 1..issued : Follow(r, n)
    \/ LockLesson(r) \/ CountGuests(r) \/ Rollback(r)
    \/ \E g \in Guests : CommitJoin(r, g)

Next ==
    \/ Tick \/ IssueLink \/ RevokeLink \/ CancelLesson \/ StartLesson
    \/ \E end \in 1..Horizon : RescheduleLesson(end)
    \/ \E r \in Requests : JoinAsGuest(r)
    \/ \E g \in Guests : Cleanup(g)

Spec == Init /\ [][Next]_vars

-----------------------------------------------------------------------------

TypeOK ==
    /\ now \in 0..Horizon + Grace
    /\ lesson.status \in {"scheduled", "live", "gone"} /\ lesson.end \in 1..Horizon
    /\ link \in 0..issued /\ guests \subseteq Guests
    /\ \A g \in Guests : expires[g] \in 0..Horizon + Grace

\* Nobody joins by a link that is no longer valid, and no account is left
\* without its event: revoking waits for who is half way in.
JoinsByValidLink ==
    [][\A g \in guests' \ guests :
           lesson.status # "gone" /\ \E r \in Requests : join[r].at = "counted" /\ join[r].link = link]_vars

\* A guest, who has no password to come back with, keeps his session until the
\* end of the event and its grace, wherever the event was moved while he was
\* joining.
SessionFollowsEvent ==
    lesson.status # "gone" =>
        \A g \in guests : expires[g] # 0 => expires[g] = lesson.end + Grace

\* The cap is soft: guests who join at once exceed it by one each at most,
\* but for one of them.
SoftCap == Cardinality(guests) < MaxGuestsPerEvent + Cardinality(Requests)
=============================================================================
