------------------------------ MODULE Accounts ------------------------------
(***************************************************************************)
(* Accounts, their sessions, one invitation and one group                  *)
(* (httpapi/auth.go, users.go, invites.go, groups.go and their store).  A  *)
(* request finds its session and role first, checks its rights next and    *)
(* writes last, each in a statement or transaction of its own; no row is   *)
(* locked in between.                                                      *)
(***************************************************************************)
EXTENDS Naturals, FiniteSets

CONSTANTS
    Owner,         \* an admin, logged in
    Colleague,    \* an admin or a teacher, logged in
    Invitee,      \* a student, or still without an account
    Requests,     \* requests in flight
    EditLimit,    \* bound: changes written
    LoginLimit    \* bound: logins and logouts

\* Assumed of the constants wherever the module is instantiated.
AccountsAssumption ==
    /\ Owner # Colleague /\ Owner # Invitee /\ Colleague # Invitee
    /\ EditLimit \in Nat /\ LoginLimit \in Nat

Users == {Owner, Colleague, Invitee}
Roles == {"admin", "teacher", "student"}

VARIABLES
    user,      \* the rows of users
    members,   \* the group's members; a teacher among them leads it
    sessions,  \* rows of sessions; those of a user and an epoch are alike
    invite,    \* the row of invites
    request,   \* what each request in flight has read
    edits,     \* bound used up
    logins,    \* bound used up
    crossed    \* history: a request wrote when its author, or the student it was about, was
               \* no longer what it had read

vars == <<user, members, sessions, invite, request, edits, logins, crossed>>

\* epoch: history, how often all sessions were ended (SetPassword, DeactivateUser).
Absent == [exists |-> FALSE, role |-> "student", archived |-> FALSE, epoch |-> 0]
NoInvite == [open |-> FALSE, role |-> "student", joins |-> FALSE]
Free == [op |-> "none", at |-> "free", actor |-> Invitee, by |-> "student",
         target |-> Invitee, role |-> "student", epoch |-> 0]

\* A school with a group of the teacher's, if there is one.
Init ==
    /\ \E role \in {"admin", "teacher"}, enrolled \in BOOLEAN :
           /\ user = [u \in Users |->
                  [Absent EXCEPT !.exists = u # Invitee \/ enrolled,
                                 !.role = IF u = Owner THEN "admin" ELSE IF u = Colleague THEN role ELSE @]]
           /\ members = {u \in Users : user[u].exists /\ user[u].role # "admin"}
    /\ sessions = [user : {Owner, Colleague}, epoch : {0}, late : {FALSE}]
    /\ invite = NoInvite /\ request = [r \in Requests |-> Free]
    /\ edits = 0 /\ logins = 0 /\ crossed = FALSE

Session(u, epoch) == [user |-> u, epoch |-> epoch, late |-> epoch # user[u].epoch]

\* UserBySessionTokenHash: an archived account's sessions are not valid.
HasSession(u) == ~user[u].archived /\ \E s \in sessions : s.user = u

Ends(r) == request' = [request EXCEPT ![r] = Free]
bounds == <<edits, logins>>

-----------------------------------------------------------------------------
\* Sessions

\* handleLogin up to the password and the archive check.
CheckLogin(r, u) ==
    /\ request[r] = Free /\ user[u].exists /\ ~user[u].archived
    /\ logins < LoginLimit /\ logins' = logins + 1
    /\ request' = [request EXCEPT ![r] = [Free EXCEPT !.op = "login", !.at = "open",
                                              !.actor = u, !.epoch = user[u].epoch]]
    /\ UNCHANGED <<user, members, sessions, invite, edits, crossed>>

\* CreateSession, at the end of a login and of a change of one's password.
OpenSession(r) ==
    /\ request[r].at = "open" /\ Ends(r)
    /\ sessions' = sessions \cup {Session(request[r].actor, request[r].epoch)}
    /\ UNCHANGED <<user, members, invite, bounds, crossed>>

\* Logout, or expiry and its cleanup.
SessionEnds(s) ==
    /\ s \in sessions /\ sessions' = sessions \ {s}
    /\ logins < LoginLimit /\ logins' = logins + 1
    /\ UNCHANGED <<user, members, invite, request, edits, crossed>>

-----------------------------------------------------------------------------
\* A request of somebody logged in

SelfAllowedMutantAlways(u, op, target, role) == TRUE

\* Nobody takes the admin's role from themselves or archives themselves.
SelfAllowed(u, op, target, role) ==
    u = target => op \notin {"archive", "return"} /\ (op = "role" => role = "admin")

\* What each role may ask for at all: requireAnyRole and the handlers' checks.
RoleAllows(by, op) ==
    CASE op = "own" -> TRUE
      [] op = "role" -> by = "admin"
      [] OTHER -> by \in {"admin", "teacher"}

Ops == {"own", "role", "reset", "archive", "return"}

\* Who changes his own password knows the old one; an admin manages anybody
\* (canManage).
Enter(r, u, op, target, role) ==
    /\ request[r] = Free /\ HasSession(u) /\ edits < EditLimit
    /\ op = "own" => target = u
    /\ op # "role" => role = "student"
    /\ SelfAllowed(u, op, target, role) /\ RoleAllows(user[u].role, op)
    /\ request' = [request EXCEPT ![r] =
           [op |-> op, actor |-> u,
            at |-> IF op = "own" \/ user[u].role = "admin" THEN "allowed" ELSE "entered",
            by |-> user[u].role,
            target |-> target, role |-> role, epoch |-> 0]]
    /\ UNCHANGED <<user, members, sessions, invite, bounds, crossed>>

\* TeacherManagesUser: students of the teacher's group.
TeacherManages(u, target) == {u, target} \subseteq members /\ user[target].role = "student"

\* authorizeManage of a teacher's request: a statement of its own.
Authorize(r) ==
    /\ request[r].at = "entered"
    /\ IF TeacherManages(request[r].actor, request[r].target)
       THEN request' = [request EXCEPT ![r].at = "allowed"] ELSE Ends(r)
    /\ UNCHANGED <<user, members, sessions, invite, bounds, crossed>>

\* A request is refused or lost.
GivesUp(r) ==
    /\ request[r] # Free /\ Ends(r)
    /\ UNCHANGED <<user, members, sessions, invite, bounds, crossed>>

-----------------------------------------------------------------------------
\* What it writes

Stale(q) ==
    \/ user[q.actor].role # q.by \/ user[q.actor].archived
    \/ q.by = "teacher" /\ q.op # "own" /\ user[q.target].role # "student"

Writes(r, ops) ==
    /\ request[r].at = "allowed" /\ request[r].op \in ops /\ edits < EditLimit
    /\ edits' = edits + 1 /\ crossed' = (crossed \/ Stale(request[r]))

EndedMutantKeeps(u) == {s \in sessions : s.user # u \/ s.epoch = user[u].epoch}

\* DELETE FROM sessions of the account.
Ended(u) == {s \in sessions : s.user # u}

\* SetPassword; who changed his own goes on to a new session.
SetPassword(r) ==
    LET q == request[r]
    IN  /\ Writes(r, {"own", "reset"}) /\ user[q.target].exists
        /\ user' = [user EXCEPT ![q.target].epoch = @ + 1]
        /\ sessions' = Ended(q.target)
        /\ IF q.op = "own"
           THEN request' = [request EXCEPT ![r].at = "open", ![r].epoch = user[q.target].epoch + 1]
           ELSE Ends(r)
        /\ UNCHANGED <<members, invite, logins>>

UpdateUserProfile(r) ==
    LET q == request[r]
    IN  /\ Writes(r, {"role"}) /\ user[q.target].exists /\ Ends(r)
        /\ user' = [user EXCEPT ![q.target].role = q.role]
        /\ UNCHANGED <<members, sessions, invite, logins>>

DeactivateUser(r) ==
    LET q == request[r]
    IN  /\ Writes(r, {"archive"}) /\ user[q.target].exists /\ Ends(r)
        /\ user' = [user EXCEPT ![q.target].archived = TRUE, ![q.target].epoch = @ + 1]
        /\ sessions' = Ended(q.target)
        /\ UNCHANGED <<members, invite, logins>>

ReactivateUser(r) ==
    LET q == request[r]
    IN  /\ Writes(r, {"return"}) /\ user[q.target].exists /\ Ends(r)
        /\ user' = [user EXCEPT ![q.target].archived = FALSE]
        /\ UNCHANGED <<members, sessions, invite, logins>>

-----------------------------------------------------------------------------
\* Accounts, invitations and the group: a request is one step, since what it
\* writes depends on the row it writes only

Staff(u, role) == user[u].role = "admin" \/ (user[u].role = "teacher" /\ role = "student")

Edits == edits < EditLimit /\ edits' = edits + 1

\* The email is unique.
CreateUser(u, role) ==
    /\ HasSession(u) /\ Staff(u, role) /\ ~user[Invitee].exists /\ Edits
    /\ user' = [user EXCEPT ![Invitee].exists = TRUE, ![Invitee].role = role]
    /\ UNCHANGED <<members, sessions, invite, request, logins, crossed>>

\* Only an admin invites to a group.
CreateInvite(u, role, joins) ==
    /\ HasSession(u) /\ Staff(u, role) /\ (joins => user[u].role = "admin")
    /\ ~user[Invitee].exists /\ ~invite.open /\ Edits
    /\ invite' = [open |-> TRUE, role |-> role, joins |-> joins]
    /\ UNCHANGED <<user, members, sessions, request, logins, crossed>>

\* DeleteInvite, or the link expires.
InviteEnds ==
    /\ invite.open /\ invite' = NoInvite
    /\ UNCHANGED <<user, members, sessions, request, bounds, crossed>>

\* AddGroupMemberByEmail and RemoveGroupMember, by an admin.
ChangeGroup(u, target) ==
    /\ HasSession(u) /\ user[u].role = "admin" /\ user[target].exists /\ Edits
    /\ members' = IF target \in members THEN members \ {target} ELSE members \cup {target}
    /\ UNCHANGED <<user, sessions, invite, request, logins, crossed>>

\* AcceptInvite: the invitation, the account, the membership and the session
\* in one transaction; it fails as a whole if the email has an account by now.
AcceptInvite ==
    /\ invite.open /\ ~user[Invitee].exists
    /\ invite' = NoInvite
    /\ user' = [user EXCEPT ![Invitee].exists = TRUE, ![Invitee].role = invite.role]
    /\ members' = IF invite.joins THEN members \cup {Invitee} ELSE members
    /\ sessions' = sessions \cup {Session(Invitee, user[Invitee].epoch)}
    /\ UNCHANGED <<request, bounds, crossed>>

-----------------------------------------------------------------------------

Write(r) == SetPassword(r) \/ UpdateUserProfile(r) \/ DeactivateUser(r) \/ ReactivateUser(r)

Next ==
    \/ \E r \in Requests :
           \/ Authorize(r) \/ Write(r) \/ OpenSession(r) \/ GivesUp(r)
           \/ \E u \in Users : CheckLogin(r, u)
           \/ \E u, target \in Users, op \in Ops, role \in Roles : Enter(r, u, op, target, role)
    \/ \E u \in Users, role \in Roles :
           CreateUser(u, role) \/ \E joins \in BOOLEAN : CreateInvite(u, role, joins)
    \/ \E u, target \in Users : ChangeGroup(u, target)
    \/ \E s \in sessions : SessionEnds(s)
    \/ AcceptInvite \/ InviteEnds

Spec == Init /\ [][Next]_vars

-----------------------------------------------------------------------------

TypeOK ==
    /\ \A u \in Users : user[u].role \in Roles /\ user[u].epoch \in 0..EditLimit
    /\ members \subseteq Users /\ {s.user : s \in sessions} \subseteq Users
    /\ invite.role \in Roles
    /\ \A r \in Requests : request[r].at \in {"free", "entered", "allowed", "open"}

\* Changing a password or archiving its owner ends every session opened before
\* it, also those of invitations and of other changes, and coming back from
\* the archive revives none.  Excused: a session whose password was checked
\* before, but which was only written after.
NoStaleSession == \A s \in sessions : s.epoch = user[s.user].epoch \/ s.late

\* The school keeps an admin who can log in, as nobody may demote or archive
\* himself.  Excused: an edit by somebody who was demoted or archived while
\* it was under way, e.g. two admins who archive each other, and a teacher's
\* request about a student who became an admin after its rights were checked.
AdminRemains == crossed \/ \E u \in Users : user[u].exists /\ user[u].role = "admin" /\ ~user[u].archived
=============================================================================
