------------------------------ MODULE Sessions ------------------------------
(***************************************************************************)
(* Users, logins and sessions: the routes of security/auth.ts, the rows of *)
(* model/database.ts they work on, the bootstrap command and the status    *)
(* streams of api/ws.ts.  Statements of one connection to SQLite between   *)
(* two awaits are one step; hashing a password is an await, so each        *)
(* request that hashes has a step before it and a step after it.           *)
(***************************************************************************)
EXTENDS Naturals, FiniteSets

CONSTANTS
    Users,       \* user names, each with the id of its row
    Passwords,
    Roles,       \* what matters here is who is an admin
    Requests,    \* requests and command-line processes that may overlap
    Keep,        \* a part of a user that a patch leaves alone
    MaxSessions, \* bound: sessions
    MaxFailures, \* 5 in the code: failures before a key is blocked
    MaxChanges   \* bound: requests that change users

ASSUME SessionsAssumption ==
    /\ "admin" \in Roles
    /\ Keep \notin Passwords /\ Keep \notin Roles /\ Keep \notin BOOLEAN
    /\ {MaxSessions, MaxFailures, MaxChanges} \subseteq Nat

VARIABLES
    users,    \* table users
    sessions, \* table sessions: the user of each live session
    attempts, \* table login_attempts: failures in the window, per user name
    requests, \* requests that wait for a hash
    streams,  \* sessions with an open status stream
    issued,   \* sessions made so far
    changes   \* changes of users still to come

vars == <<users, sessions, attempts, requests, streams, issued, changes>>

-----------------------------------------------------------------------------
User == [role : Roles, disabled : BOOLEAN, password : Passwords]
NoUser == [role |-> "none"]
Patch == [role : Roles \cup {Keep}, disabled : BOOLEAN \cup {Keep}, password : Passwords \cup {Keep}]
Session == 1 .. MaxSessions

Exists(u) == users[u] # NoUser
Idle == [kind |-> "idle"]
Waiting ==
    [kind : {"login"}, user : Users, valid : BOOLEAN]
    \cup [kind : {"bootstrap"}, user : Users, password : Passwords]
    \cup [kind : {"create"}, user : Users, role : Roles, password : Passwords]
    \cup [kind : {"update"}, actor : Users, user : Users, patch : Patch]

\* Also that every session belongs to a user.
TypeOK ==
    /\ users \in [Users -> User \cup {NoUser}]
    /\ DOMAIN sessions \subseteq Session
    /\ \A s \in DOMAIN sessions : sessions[s] \in Users /\ Exists(sessions[s])
    /\ attempts \in [Users -> 0 .. MaxFailures]
    /\ requests \in [Requests -> Waiting \cup {Idle}]
    /\ streams \subseteq Session
    /\ issued \in 0 .. MaxSessions
    /\ changes \in 0 .. MaxChanges

Init ==
    /\ users = [u \in Users |-> NoUser]
    /\ sessions = << >>
    /\ attempts = [u \in Users |-> 0]
    /\ requests = [r \in Requests |-> Idle]
    /\ streams = {}
    /\ issued = 0
    /\ changes = MaxChanges

-----------------------------------------------------------------------------
ActiveAdmins == {u \in Users : Exists(u) /\ users[u].role = "admin" /\ ~users[u].disabled}

\* Mutant: the join does not ask for enabled users.
ValidForAnyone(s) == s \in DOMAIN sessions
\* session(): the row, joined with an enabled user.
Valid(s) == s \in DOMAIN sessions /\ ~users[sessions[s]].disabled
IsAdmin(s) == Valid(s) /\ users[sessions[s]].role = "admin"

Drop(gone) == sessions' = [s \in DOMAIN sessions \ gone |-> sessions[s]]
Wait(r, what) == requests[r] = Idle /\ requests' = [requests EXCEPT ![r] = what]
Done(r) == requests' = [requests EXCEPT ![r] = Idle]
Change == changes > 0 /\ changes' = changes - 1

\* createUser fails on a name that is taken.
CreateUser(u, role, password) ==
    users' = IF Exists(u) THEN users
             ELSE [users EXCEPT ![u] = [role |-> role, disabled |-> FALSE, password |-> password]]

-----------------------------------------------------------------------------
(* cli/bootstrapAdmin.ts *)

BootstrapBegins(r) ==
    /\ \A u \in Users : ~Exists(u)
    /\ \E u \in Users, p \in Passwords : Wait(r, [kind |-> "bootstrap", user |-> u, password |-> p])
    /\ UNCHANGED <<users, sessions, attempts, streams, issued, changes>>

BootstrapEnds(r) ==
    /\ requests[r].kind = "bootstrap"
    /\ CreateUser(requests[r].user, "admin", requests[r].password)
    /\ Done(r)
    /\ UNCHANGED <<sessions, attempts, streams, issued, changes>>

-----------------------------------------------------------------------------
(* POST /auth/login *)

Credentials(u, p) == Exists(u) /\ ~users[u].disabled /\ users[u].password = p

\* The user and the hash are read before the await, the same for a name
\* nobody has.
LoginBegins(r, u, p) ==
    /\ attempts[u] < MaxFailures
    /\ issued < MaxSessions
    /\ Wait(r, [kind |-> "login", user |-> u, valid |-> Credentials(u, p)])
    /\ UNCHANGED <<users, sessions, attempts, streams, issued, changes>>

LoginRefused(r) ==
    /\ requests[r].kind = "login" /\ ~requests[r].valid
    /\ attempts' = [attempts EXCEPT ![requests[r].user] = IF @ < MaxFailures THEN @ + 1 ELSE @]
    /\ Done(r)
    /\ UNCHANGED <<users, sessions, streams, issued, changes>>

LoginAccepted(r) ==
    /\ requests[r].kind = "login" /\ requests[r].valid
    /\ issued < MaxSessions
    /\ issued' = issued + 1
    /\ sessions' = [s \in DOMAIN sessions \cup {issued'} |->
                      IF s = issued' THEN requests[r].user ELSE sessions[s]]
    /\ attempts' = [attempts EXCEPT ![requests[r].user] = 0]
    /\ Done(r)
    /\ UNCHANGED <<users, streams, changes>>

\* The quarter of an hour of a key is over.
WindowPasses(u) ==
    /\ attempts[u] > 0
    /\ attempts' = [attempts EXCEPT ![u] = 0]
    /\ UNCHANGED <<users, sessions, requests, streams, issued, changes>>

\* Eight hours, or POST /auth/logout.
SessionEnds(s) ==
    /\ s \in DOMAIN sessions
    /\ Drop({s})
    /\ UNCHANGED <<users, attempts, requests, streams, issued, changes>>

-----------------------------------------------------------------------------
(* POST /users and PATCH /users/:id *)

CreateBegins(r, s) ==
    /\ Change
    /\ IsAdmin(s)
    /\ \E u \in Users, role \in Roles, p \in Passwords :
          Wait(r, [kind |-> "create", user |-> u, role |-> role, password |-> p])
    /\ UNCHANGED <<users, sessions, attempts, streams, issued>>

CreateEnds(r) ==
    /\ requests[r].kind = "create"
    /\ CreateUser(requests[r].user, requests[r].role, requests[r].password)
    /\ Done(r)
    /\ UNCHANGED <<sessions, attempts, streams, issued, changes>>

Or(new, old) == IF new = Keep THEN old ELSE new
Patched(u, patch) ==
    [role |-> Or(patch.role, users[u].role),
     disabled |-> Or(patch.disabled, users[u].disabled),
     password |-> Or(patch.password, users[u].password)]

\* Mutant: only who removes himself is asked.
SafeForSelf(actor, u, new) == ~(actor = u /\ (new.disabled \/ new.role # "admin"))
\* UserSafetyError: nobody disables himself, and an active admin who is
\* removed leaves another.
Safe(actor, u, new) ==
    /\ ~(actor = u /\ new.disabled)
    /\ u \in ActiveAdmins /\ (new.role # "admin" \/ new.disabled) => ActiveAdmins \ {u} # {}

\* updateUser.
UpdateUser(actor, u, patch) ==
    LET new == Patched(u, patch) IN
    IF Exists(u) /\ Safe(actor, u, new)
      THEN /\ users' = [users EXCEPT ![u] = new]
           /\ IF new.disabled THEN Drop({s \in DOMAIN sessions : sessions[s] = u})
                              ELSE UNCHANGED sessions
      ELSE UNCHANGED <<users, sessions>>

\* Without a new password nothing is awaited.
UpdateAtOnce(s, u, patch) ==
    /\ Change
    /\ IsAdmin(s)
    /\ patch.password = Keep
    /\ UpdateUser(sessions[s], u, patch)
    /\ UNCHANGED <<attempts, requests, streams, issued>>

UpdateBegins(r, s, u, patch) ==
    /\ Change
    /\ IsAdmin(s)
    /\ patch.password # Keep
    /\ Wait(r, [kind |-> "update", actor |-> sessions[s], user |-> u, patch |-> patch])
    /\ UNCHANGED <<users, sessions, attempts, streams, issued>>

UpdateEnds(r) ==
    /\ requests[r].kind = "update"
    /\ UpdateUser(requests[r].actor, requests[r].user, requests[r].patch)
    /\ Done(r)
    /\ UNCHANGED <<attempts, streams, issued, changes>>

-----------------------------------------------------------------------------
(* api/ws.ts *)

StreamOpens(s) ==
    /\ Valid(s)
    /\ s \notin streams
    /\ streams' = streams \cup {s}
    /\ UNCHANGED <<users, sessions, attempts, requests, issued, changes>>

\* Mutant: the user is looked up, a session that was deleted is not missed.
RevalidateUser(s) ==
    /\ s \in streams
    /\ s \in DOMAIN sessions /\ users[sessions[s]].disabled
    /\ streams' = streams \ {s}
    /\ UNCHANGED <<users, sessions, attempts, requests, issued, changes>>
\* The interval of an open stream, or its timer at the end of the session.
Revalidate(s) ==
    /\ s \in streams
    /\ ~Valid(s)
    /\ streams' = streams \ {s}
    /\ UNCHANGED <<users, sessions, attempts, requests, issued, changes>>

StreamLeaves(s) ==
    /\ s \in streams
    /\ Valid(s)
    /\ streams' = streams \ {s}
    /\ UNCHANGED <<users, sessions, attempts, requests, issued, changes>>

-----------------------------------------------------------------------------
RequestStep(r) ==
    \/ BootstrapBegins(r) \/ BootstrapEnds(r) \/ LoginRefused(r) \/ LoginAccepted(r)
    \/ CreateEnds(r) \/ UpdateEnds(r)
    \/ \E u \in Users, p \in Passwords : LoginBegins(r, u, p)
    \/ \E s \in Session : CreateBegins(r, s)
    \/ \E s \in Session, u \in Users, patch \in Patch : UpdateBegins(r, s, u, patch)

Next ==
    \/ \E r \in Requests : RequestStep(r)
    \/ \E s \in Session, u \in Users, patch \in Patch : UpdateAtOnce(s, u, patch)
    \/ \E u \in Users : WindowPasses(u)
    \/ \E s \in Session : SessionEnds(s) \/ StreamOpens(s) \/ Revalidate(s) \/ StreamLeaves(s)

Spec == Init /\ [][Next]_vars

\* The interval of a stream runs off.
FairSpec == Spec /\ \A s \in Session : WF_vars(Revalidate(s))

-----------------------------------------------------------------------------
(* Properties *)

\* However requests overlap, once there are users one of them is an active
\* admin (updateUser, UserSafetyError).
AdminRemains == (\E u \in Users : Exists(u)) => ActiveAdmins # {}

\* Nobody who is disabled gets in, not with a session that a login in flight
\* made after the user was disabled (session, "u.disabled=0").
DisabledIsOut ==
    [][\A s \in streams' \ streams : ~users[sessions[s]].disabled]_vars

\* A stream does not outlive its session, nor its user's right to it
\* (ws.ts, "revoke an already-open status stream").
StreamsEnd ==
    \A s \in Session : s \in streams /\ ~Valid(s) ~> s \notin streams \/ Valid(s)
=============================================================================
