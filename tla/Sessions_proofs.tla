-------------------------- MODULE Sessions_proofs --------------------------
(***************************************************************************)
(* The proof that there is always an active admin once there are users,    *)
(* for any number of users, sessions and overlapping requests.             *)
(***************************************************************************)
EXTENDS Sessions, TLAPS

SomeUser == \E u \in Users : Exists(u)

Tables ==
    /\ users \in [Users -> User \cup {NoUser}]
    /\ \A s \in DOMAIN sessions : sessions[s] \in Users /\ Exists(sessions[s])
    /\ requests \in [Requests -> Waiting \cup {Idle}]

\* A request that creates a user was made by one, and users are not deleted;
\* a login that will be accepted is one of a user.
FromUsers ==
    \A r \in Requests :
        /\ requests[r].kind = "create" => SomeUser
        /\ requests[r].kind = "login" /\ requests[r].valid => Exists(requests[r].user)

IInv == Tables /\ FromUsers /\ AdminRemains

-----------------------------------------------------------------------------
LEMMA InitHolds == Init => IInv
BY DEF Init, IInv, Tables, FromUsers, AdminRemains, SomeUser, Exists, Idle, NoUser, User

\* Users stay, and so does the session's reference to them.
LEMMA UsersStay ==
    ASSUME Tables, \A u \in Users : Exists(u) => Exists(u)'
    PROVE  /\ SomeUser => SomeUser'
           /\ \A s \in DOMAIN sessions : users'[sessions[s]] # NoUser
BY DEF Tables, SomeUser, Exists, NoUser

\* createUser adds an enabled user or changes nothing.
LEMMA CreatingIsSafe ==
    ASSUME Tables, AdminRemains, NEW u \in Users, NEW role \in Roles, NEW p \in Passwords,
           CreateUser(u, role, p), SomeUser \/ role = "admin"
    PROVE  /\ users' \in [Users -> User \cup {NoUser}]
           /\ \A v \in Users : Exists(v) => Exists(v)'
           /\ AdminRemains'
<1> DEFINE new == [role |-> role, disabled |-> FALSE, password |-> p]
<1>1. new \in User
  BY DEF User
<1>2. CASE Exists(u)
  BY <1>2 DEF CreateUser, AdminRemains, ActiveAdmins, Exists, Tables
<1>3. CASE ~Exists(u)
  <2>1. users' = [users EXCEPT ![u] = new]
    BY <1>3 DEF CreateUser
  <2>2. users' \in [Users -> User \cup {NoUser}]
    BY <1>1, <2>1 DEF Tables
  <2>3. new # NoUser
    BY <1>1 DEF NoUser, User
  <2>4. \A v \in Users : Exists(v) => v # u /\ users'[v] = users[v]
    BY <1>3, <2>1 DEF Tables
  <2>5. \A v \in Users : Exists(v) => Exists(v)'
    BY <2>4 DEF Exists
  <2>6. CASE SomeUser
    <3>1. PICK a \in ActiveAdmins : TRUE
      BY <2>6 DEF AdminRemains, SomeUser
    <3>2. a \in ActiveAdmins'
      BY <2>4, <2>5, <3>1 DEF ActiveAdmins
    <3>3. QED
      BY <2>2, <2>5, <3>2 DEF AdminRemains
  <2>7. CASE role = "admin"
    <3>1. users'[u] = new
      BY <2>1 DEF Tables
    <3>2. u \in ActiveAdmins'
      BY <2>3, <2>7, <3>1 DEF ActiveAdmins, Exists
    <3>3. QED
      BY <2>2, <2>5, <3>2 DEF AdminRemains
  <2>8. QED
    BY <2>6, <2>7
<1>4. QED
  BY <1>2, <1>3

\* updateUser leaves an active admin.
LEMMA UpdatingIsSafe ==
    ASSUME Tables, AdminRemains, NEW actor \in Users, NEW u \in Users, NEW patch \in Patch,
           UpdateUser(actor, u, patch)
    PROVE  /\ users' \in [Users -> User \cup {NoUser}]
           /\ \A v \in Users : Exists(v) => Exists(v)'
           /\ \A s \in DOMAIN sessions' : s \in DOMAIN sessions /\ sessions'[s] = sessions[s]
           /\ AdminRemains'
<1> DEFINE new == Patched(u, patch)
<1>1. CASE Exists(u) /\ Safe(actor, u, new)
  <2>1. users[u] \in User
    BY <1>1 DEF Tables, Exists
  <2>2. new \in User
    BY <2>1 DEF Patched, Or, Patch, User
  <2>3. users' = [users EXCEPT ![u] = new]
    BY <1>1 DEF UpdateUser
  <2>4. \A s \in DOMAIN sessions' : s \in DOMAIN sessions /\ sessions'[s] = sessions[s]
    BY <1>1 DEF UpdateUser, Drop
  <2>5. new # NoUser
    BY <2>2 DEF NoUser, User
  <2> HIDE DEF new
  <2>6. users' \in [Users -> User \cup {NoUser}] /\ users'[u] = new
        /\ \A v \in Users : v # u => users'[v] = users[v]
    BY <2>2, <2>3 DEF Tables
  <2>7. \A v \in Users : Exists(v) => Exists(v)'
    BY <2>5, <2>6 DEF Exists
  <2>8. ActiveAdmins # {}
    BY <1>1 DEF AdminRemains
  <2>9. CASE ActiveAdmins \ {u} # {}
    <3>1. PICK a \in ActiveAdmins : a # u
      BY <2>9
    <3>2. a \in Users /\ users'[a] = users[a]
      BY <2>6, <3>1 DEF ActiveAdmins
    <3>3. a \in ActiveAdmins'
      BY <2>7, <3>1, <3>2 DEF ActiveAdmins
    <3>4. QED
      BY <2>4, <2>6, <2>7, <3>3 DEF AdminRemains
  <2>10. CASE ActiveAdmins \ {u} = {}
    <3>1. u \in ActiveAdmins
      BY <2>8, <2>10
    <3>2. new.role = "admin" /\ ~new.disabled
      BY <1>1, <2>10, <3>1 DEF Safe, new
    <3>3. u \in ActiveAdmins'
      BY <2>5, <2>6, <3>2 DEF ActiveAdmins, Exists
    <3>4. QED
      BY <2>4, <2>6, <2>7, <3>3 DEF AdminRemains
  <2>11. QED
    BY <2>9, <2>10
<1>2. CASE ~(Exists(u) /\ Safe(actor, u, new))
  <2>1. users' = users /\ sessions' = sessions
    BY <1>2 DEF UpdateUser
  <2>2. QED
    BY <2>1 DEF Tables, Exists, AdminRemains, ActiveAdmins
<1>3. QED
  BY <1>1, <1>2

\* What a step must show of its requests and users for the invariant.
LEMMA Preserved ==
    ASSUME IInv, Tables', AdminRemains',
           \A u \in Users : Exists(u) => Exists(u)',
           NEW r \in Requests,
           \A q \in Requests : q # r => requests'[q] = requests[q],
           requests'[r].kind = "create" => SomeUser',
           requests'[r].kind = "login" /\ requests'[r].valid => users'[requests'[r].user] # NoUser
    PROVE  IInv'
<1>1. SomeUser => SomeUser'
  BY UsersStay DEF IInv
<1>2. ASSUME NEW q \in Requests
      PROVE  /\ requests'[q].kind = "create" => SomeUser'
             /\ requests'[q].kind = "login" /\ requests'[q].valid => users'[requests'[q].user] # NoUser
  <2>1. CASE q = r
    BY <2>1
  <2>2. CASE q # r
    <3>1. requests'[q] = requests[q] /\ requests[q] \in Waiting \cup {Idle}
      BY <2>2 DEF IInv, Tables
    <3>2. requests[q].kind = "login" => requests[q].user \in Users
      BY <3>1 DEF Waiting, Idle
    <3>3. QED
      BY <1>1, <3>1, <3>2 DEF IInv, FromUsers, Exists
  <2>3. QED
    BY <2>1, <2>2
<1>3. QED
  BY <1>2 DEF IInv, FromUsers, Exists

\* Steps that leave the users alone.
LEMMA UsersUntouched ==
    ASSUME IInv, users' = users
    PROVE  /\ AdminRemains' /\ \A u \in Users : Exists(u) <=> Exists(u)'
           /\ SomeUser <=> SomeUser'
BY DEF IInv, AdminRemains, ActiveAdmins, Exists, SomeUser

-----------------------------------------------------------------------------
(* The steps *)

LEMMA BeginsHold ==
    ASSUME IInv, NEW r \in Requests,
           \/ BootstrapBegins(r)
           \/ \E u \in Users, p \in Passwords : LoginBegins(r, u, p)
           \/ \E s \in Session : CreateBegins(r, s)
           \/ \E s \in Session, u \in Users, patch \in Patch : UpdateBegins(r, s, u, patch)
    PROVE  IInv'
<1>1. users' = users /\ sessions' = sessions
  BY DEF BootstrapBegins, LoginBegins, CreateBegins, UpdateBegins
<1>2. PICK w \in Waiting : /\ requests' = [requests EXCEPT ![r] = w]
                           /\ w.kind = "create" => SomeUser
                           /\ w.kind = "login" /\ w.valid => Exists(w.user)
  <2>1. CASE BootstrapBegins(r)
    <3>1. PICK u \in Users, p \in Passwords :
             requests' = [requests EXCEPT ![r] = [kind |-> "bootstrap", user |-> u, password |-> p]]
      BY <2>1 DEF BootstrapBegins, Wait
    <3>2. [kind |-> "bootstrap", user |-> u, password |-> p] \in Waiting
      BY DEF Waiting
    <3>3. QED
      BY <3>1, <3>2
  <2>2. ASSUME NEW u \in Users, NEW p \in Passwords, LoginBegins(r, u, p)
        PROVE  \E w \in Waiting : /\ requests' = [requests EXCEPT ![r] = w]
                                  /\ w.kind = "create" => SomeUser
                                  /\ w.kind = "login" /\ w.valid => Exists(w.user)
    <3> DEFINE w == [kind |-> "login", user |-> u, valid |-> Credentials(u, p)]
    <3>1. requests' = [requests EXCEPT ![r] = w]
      BY <2>2 DEF LoginBegins, Wait
    <3>2. Credentials(u, p) \in BOOLEAN
      BY DEF Credentials, Exists
    <3>3. w \in Waiting
      BY <3>2 DEF Waiting
    <3>4. w.valid => Exists(u)
      BY DEF Credentials
    <3>5. QED
      BY <3>1, <3>3, <3>4
  <2>3. ASSUME NEW s \in Session, CreateBegins(r, s)
        PROVE  \E w \in Waiting : /\ requests' = [requests EXCEPT ![r] = w]
                                  /\ w.kind = "create" => SomeUser
                                  /\ w.kind = "login" /\ w.valid => Exists(w.user)
    <3>1. PICK u \in Users, role \in Roles, p \in Passwords :
             requests' = [requests EXCEPT
                            ![r] = [kind |-> "create", user |-> u, role |-> role, password |-> p]]
      BY <2>3 DEF CreateBegins, Wait
    <3>2. SomeUser
      BY <2>3 DEF CreateBegins, IsAdmin, Valid, IInv, Tables, SomeUser
    <3>3. [kind |-> "create", user |-> u, role |-> role, password |-> p] \in Waiting
      BY DEF Waiting
    <3>4. QED
      BY <3>1, <3>2, <3>3
  <2>4. ASSUME NEW s \in Session, NEW u \in Users, NEW patch \in Patch, UpdateBegins(r, s, u, patch)
        PROVE  \E w \in Waiting : /\ requests' = [requests EXCEPT ![r] = w]
                                  /\ w.kind = "create" => SomeUser
                                  /\ w.kind = "login" /\ w.valid => Exists(w.user)
    <3> DEFINE w == [kind |-> "update", actor |-> sessions[s], user |-> u, patch |-> patch]
    <3>1. requests' = [requests EXCEPT ![r] = w]
      BY <2>4 DEF UpdateBegins, Wait
    <3>2. w \in Waiting
      BY <2>4 DEF UpdateBegins, IsAdmin, Valid, IInv, Tables, Waiting
    <3>3. QED
      BY <3>1, <3>2
  <2>5. QED
    BY <2>1, <2>2, <2>3, <2>4
<1>3. requests' \in [Requests -> Waiting \cup {Idle}] /\ requests'[r] = w
      /\ \A q \in Requests : q # r => requests'[q] = requests[q]
  BY <1>2 DEF IInv, Tables
<1>4. Tables'
  BY <1>1, <1>3 DEF IInv, Tables, Exists
<1>5. w.kind = "login" => w.user \in Users
  BY DEF Waiting
<1>6. QED
  BY <1>1, <1>2, <1>3, <1>4, <1>5, UsersUntouched, Preserved DEF SomeUser, Exists

\* Steps of requests that are done with their hash.
LEMMA EndsHold ==
    ASSUME IInv, NEW r \in Requests,
           BootstrapEnds(r) \/ CreateEnds(r) \/ LoginRefused(r) \/ LoginAccepted(r) \/ UpdateEnds(r)
    PROVE  IInv'
<1>1. requests' = [requests EXCEPT ![r] = Idle]
  BY DEF BootstrapEnds, CreateEnds, LoginRefused, LoginAccepted, UpdateEnds, Done
<1>2. requests' \in [Requests -> Waiting \cup {Idle}] /\ requests'[r] = Idle
      /\ \A q \in Requests : q # r => requests'[q] = requests[q]
  BY <1>1 DEF IInv, Tables
<1>3. Idle.kind # "create" /\ Idle.kind # "login"
  BY DEF Idle
<1>4. requests[r] \in Waiting \cup {Idle}
  BY DEF IInv, Tables
<1>5. SUFFICES Tables' /\ AdminRemains' /\ \A u \in Users : Exists(u) => Exists(u)'
  BY <1>2, <1>3, Preserved
<1>6. CASE BootstrapEnds(r) \/ CreateEnds(r)
  <2>1. PICK u \in Users, role \in Roles, p \in Passwords :
           CreateUser(u, role, p) /\ (SomeUser \/ role = "admin")
    <3>1. CASE BootstrapEnds(r)
      BY <1>4, <3>1, SessionsAssumption DEF BootstrapEnds, Waiting, Idle
    <3>2. CASE CreateEnds(r)
      BY <1>4, <3>2 DEF CreateEnds, Waiting, Idle, IInv, FromUsers
    <3>3. QED
      BY <1>6, <3>1, <3>2
  <2>2. sessions' = sessions
    BY <1>6 DEF BootstrapEnds, CreateEnds
  <2>3. QED
    BY <1>2, <2>1, <2>2, CreatingIsSafe, UsersStay DEF IInv, Tables
<1>7. CASE LoginRefused(r)
  <2>1. users' = users /\ sessions' = sessions
    BY <1>7 DEF LoginRefused
  <2>2. QED
    BY <1>2, <2>1, UsersUntouched DEF IInv, Tables, Exists
<1>8. CASE LoginAccepted(r)
  <2>1. /\ users' = users
        /\ requests[r].user \in Users /\ Exists(requests[r].user)
    BY <1>4, <1>8 DEF LoginAccepted, Waiting, Idle, IInv, FromUsers
  <2>2. \A s \in DOMAIN sessions' :
           sessions'[s] = requests[r].user \/ (s \in DOMAIN sessions /\ sessions'[s] = sessions[s])
    BY <1>8 DEF LoginAccepted
  <2>3. \A s \in DOMAIN sessions' : sessions'[s] \in Users /\ users'[sessions'[s]] # NoUser
    BY <2>1, <2>2 DEF IInv, Tables, Exists
  <2>4. QED
    BY <1>2, <2>1, <2>3, UsersUntouched DEF IInv, Tables, Exists
<1>9. CASE UpdateEnds(r)
  <2>1. PICK actor \in Users, u \in Users, patch \in Patch : UpdateUser(actor, u, patch)
    BY <1>4, <1>9 DEF UpdateEnds, Waiting, Idle
  <2>2. QED
    BY <1>2, <2>1, UpdatingIsSafe, UsersStay DEF IInv, Tables
<1>10. QED
  BY <1>6, <1>7, <1>8, <1>9

LEMMA UpdateHolds ==
    ASSUME IInv, NEW s \in Session, NEW u \in Users, NEW patch \in Patch, UpdateAtOnce(s, u, patch)
    PROVE  IInv'
<1>1. sessions[s] \in Users /\ UpdateUser(sessions[s], u, patch) /\ requests' = requests
  BY DEF UpdateAtOnce, IsAdmin, Valid, IInv, Tables
<1>2. /\ Tables' /\ AdminRemains'
      /\ \A v \in Users : Exists(v) => Exists(v)'
  BY <1>1, UpdatingIsSafe, UsersStay DEF IInv, Tables
<1>3. SomeUser => SomeUser'
  BY <1>2, UsersStay DEF IInv
<1>4. FromUsers'
  <2> SUFFICES ASSUME NEW r \in Requests
               PROVE  /\ requests[r].kind = "create" => SomeUser'
                      /\ requests[r].kind = "login" /\ requests[r].valid => users'[requests[r].user] # NoUser
    BY <1>1 DEF FromUsers, Exists
  <2>1. requests[r].kind = "login" => requests[r].user \in Users
    BY DEF IInv, Tables, Waiting, Idle
  <2>2. QED
    BY <1>2, <1>3, <2>1 DEF IInv, FromUsers, Exists
<1>5. QED
  BY <1>2, <1>4 DEF IInv

\* Sessions end and streams come and go.
LEMMA OthersHold ==
    ASSUME IInv,
           \/ \E u \in Users : WindowPasses(u)
           \/ \E s \in Session : SessionEnds(s) \/ StreamOpens(s) \/ Revalidate(s) \/ StreamLeaves(s)
           \/ UNCHANGED vars
    PROVE  IInv'
<1>1. users' = users /\ requests' = requests
      /\ \A s \in DOMAIN sessions' : s \in DOMAIN sessions /\ sessions'[s] = sessions[s]
  BY DEF WindowPasses, SessionEnds, Drop, StreamOpens, Revalidate, StreamLeaves, vars
<1>2. QED
  BY <1>1, UsersUntouched DEF IInv, Tables, FromUsers, Exists, SomeUser

LEMMA StepHolds ==
    ASSUME IInv, [Next]_vars
    PROVE  IInv'
BY BeginsHold, EndsHold, UpdateHolds, OthersHold DEF Next, RequestStep

-----------------------------------------------------------------------------
(* The rest of the types *)

Counters ==
    /\ DOMAIN sessions \subseteq Session
    /\ attempts \in [Users -> 0 .. MaxFailures]
    /\ streams \subseteq Session
    /\ issued \in 0 .. MaxSessions
    /\ changes \in 0 .. MaxChanges

\* Requests that begin, and changes of users, take from the bounds only.
LEMMA RequestsKeepCounters ==
    ASSUME IInv, Counters, NEW r \in Requests, RequestStep(r)
    PROVE  Counters'
<1>1. requests[r] \in Waiting \cup {Idle}
  BY DEF IInv, Tables
<1>2. CASE LoginRefused(r)
  <2>1. requests[r].user \in Users
    BY <1>1, <1>2 DEF LoginRefused, Waiting, Idle
  <2>2. attempts' \in [Users -> 0 .. MaxFailures]
    BY <1>2, <2>1, SessionsAssumption DEF LoginRefused, Counters
  <2>3. QED
    BY <1>2, <2>2 DEF LoginRefused, Counters
<1>3. CASE LoginAccepted(r)
  <2>1. requests[r].user \in Users
    BY <1>1, <1>3 DEF LoginAccepted, Waiting, Idle
  <2>2. issued' \in 1 .. MaxSessions /\ DOMAIN sessions' = DOMAIN sessions \cup {issued'}
    BY <1>3, SessionsAssumption DEF LoginAccepted, Counters
  <2>3. attempts' \in [Users -> 0 .. MaxFailures]
    BY <1>3, <2>1, SessionsAssumption DEF LoginAccepted, Counters
  <2>4. QED
    BY <1>3, <2>2, <2>3 DEF LoginAccepted, Counters, Session
<1>4. CASE UpdateEnds(r)
  <2>1. DOMAIN sessions' \subseteq DOMAIN sessions
    BY <1>4 DEF UpdateEnds, UpdateUser, Drop
  <2>2. QED
    BY <1>4, <2>1 DEF UpdateEnds, Counters
<1>5. CASE BootstrapBegins(r) \/ BootstrapEnds(r) \/ CreateEnds(r)
           \/ \E u \in Users, p \in Passwords : LoginBegins(r, u, p)
  BY <1>5 DEF BootstrapBegins, BootstrapEnds, CreateEnds, LoginBegins, Counters
<1>6. CASE \/ \E s \in Session : CreateBegins(r, s)
           \/ \E s \in Session, u \in Users, patch \in Patch : UpdateBegins(r, s, u, patch)
  <2>1. changes' = changes - 1 /\ changes > 0
        /\ UNCHANGED <<sessions, attempts, streams, issued>>
    BY <1>6 DEF CreateBegins, UpdateBegins, Change
  <2>2. QED
    BY <2>1, SessionsAssumption DEF Counters
<1>7. QED
  BY <1>2, <1>3, <1>4, <1>5, <1>6 DEF RequestStep

LEMMA OthersKeepCounters ==
    ASSUME Counters, [Next]_vars, ~\E r \in Requests : RequestStep(r)
    PROVE  Counters'
<1>1. ASSUME NEW s \in Session, NEW u \in Users, NEW patch \in Patch, UpdateAtOnce(s, u, patch)
      PROVE  Counters'
  <2>1. DOMAIN sessions' \subseteq DOMAIN sessions
    BY <1>1 DEF UpdateAtOnce, UpdateUser, Drop
  <2>2. changes' = changes - 1 /\ changes > 0 /\ UNCHANGED <<attempts, streams, issued>>
    BY <1>1 DEF UpdateAtOnce, Change
  <2>3. QED
    BY <2>1, <2>2, SessionsAssumption DEF Counters
<1>2. ASSUME NEW u \in Users, WindowPasses(u)
      PROVE  Counters'
  BY <1>2, SessionsAssumption DEF WindowPasses, Counters
<1>3. ASSUME NEW s \in Session, SessionEnds(s) \/ StreamOpens(s) \/ Revalidate(s) \/ StreamLeaves(s)
      PROVE  Counters'
  BY <1>3 DEF SessionEnds, Drop, StreamOpens, Revalidate, StreamLeaves, Counters
<1>4. CASE UNCHANGED vars
  BY <1>4 DEF vars, Counters
<1>5. QED
  BY <1>1, <1>2, <1>3, <1>4 DEF Next

\* Users, sessions, attempts and waiting requests are always well-formed, and
\* a session belongs to a user (database.ts, the foreign key of sessions).
THEOREM SessionsTypeCorrect == Spec => []TypeOK
<1>1. Init => IInv /\ Counters
  BY InitHolds, SessionsAssumption DEF Init, Counters
<1>2. IInv /\ Counters /\ [Next]_vars => (IInv /\ Counters)'
  BY StepHolds, RequestsKeepCounters, OthersKeepCounters
<1>3. IInv /\ Counters => TypeOK
  BY DEF IInv, Tables, Counters, TypeOK
<1>4. QED
  BY <1>1, <1>2, <1>3, PTL DEF Spec

-----------------------------------------------------------------------------
\* Once there are users there is an active admin, however many requests that
\* create, demote and disable users overlap (database.ts, updateUser).
THEOREM AdminAlwaysRemains == Spec => []AdminRemains
<1>1. Init => IInv
  BY InitHolds
<1>2. IInv /\ [Next]_vars => IInv'
  BY StepHolds
<1>3. IInv => AdminRemains
  BY DEF IInv
<1>4. QED
  BY <1>1, <1>2, <1>3, PTL DEF Spec
-----------------------------------------------------------------------------
\* What adds a stream, and under which user.
LEMMA OnlyStreamOpensAdds ==
    ASSUME [Next]_vars, streams' \ streams # {}
    PROVE  \E s \in Session : StreamOpens(s)
<1>1. ASSUME NEW r \in Requests, RequestStep(r)
      PROVE  UNCHANGED streams
  BY <1>1 DEF RequestStep, BootstrapBegins, BootstrapEnds, LoginBegins, LoginRefused, LoginAccepted,
     CreateBegins, CreateEnds, UpdateBegins, UpdateEnds
<1>2. ASSUME NEW s \in Session, NEW u \in Users, NEW patch \in Patch, UpdateAtOnce(s, u, patch)
      PROVE  UNCHANGED streams
  BY <1>2 DEF UpdateAtOnce
<1>3. ASSUME NEW u \in Users, WindowPasses(u)
      PROVE  UNCHANGED streams
  BY <1>3 DEF WindowPasses
<1>4. ASSUME NEW s \in Session, SessionEnds(s) \/ Revalidate(s) \/ StreamLeaves(s)
      PROVE  streams' \subseteq streams
  BY <1>4 DEF SessionEnds, Revalidate, StreamLeaves
<1>5. CASE UNCHANGED vars
  BY <1>5 DEF vars
<1>6. QED
  BY <1>1, <1>2, <1>3, <1>4, <1>5 DEF Next

\* A session that a login in flight made after its user was disabled opens
\* nothing: a stream asks for an enabled user when it opens (auth.ts, session).
THEOREM DisabledNeverGetsIn == Spec => DisabledIsOut
<1>1. ASSUME [Next]_vars, NEW s \in streams' \ streams
      PROVE  ~users[sessions[s]].disabled
  <2>1. PICK x \in Session : StreamOpens(x)
    BY <1>1, OnlyStreamOpensAdds
  <2>2. s = x /\ Valid(x)
    BY <1>1, <2>1 DEF StreamOpens
  <2>3. QED
    BY <2>2 DEF Valid
<1>2. [Next]_vars => [\A s \in streams' \ streams : ~users[sessions[s]].disabled]_vars
  BY <1>1
<1>3. QED
  BY <1>2, PTL DEF Spec, DisabledIsOut
=============================================================================
