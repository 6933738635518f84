----------------------------- MODULE AmiClient -----------------------------
(***************************************************************************)
(* asterisk/amiClient.ts: one TCP connection to the Asterisk manager       *)
(* interface.  Actions are numbered; each waits in "pending" for its       *)
(* response or, if it asks for a list, for the event that completes the    *)
(* list; a timer, an error, the end of the connection or disconnect settle *)
(* it otherwise.  Asterisk answers in one stream, when and if it wants.    *)
(***************************************************************************)
EXTENDS Naturals, Sequences, FiniteSets, SequencesExt

CONSTANTS
    Actions,     \* actions besides the login
    Lists,       \* those of them that complete with an event
    Login,       \* the login action of connect
    ListLength   \* bound: entries Asterisk lists

ASSUME ClientAssumption ==
    /\ Lists \subseteq Actions
    /\ Login \notin Actions
    /\ ListLength \in Nat

VARIABLES
    socket,    \* life of the socket
    connect,   \* the promise connect returned
    pending,   \* actions waiting for their answer, each with a running timer
    promise,   \* per action, what its caller got
    collected, \* per action, the messages collected for it
    answered,  \* actions Asterisk has answered
    wire       \* messages under way to the client

clientVars == <<socket, connect, pending, promise, collected, answered, wire>>

All == Actions \cup {Login}
Message == [id : All, kind : {"success", "error", "entry", "complete"}]
Waiting == "waiting"

\* Also that a login does not outlive the attempt to connect.
ClientTypeOK ==
    /\ connect # Waiting => Login \notin pending
    /\ socket \in {"none", "open", "closed", "disconnected"}
    /\ connect \in {"none", Waiting, "resolved", "rejected"}
    /\ pending \subseteq All
    /\ promise \in [All -> {"none", Waiting, "resolved", "rejected"}]
    /\ collected \in [All -> Seq(Message)]
    /\ answered \subseteq All
    /\ wire \in Seq(Message)

ClientInit ==
    /\ socket = "none"
    /\ connect = "none"
    /\ pending = {}
    /\ promise = [a \in All |-> "none"]
    /\ collected = [a \in All |-> << >>]
    /\ answered = {}
    /\ wire = << >>

-----------------------------------------------------------------------------
Rejected(as) == [a \in All |-> IF a \in as THEN "rejected" ELSE promise[a]]

\* failAllPending.
\* Mutant: the actions are forgotten, their callers are not told.
ForgetAllPending == pending' = {} /\ UNCHANGED promise
FailAllPending == pending' = {} /\ promise' = Rejected(pending)

\* A refused login, an error and the timer of connect settle it only once.
SettleConnect(how) == connect' = IF connect = Waiting THEN how ELSE connect

\* connect: the socket is made and the login written at once.
Connect ==
    /\ socket = "none"
    /\ socket' = "open"
    /\ connect' = Waiting
    /\ pending' = pending \cup {Login}
    /\ promise' = [promise EXCEPT ![Login] = Waiting]
    /\ UNCHANGED <<collected, answered, wire>>

\* sendAction on a socket; writing to a closed one fails at once.
Send(a) ==
    /\ connect = "resolved"
    /\ promise[a] = "none"
    /\ IF socket = "open"
         THEN pending' = pending \cup {a} /\ promise' = [promise EXCEPT ![a] = Waiting]
         ELSE promise' = [promise EXCEPT ![a] = "rejected"] /\ UNCHANGED pending
    /\ UNCHANGED <<socket, connect, collected, answered, wire>>

\* The timer of an action.
Timeout(a) ==
    /\ a \in pending
    /\ pending' = pending \ {a}
    /\ promise' = [promise EXCEPT ![a] = "rejected"]
    /\ UNCHANGED <<socket, connect, collected, answered, wire>>

\* A login that came to nothing ends the socket and the attempt.
LoginFails ==
    /\ connect = Waiting
    /\ \/ promise[Login] = "rejected"
       \/ promise[Login] = "resolved" /\ Head(collected[Login]).kind # "success"
    /\ connect' = "rejected"
    /\ socket' = "closed"
    /\ FailAllPending
    /\ UNCHANGED <<collected, answered, wire>>

LoginSucceeds ==
    /\ connect = Waiting
    /\ socket = "open"
    /\ promise[Login] = "resolved"
    /\ Head(collected[Login]).kind = "success"
    /\ connect' = "resolved"
    /\ UNCHANGED <<socket, pending, promise, collected, answered, wire>>

\* The timer of connect, shorter than that of the login it waits for.
ConnectTimeout ==
    /\ connect = Waiting
    /\ connect' = "rejected"
    /\ socket' = "closed"
    /\ FailAllPending
    /\ UNCHANGED <<collected, answered, wire>>

\* Events "error" and "close" of the socket: the connection is gone.
SocketClosed ==
    /\ socket = "open"
    /\ socket' = "closed"
    /\ SettleConnect("rejected")
    /\ FailAllPending
    /\ UNCHANGED <<collected, answered, wire>>

\* disconnect, called by a failed heartbeat or a failed connect.
Disconnect ==
    /\ socket \in {"open", "closed"}
    /\ connect # Waiting
    /\ socket' = "disconnected"
    /\ FailAllPending
    /\ UNCHANGED <<connect, collected, answered, wire>>

\* Mutant: the response to a list is taken for the list.
CompletesAnyResponse(msg) == msg.kind \in {"success", "error", "complete"}
Completes(msg) ==
    IF msg.id \in Lists THEN msg.kind = "complete" ELSE msg.kind \in {"success", "error"}

\* handleBlock.  A message of an action that is not pending any more is
\* passed to the listeners and dropped.
Receive ==
    /\ socket = "open"
    /\ wire # << >>
    /\ wire' = Tail(wire)
    /\ LET msg == Head(wire) IN
       IF msg.id \in pending
         THEN /\ collected' = [collected EXCEPT ![msg.id] = Append(@, msg)]
              /\ pending' = IF Completes(msg) THEN pending \ {msg.id} ELSE pending
              /\ promise' = IF Completes(msg) THEN [promise EXCEPT ![msg.id] = "resolved"] ELSE promise
         ELSE UNCHANGED <<collected, pending, promise>>
    /\ UNCHANGED <<socket, connect, answered>>

-----------------------------------------------------------------------------
\* Asterisk: a response with success or an error; the entries of a list and
\* their end only after success.  Another answer may get in between.
Respond(a) ==
    /\ promise[a] # "none"
    /\ socket = "open"
    /\ a \notin answered
    /\ answered' = answered \cup {a}
    /\ \/ wire' = Append(wire, [id |-> a, kind |-> "error"])
       \/ a \notin Lists /\ wire' = Append(wire, [id |-> a, kind |-> "success"])
       \/ /\ a \in Lists
          /\ \E n \in 0 .. ListLength :
                wire' = wire \o <<[id |-> a, kind |-> "success"]>>
                             \o [k \in 1 .. n |-> [id |-> a, kind |-> "entry"]]
                             \o <<[id |-> a, kind |-> "complete"]>>
    /\ UNCHANGED <<socket, connect, pending, promise, collected>>

Settle ==
    \/ LoginFails \/ LoginSucceeds \/ ConnectTimeout
    \/ \E a \in All : Timeout(a)

ClientNext ==
    \/ Connect \/ Settle \/ SocketClosed \/ Disconnect \/ Receive
    \/ \E a \in Actions : Send(a)
    \/ \E a \in All : Respond(a)

ClientSpec == ClientInit /\ [][ClientNext]_clientVars

-----------------------------------------------------------------------------
(* Properties *)

\* No caller is forgotten: whoever waits has an entry in "pending", and so a
\* timer, whatever closes, fails or answers late (amiClient.ts, pending).
WaitingIsPending == \A a \in All : promise[a] = Waiting <=> a \in pending

\* A list is handed over whole: its response, its entries, its end, nothing
\* of it twice and nothing from before (getEndpointStatuses, getQueueStatuses).
ListsAreComplete ==
    \A a \in Lists : promise[a] = "resolved" =>
        /\ Head(collected[a]).kind = "success"
        /\ Last(collected[a]).kind = "complete"
        /\ \A k \in 2 .. Len(collected[a]) - 1 : collected[a][k].kind = "entry"
        /\ ~\E k \in DOMAIN wire : wire[k].id = a

\* Once settled, an action keeps its result: late answers and the end of the
\* connection do not change what the caller got.
SettledForGood ==
    [][\A a \in All : promise[a] \in {"resolved", "rejected"} => promise'[a] = promise[a]]_clientVars

=============================================================================
