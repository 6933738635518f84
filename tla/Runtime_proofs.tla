--------------------------- MODULE Runtime_proofs ---------------------------
(***************************************************************************)
(* Proofs about the four components between the backend and Asterisk, for  *)
(* any sets and bounds: the manager connection, the service that keeps one *)
(* open, what it shows, and the handshake with the preflight worker.       *)
(***************************************************************************)
EXTENDS MCRuntime, SequenceTheorems, FiniteSetTheorems, TLAPS

-----------------------------------------------------------------------------
(* The manager connection *)

\* Before connect nothing has been sent.
FreshIsSilent == socket = "none" => connect = "none" /\ promise[Login] = "none"

\* ClientTypeOK without what the proof does not need of the messages.
Types ==
    /\ connect # Waiting => Login \notin pending
    /\ socket \in {"none", "open", "closed", "disconnected"}
    /\ connect \in {"none", Waiting, "resolved", "rejected"}
    /\ pending \subseteq All
    /\ promise \in [All -> {"none", Waiting, "resolved", "rejected"}]

\* A message of an action is one of an action: the wire carries no other ids.
Wired == wire \in Seq(Message) /\ collected \in [All -> Seq(Message)] /\ answered \subseteq All

ClientInv == Types /\ Wired /\ WaitingIsPending /\ FreshIsSilent

-----------------------------------------------------------------------------
LEMMA ClientStart == ClientInit => ClientInv
BY ClientAssumption DEF ClientInit, ClientInv, Types, Wired, WaitingIsPending, FreshIsSilent, All, Waiting

\* Rejecting all that is pending leaves nobody waiting.
LEMMA FailingTellsAll ==
    ASSUME ClientInv, FailAllPending
    PROVE  /\ pending' = {}
           /\ promise' \in [All -> {"none", Waiting, "resolved", "rejected"}]
           /\ \A a \in All : promise'[a] # Waiting
           /\ \A a \in All : a \notin pending => promise'[a] = promise[a]
BY DEF ClientInv, Types, WaitingIsPending, FailAllPending, Rejected, Waiting

LEMMA LoginIsOne == Login \in All /\ \A a \in Actions : a \in All /\ a # Login
BY ClientAssumption DEF All

LEMMA ClientInvariance ==
    ASSUME ClientInv, [ClientNext]_clientVars
    PROVE  ClientInv'
<1> USE DEF Waiting
<1>1. CASE Connect
  <2>1. Login \in All /\ Login \notin pending
    BY LoginIsOne, <1>1 DEF ClientInv, Types, Connect, FreshIsSilent
  <2>2. promise' = [promise EXCEPT ![Login] = "waiting"] /\ pending' = pending \cup {Login}
        /\ connect' = "waiting" /\ socket' = "open"
    BY <1>1 DEF Connect
  <2>3. Wired'
    BY <1>1 DEF ClientInv, Wired, Connect
  <2>4. QED
    BY <2>1, <2>2, <2>3 DEF ClientInv, Types, WaitingIsPending, FreshIsSilent
<1>2. ASSUME NEW a \in Actions, Send(a)
      PROVE  ClientInv'
  <2>1. a \in All /\ a # Login
    BY LoginIsOne
  <2>2. Wired'
    BY <1>2 DEF ClientInv, Wired, Send
  <2>3. QED
    BY <1>2, <2>1, <2>2, LoginIsOne DEF ClientInv, Types, WaitingIsPending, FreshIsSilent, Send
<1>3. ASSUME NEW a \in All, Timeout(a)
      PROVE  ClientInv'
  <2>1. Wired'
    BY <1>3 DEF ClientInv, Wired, Timeout
  <2>2. FreshIsSilent'
    BY <1>3, LoginIsOne DEF ClientInv, FreshIsSilent, Timeout, WaitingIsPending
  <2>3. QED
    BY <1>3, <2>1, <2>2 DEF ClientInv, Types, WaitingIsPending, Timeout
<1>4. CASE LoginFails \/ ConnectTimeout \/ SocketClosed \/ Disconnect
  <2>1. FailAllPending /\ socket' # "none" /\ socket' \in {"closed", "disconnected"}
        /\ connect' \in {"none", "waiting", "resolved", "rejected"}
        /\ UNCHANGED <<collected, answered, wire>>
    BY <1>4 DEF ClientInv, Types, LoginFails, ConnectTimeout, SocketClosed, SettleConnect, Disconnect
  <2>2. Wired'
    BY <2>1 DEF ClientInv, Wired
  <2>3. QED
    BY <2>1, <2>2, FailingTellsAll DEF ClientInv, Types, WaitingIsPending, FreshIsSilent
<1>5. CASE LoginSucceeds
  <2>1. Login \notin pending
    BY <1>5, LoginIsOne DEF ClientInv, WaitingIsPending, LoginSucceeds
  <2>2. Wired'
    BY <1>5 DEF ClientInv, Wired, LoginSucceeds
  <2>3. QED
    BY <1>5, <2>1, <2>2 DEF ClientInv, Types, WaitingIsPending, FreshIsSilent, LoginSucceeds
<1>6. CASE Receive
  <2> DEFINE msg == Head(wire)
  <2>1. msg \in Message /\ msg.id \in All /\ wire' \in Seq(Message)
    <3>1. wire \in Seq(Message) /\ wire # << >> /\ wire' = Tail(wire)
      BY <1>6 DEF ClientInv, Wired, Receive
    <3>2. msg \in Message /\ Tail(wire) \in Seq(Message)
      BY <3>1
    <3>3. QED
      BY <3>1, <3>2 DEF Message
  <2>2. Wired'
    <3>1. CASE msg.id \in pending
      <4>1. collected' = [collected EXCEPT ![msg.id] = Append(@, msg)] /\ answered' = answered
        BY <1>6, <3>1 DEF Receive
      <4>2. Append(collected[msg.id], msg) \in Seq(Message)
        BY <2>1 DEF ClientInv, Wired
      <4>3. QED
        BY <2>1, <4>1, <4>2 DEF ClientInv, Wired
    <3>2. CASE msg.id \notin pending
      BY <1>6, <2>1, <3>2 DEF ClientInv, Wired, Receive
    <3>3. QED
      BY <3>1, <3>2
  <2>3. socket' = socket /\ connect' = connect /\ socket # "none"
    BY <1>6 DEF Receive
  <2>4. CASE msg.id \in pending /\ Completes(msg)
    <3>1. pending' = pending \ {msg.id} /\ promise' = [promise EXCEPT ![msg.id] = "resolved"]
      BY <1>6, <2>4 DEF Receive
    <3>2. QED
      BY <2>1, <2>2, <2>3, <3>1 DEF ClientInv, Types, WaitingIsPending, FreshIsSilent
  <2>5. CASE ~(msg.id \in pending /\ Completes(msg))
    <3>1. pending' = pending /\ promise' = promise
      BY <1>6, <2>5 DEF Receive
    <3>2. QED
      BY <2>2, <2>3, <3>1 DEF ClientInv, Types, WaitingIsPending, FreshIsSilent
  <2>6. QED
    BY <2>4, <2>5
<1>7. ASSUME NEW a \in All, Respond(a)
      PROVE  ClientInv'
  <2>1. wire' \in Seq(Message)
    <3>1. ASSUME NEW n \in 0 .. ListLength
          PROVE  wire \o <<[id |-> a, kind |-> "success"]>>
                      \o [k \in 1 .. n |-> [id |-> a, kind |-> "entry"]]
                      \o <<[id |-> a, kind |-> "complete"]>> \in Seq(Message)
      <4>1. n \in Nat
        BY ClientAssumption
      <4>2. [id |-> a, kind |-> "success"] \in Message /\ [id |-> a, kind |-> "complete"] \in Message
            /\ [k \in 1 .. n |-> [id |-> a, kind |-> "entry"]] \in Seq(Message)
        BY <4>1 DEF Message
      <4>3. wire \o <<[id |-> a, kind |-> "success"]>> \in Seq(Message)
        BY <4>2 DEF ClientInv, Wired
      <4>4. wire \o <<[id |-> a, kind |-> "success"]>>
                 \o [k \in 1 .. n |-> [id |-> a, kind |-> "entry"]] \in Seq(Message)
        BY <4>2, <4>3
      <4>5. <<[id |-> a, kind |-> "complete"]>> \in Seq(Message)
        BY <4>2
      <4>6. QED
        BY <4>4, <4>5
    <3>2. [id |-> a, kind |-> "error"] \in Message /\ [id |-> a, kind |-> "success"] \in Message
      BY DEF Message
    <3>3. CASE wire' = Append(wire, [id |-> a, kind |-> "error"])
      BY <3>2, <3>3 DEF ClientInv, Wired
    <3>4. CASE wire' = Append(wire, [id |-> a, kind |-> "success"])
      BY <3>2, <3>4 DEF ClientInv, Wired
    <3>5. CASE \E n \in 0 .. ListLength :
                  wire' = wire \o <<[id |-> a, kind |-> "success"]>>
                               \o [k \in 1 .. n |-> [id |-> a, kind |-> "entry"]]
                               \o <<[id |-> a, kind |-> "complete"]>>
      BY <3>1, <3>5
    <3>6. QED
      BY <1>7, <3>3, <3>4, <3>5, Zenon DEF Respond
  <2>2. UNCHANGED <<socket, connect, pending, promise, collected>> /\ answered' = answered \cup {a}
    BY <1>7 DEF Respond
  <2>3. QED
    BY <2>1, <2>2 DEF ClientInv, Types, Wired, WaitingIsPending, FreshIsSilent
<1>8. CASE UNCHANGED clientVars
  BY <1>8 DEF ClientInv, Types, Wired, WaitingIsPending, FreshIsSilent, clientVars
<1>9. QED
  BY <1>1, <1>2, <1>3, <1>4, <1>5, <1>6, <1>7, <1>8 DEF ClientNext, Settle

LEMMA ClientInvariant == ClientSpec => []ClientInv
<1>1. ClientInit => ClientInv
  BY ClientStart
<1>2. ClientInv /\ [ClientNext]_clientVars => ClientInv'
  BY ClientInvariance
<1>3. QED
  BY <1>1, <1>2, PTL DEF ClientSpec

-----------------------------------------------------------------------------
\* The parts of the client have their types, and a login does not outlive
\* the attempt to connect it belongs to (amiClient.ts, connect).
THEOREM ClientTypeCorrect == ClientSpec => []ClientTypeOK
<1>1. ClientInv => ClientTypeOK
  BY DEF ClientInv, Types, Wired, ClientTypeOK
<1>2. QED
  BY <1>1, ClientInvariant, PTL

\* Whoever waits for an action has an entry in "pending" with a running
\* timer, and nobody else has: no caller is forgotten, no timer is left over
\* (amiClient.ts, pending and failAllPending).
THEOREM NobodyForgotten == ClientSpec => []WaitingIsPending
<1>1. ClientInv => WaitingIsPending
  BY DEF ClientInv
<1>2. QED
  BY <1>1, ClientInvariant, PTL

\* One step does not change a result (amiClient.ts, handleBlock: an id that
\* is not pending is ignored).
LEMMA ResultIsFinal ==
    ASSUME ClientInv, [ClientNext]_clientVars
    PROVE  [\A a \in All : promise[a] \in {"resolved", "rejected"} => promise'[a] = promise[a]]_clientVars
<1> SUFFICES ASSUME NEW a \in All, promise[a] \in {"resolved", "rejected"}
             PROVE  promise'[a] = promise[a]
  OBVIOUS
<1> USE DEF Waiting
<1>0. a \notin pending
  BY DEF ClientInv, WaitingIsPending
<1>1. CASE Connect
  BY <1>1, LoginIsOne DEF ClientInv, Types, FreshIsSilent, Connect
<1>2. ASSUME NEW b \in Actions, Send(b)
      PROVE  promise'[a] = promise[a]
  BY <1>2, LoginIsOne DEF ClientInv, Types, Send
<1>3. ASSUME NEW b \in All, Timeout(b)
      PROVE  promise'[a] = promise[a]
  BY <1>0, <1>3 DEF ClientInv, Types, Timeout
<1>4. CASE LoginFails \/ ConnectTimeout \/ SocketClosed \/ Disconnect
  <2>1. FailAllPending
    BY <1>4 DEF LoginFails, ConnectTimeout, SocketClosed, Disconnect
  <2>2. QED
    BY <1>0, <2>1, FailingTellsAll
<1>5. CASE LoginSucceeds
  BY <1>5 DEF LoginSucceeds
<1>6. CASE Receive
  BY <1>0, <1>6 DEF Receive, ClientInv, Types
<1>7. ASSUME NEW b \in All, Respond(b)
      PROVE  promise'[a] = promise[a]
  BY <1>7 DEF Respond
<1>8. CASE UNCHANGED clientVars
  BY <1>8 DEF clientVars
<1>9. QED
  BY <1>1, <1>2, <1>3, <1>4, <1>5, <1>6, <1>7, <1>8 DEF ClientNext, Settle

\* What the caller of an action got stays: late answers, timers and the end
\* of the connection settle nothing twice (amiClient.ts, handleBlock).
THEOREM ResultsAreFinal == ClientSpec => SettledForGood
<1>1. ClientInv /\ [ClientNext]_clientVars
        => [\A a \in All : promise[a] \in {"resolved", "rejected"} => promise'[a] = promise[a]]_clientVars
  BY ResultIsFinal
<1>2. QED
  BY <1>1, ClientInvariant, PTL DEF ClientSpec, SettledForGood

-----------------------------------------------------------------------------
(* The messages of a list *)

Silent(a) == \A k \in DOMAIN wire : wire[k].id # a

\* The answer to an action is one response, or a response, entries and their
\* end, and it comes once: what has been collected for a list whose caller
\* waits is the beginning of the answer and what is under way is the rest.
InOrder(a) ==
    /\ promise[a] = "none" => a \notin answered
    /\ a \notin answered => Silent(a) /\ collected[a] = << >>
    /\ \A j, k \in DOMAIN wire :
         j < k /\ wire[j].id = a /\ wire[k].id = a =>
            wire[j].kind \in {"success", "entry"} /\ wire[k].kind \in {"entry", "complete"}
    /\ a \in pending /\ collected[a] = << >> =>
         \A k \in DOMAIN wire :
            wire[k].id = a /\ wire[k].kind \notin {"success", "error"} =>
                \E j \in DOMAIN wire : j < k /\ wire[j].id = a
    /\ a \in pending /\ collected[a] # << >> =>
         /\ \A i \in 2 .. Len(collected[a]) : collected[a][i].kind = "entry"
         /\ \A k \in DOMAIN wire : wire[k].id = a => wire[k].kind \in {"entry", "complete"}
         /\ \/ collected[a][1].kind = "success"
            \/ collected[a][1].kind = "error" /\ Silent(a)

\* ListsAreComplete of one list.
Complete(a) ==
    promise[a] = "resolved" =>
        /\ Len(collected[a]) \in Nat \ {0}
        /\ collected[a][1].kind = "success"
        /\ collected[a][Len(collected[a])].kind = "complete"
        /\ \A i \in 2 .. Len(collected[a]) - 1 : collected[a][i].kind = "entry"
        /\ Silent(a) /\ a \in answered

ListsInv == ClientInv /\ \A a \in Lists : InOrder(a) /\ Complete(a)

LEMMA ListsAreActions == \A a \in Lists : a \in All /\ a # Login /\ Login \in All
BY ClientAssumption DEF All

\* A step that moves no message leaves the lists as they are, settles none of
\* them well and takes up only those not yet answered.
LEMMA NoMessageMoves ==
    ASSUME ListsInv, NEW a \in Lists, UNCHANGED <<wire, collected, answered>>,
           promise'[a] = "resolved" => promise[a] = "resolved",
           promise'[a] = "none" => promise[a] = "none",
           a \in pending' /\ a \notin pending => promise[a] = "none"
    PROVE  InOrder(a)' /\ Complete(a)'
<1>1. InOrder(a)'
    BY DEF ListsInv, InOrder, Silent
<1>2. Complete(a)'
    BY DEF ListsInv, Complete, Silent
<1> QED BY <1>1, <1>2

\* The client takes the next message, of this list or of another action.
LEMMA MessageTaken ==
    ASSUME ListsInv, NEW a \in Lists, Receive
    PROVE  InOrder(a)' /\ Complete(a)'
<1> DEFINE msg == Head(wire)
<1>0. /\ wire \in Seq(Message) /\ collected \in [All -> Seq(Message)] /\ a \in All
      /\ promise \in [All -> {"none", Waiting, "resolved", "rejected"}]
      /\ a \in pending => promise[a] = Waiting
    BY ListsAreActions DEF ListsInv, ClientInv, Types, Wired, WaitingIsPending
<1>1. /\ wire # << >> /\ wire' = Tail(wire) /\ answered' = answered
      /\ IF msg.id \in pending
           THEN /\ collected' = [collected EXCEPT ![msg.id] = Append(@, msg)]
                /\ pending' = IF Completes(msg) THEN pending \ {msg.id} ELSE pending
                /\ promise' = IF Completes(msg) THEN [promise EXCEPT ![msg.id] = "resolved"]
                              ELSE promise
           ELSE UNCHANGED <<collected, pending, promise>>
    BY DEF Receive
<1>2. /\ 1 \in DOMAIN wire /\ wire[1] = msg
      /\ \A k \in DOMAIN wire' : k + 1 \in DOMAIN wire /\ wire'[k] = wire[k + 1] /\ 1 < k + 1
      /\ \A k \in DOMAIN wire : k # 1 => k - 1 \in DOMAIN wire' /\ wire'[k - 1] = wire[k]
    BY <1>0, <1>1
<1>3. InOrder(a) /\ Complete(a)
    BY DEF ListsInv
<1>4. \A j, k \in DOMAIN wire' :
         j < k /\ wire'[j].id = a /\ wire'[k].id = a =>
            wire'[j].kind \in {"success", "entry"} /\ wire'[k].kind \in {"entry", "complete"}
    <2>1. ASSUME NEW j \in DOMAIN wire', NEW k \in DOMAIN wire', j < k
          PROVE  j + 1 < k + 1
      BY <1>0, <1>1, <2>1
    <2> QED BY <1>2, <1>3, <2>1 DEF InOrder
<1>5. Silent(a) => Silent(a)'
    BY <1>2 DEF Silent
<1>6. CASE msg.id # a \/ a \notin pending
  <2>1. /\ collected'[a] = collected[a] /\ promise'[a] = promise[a]
        /\ a \in pending' <=> a \in pending
    BY <1>0, <1>1, <1>6
  <2>2. ASSUME NEW k \in DOMAIN wire', a \in pending, collected[a] = << >>,
               wire'[k].id = a, wire'[k].kind \notin {"success", "error"}
        PROVE  \E j \in DOMAIN wire' : j < k /\ wire'[j].id = a
    <3>1. PICK j \in DOMAIN wire : j < k + 1 /\ wire[j].id = a
      BY <1>2, <1>3, <2>2 DEF InOrder
    <3>2. j # 1
      BY <1>2, <1>6, <2>2, <3>1
    <3>3. j - 1 \in DOMAIN wire' /\ wire'[j - 1].id = a /\ j - 1 < k
      BY <1>0, <1>1, <1>2, <3>1, <3>2
    <3> QED BY <3>3
  <2>3. InOrder(a)'
    BY <1>1, <1>2, <1>3, <1>4, <1>5, <2>1, <2>2 DEF InOrder
  <2>4. Complete(a)'
    BY <1>1, <1>3, <1>5, <2>1 DEF Complete
  <2> QED BY <2>3, <2>4
<1>7. CASE msg.id = a /\ a \in pending
  <2> DEFINE had == collected[a]
  <2>1. /\ collected'[a] = Append(had, msg) /\ had \in Seq(Message)
        /\ Completes(msg) <=> msg.kind = "complete"
        /\ promise[a] = Waiting
    BY <1>0, <1>1, <1>7 DEF Completes
  <2>2. /\ Len(had) \in Nat /\ Len(collected'[a]) = Len(had) + 1
        /\ \A i \in 1 .. Len(had) : collected'[a][i] = had[i]
        /\ collected'[a][Len(had) + 1] = msg
        /\ had = << >> <=> Len(had) = 0
    BY <1>0, <2>1
  <2>3. a \in answered
    BY <1>2, <1>3, <1>7 DEF InOrder, Silent
  <2>4. \A k \in DOMAIN wire' : wire'[k].id = a =>
           msg.kind \in {"success", "entry"} /\ wire'[k].kind \in {"entry", "complete"}
    BY <1>2, <1>3, <1>7 DEF InOrder
  <2>5. had = << >> => msg.kind \in {"success", "error"}
    BY <1>0, <1>1, <1>2, <1>3, <1>7 DEF InOrder
  <2>6. had # << >> => /\ msg.kind \in {"entry", "complete"} /\ had[1].kind = "success"
                       /\ \A i \in 2 .. Len(had) : had[i].kind = "entry"
    BY <1>2, <1>3, <1>7 DEF InOrder, Silent
  <2>7. /\ collected'[a][1].kind \in {"success", "error"}
        /\ collected'[a][1].kind = "error" => had = << >> /\ msg.kind = "error"
        /\ \A i \in 2 .. Len(had) : collected'[a][i].kind = "entry"
    BY <2>2, <2>5, <2>6
  <2>8. CASE msg.kind = "complete"
    <3>1. promise'[a] = "resolved" /\ a \notin pending'
      BY <1>0, <1>1, <1>7, <2>1, <2>8
    <3>2. Silent(a)'
      BY <2>4, <2>8 DEF Silent
    <3>3. InOrder(a)'
      BY <1>1, <1>4, <2>3, <3>1 DEF InOrder
    <3>4. Complete(a)'
      BY <1>1, <2>2, <2>3, <2>5, <2>6, <2>7, <2>8, <3>2 DEF Complete
    <3> QED BY <3>3, <3>4
  <2>9. CASE msg.kind # "complete"
    <3>1. promise'[a] = Waiting /\ a \in pending'
      BY <1>0, <1>1, <1>7, <2>1, <2>9
    <3>2. collected'[a] # << >>
      BY <2>1
    <3>3. \A i \in 2 .. Len(collected'[a]) : collected'[a][i].kind = "entry"
      BY <2>2, <2>5, <2>6, <2>7, <2>9
    <3>4. msg.kind = "error" => Silent(a)'
      BY <2>4 DEF Silent
    <3>5. InOrder(a)'
      BY <1>1, <1>4, <2>3, <2>4, <2>7, <3>1, <3>2, <3>3, <3>4 DEF InOrder, Waiting
    <3> QED BY <3>1, <3>5 DEF Complete, Waiting
  <2> QED BY <2>8, <2>9
<1> QED BY <1>6, <1>7

\* One sequence after another.
LEMMA Joined ==
    ASSUME NEW S, NEW s \in Seq(S), NEW t \in Seq(S)
    PROVE  /\ s \o t \in Seq(S)
           /\ Len(s \o t) = Len(s) + Len(t)
           /\ \A i \in 1 .. Len(s) : (s \o t)[i] = s[i]
           /\ \A i \in 1 .. Len(t) : (s \o t)[Len(s) + i] = t[i]
<1>1. /\ Len(s) \in Nat /\ Len(t) \in Nat
      /\ s \o t \in Seq(S) /\ Len(s \o t) = Len(s) + Len(t)
      /\ \A i \in 1 .. Len(s) + Len(t) : (s \o t)[i] =
             IF i <= Len(s) THEN s[i] ELSE t[i - Len(s)]
    BY ConcatProperties
<1>2. ASSUME NEW i \in 1 .. Len(s) PROVE (s \o t)[i] = s[i]
    BY <1>1, <1>2
<1>3. ASSUME NEW i \in 1 .. Len(t) PROVE (s \o t)[Len(s) + i] = t[i]
  <2>1. Len(s) + i \in 1 .. Len(s) + Len(t) /\ ~(Len(s) + i <= Len(s)) /\ (Len(s) + i) - Len(s) = i
    BY <1>1, <1>3
  <2> QED BY <1>1, <2>1
<1> QED BY <1>1, <1>2, <1>3

\* Asterisk answers, and nothing of this answer has been there before.
LEMMA AnswerComes ==
    ASSUME ListsInv, NEW a \in Lists, NEW b \in All, Respond(b)
    PROVE  InOrder(a)' /\ Complete(a)'
<1>0. /\ wire \in Seq(Message) /\ a \in All /\ InOrder(a) /\ Complete(a)
      /\ b \notin answered /\ answered' = answered \cup {b} /\ promise[b] # "none"
      /\ UNCHANGED <<pending, promise, collected>>
    BY ListsAreActions DEF ListsInv, ClientInv, Wired, Respond
<1>1. PICK s \in Seq(Message) :
        /\ wire' = wire \o s
        /\ \A i \in 1 .. Len(s) : s[i].id = b
        /\ b \in Lists => /\ \A i \in 1 .. Len(s) : i > 1 => s[i].kind \in {"entry", "complete"}
                          /\ \A i \in 1 .. Len(s) : i < Len(s) => s[i].kind \in {"success", "entry"}
                          /\ Len(s) > 0 /\ s[1].kind \in {"success", "error"}
  <2>1. CASE wire' = Append(wire, [id |-> b, kind |-> "error"])
    <3> DEFINE m == [id |-> b, kind |-> "error"]
    <3>1. m \in Message /\ m.id = b /\ m.kind = "error"
      BY DEF Message
    <3> HIDE DEF m
    <3>2. <<m>> \in Seq(Message) /\ Len(<<m>>) = 1 /\ <<m>>[1] = m
      BY <3>1
    <3>3. wire' = wire \o <<m>>
      BY <1>0, <2>1, <3>1 DEF m
    <3>4. \A i \in 1 .. Len(<<m>>) : <<m>>[i] = m /\ i = 1
      BY <3>2
    <3>5. /\ \A i \in 1 .. Len(<<m>>) : <<m>>[i].id = b
          /\ \A i \in 1 .. Len(<<m>>) : i > 1 => <<m>>[i].kind \in {"entry", "complete"}
          /\ \A i \in 1 .. Len(<<m>>) : i < Len(<<m>>) => <<m>>[i].kind \in {"success", "entry"}
          /\ Len(<<m>>) > 0 /\ <<m>>[1].kind \in {"success", "error"}
      BY <3>1, <3>2, <3>4
    <3> QED BY <3>2, <3>3, <3>5
  <2>2. CASE b \notin Lists /\ wire' = Append(wire, [id |-> b, kind |-> "success"])
    <3> DEFINE m == [id |-> b, kind |-> "success"]
    <3>1. m \in Message /\ m.id = b /\ m.kind = "success"
      BY DEF Message
    <3> HIDE DEF m
    <3>2. <<m>> \in Seq(Message) /\ Len(<<m>>) = 1 /\ <<m>>[1] = m
      BY <3>1
    <3>3. wire' = wire \o <<m>>
      BY <1>0, <2>2, <3>1 DEF m
    <3>4. \A i \in 1 .. Len(<<m>>) : <<m>>[i] = m /\ i = 1
      BY <3>2
    <3> QED BY <2>2, <3>1, <3>2, <3>3, <3>4
  <2>3. ASSUME NEW n \in 0 .. ListLength,
               wire' = wire \o <<[id |-> b, kind |-> "success"]>>
                            \o [k \in 1 .. n |-> [id |-> b, kind |-> "entry"]]
                            \o <<[id |-> b, kind |-> "complete"]>>
        PROVE  \E s \in Seq(Message) :
                 /\ wire' = wire \o s
                 /\ \A i \in 1 .. Len(s) : s[i].id = b
                 /\ \A i \in 1 .. Len(s) : i > 1 => s[i].kind \in {"entry", "complete"}
                 /\ \A i \in 1 .. Len(s) : i < Len(s) => s[i].kind \in {"success", "entry"}
                 /\ Len(s) > 0 /\ s[1].kind \in {"success", "error"}
    <3> DEFINE first == <<[id |-> b, kind |-> "success"]>>
               rows == [k \in 1 .. n |-> [id |-> b, kind |-> "entry"]]
               end == <<[id |-> b, kind |-> "complete"]>>
               ans == first \o rows \o end
    <3>1. n \in Nat
      BY ClientAssumption
    <3>2. first \in Seq(Message) /\ rows \in Seq(Message) /\ end \in Seq(Message)
      BY <3>1 DEF Message
    <3>3. /\ Len(first) = 1 /\ first[1] = [id |-> b, kind |-> "success"]
          /\ Len(rows) = n /\ \A i \in 1 .. n : rows[i] = [id |-> b, kind |-> "entry"]
          /\ Len(end) = 1 /\ end[1] = [id |-> b, kind |-> "complete"]
      BY <3>1
    <3> HIDE DEF first, rows, end
    <3>4. PICK f \in Seq(Message) : f = first \o rows
      BY <3>2, Joined
    <3>5. /\ Len(f) = 1 + n /\ f[1] = first[1]
          /\ \A i \in 1 .. n : f[1 + i] = rows[i]
      <4>1. /\ Len(first \o rows) = Len(first) + Len(rows)
            /\ \A i \in 1 .. Len(first) : (first \o rows)[i] = first[i]
            /\ \A i \in 1 .. Len(rows) : (first \o rows)[Len(first) + i] = rows[i]
        BY <3>2, Joined
      <4> QED BY <3>1, <3>3, <3>4, <4>1
    <3>6. /\ ans \in Seq(Message) /\ Len(ans) = n + 2 /\ ans[n + 2] = end[1]
          /\ \A i \in 1 .. 1 + n : ans[i] = f[i]
      <4>1. /\ f \o end \in Seq(Message) /\ Len(f \o end) = Len(f) + Len(end)
            /\ \A i \in 1 .. Len(f) : (f \o end)[i] = f[i]
            /\ \A i \in 1 .. Len(end) : (f \o end)[Len(f) + i] = end[i]
        BY <3>2, <3>4, Joined
      <4>2. 1 \in 1 .. Len(end) /\ Len(f) + 1 = n + 2 /\ Len(f) + Len(end) = n + 2
        BY <3>1, <3>3, <3>5
      <4>3. (f \o end)[n + 2] = end[1]
        BY <4>1, <4>2
      <4> QED BY <3>4, <3>5, <4>1, <4>2, <4>3
    <3>7. /\ ans[1] = [id |-> b, kind |-> "success"]
          /\ \A i \in 2 .. n + 1 : ans[i] = [id |-> b, kind |-> "entry"]
          /\ ans[n + 2] = [id |-> b, kind |-> "complete"]
      <4>1. ans[1] = first[1]
        BY <3>1, <3>5, <3>6, SMTT(30)
      <4>2. ASSUME NEW i \in 2 .. n + 1 PROVE ans[i] = [id |-> b, kind |-> "entry"]
        <5>1. i \in 1 .. 1 + n /\ i - 1 \in 1 .. n /\ 1 + (i - 1) = i
          BY <3>1
        <5>2. f[1 + (i - 1)] = rows[i - 1]
          BY <3>5, <5>1
        <5> QED BY <3>3, <3>6, <5>1, <5>2
      <4> QED BY <3>3, <3>6, <4>1, <4>2
    <3>8. wire' = wire \o ans
      <4>1. wire' = ((wire \o first) \o rows) \o end
        BY <2>3 DEF first, rows, end
      <4>0. wire \in Seq(Message)
        BY <1>0
      <4>2. (wire \o first) \o rows = wire \o f
        <5>1. (wire \o first) \o rows = wire \o (first \o rows)
          BY <3>2, <4>0, SMTT(30)
        <5> QED BY <3>4, <5>1, Zenon
      <4>3. (wire \o f) \o end = wire \o (f \o end)
        BY <3>2, <4>0, SMTT(30)
      <4>4. ans = f \o end
        BY <3>4, Zenon
      <4> QED BY <4>1, <4>2, <4>3, <4>4, Zenon
    <3> HIDE DEF ans
    <3>9. \A i \in 1 .. Len(ans) : /\ i = 1 \/ i \in 2 .. n + 1 \/ i = n + 2
                                   /\ i > 1 => i # 1
                                   /\ i < Len(ans) => i # n + 2
      BY <3>1, <3>6
    <3>10. \A i \in 1 .. Len(ans) : /\ ans[i].id = b
                                    /\ i > 1 => ans[i].kind \in {"entry", "complete"}
                                    /\ i < Len(ans) => ans[i].kind \in {"success", "entry"}
      BY <3>7, <3>9
    <3>11. Len(ans) > 0 /\ ans[1].kind \in {"success", "error"}
      BY <3>1, <3>6, <3>7
    <3>12. /\ \A i \in 1 .. Len(ans) : ans[i].id = b
           /\ \A i \in 1 .. Len(ans) : i > 1 => ans[i].kind \in {"entry", "complete"}
           /\ \A i \in 1 .. Len(ans) : i < Len(ans) => ans[i].kind \in {"success", "entry"}
      BY <3>10
    <3>13. ans \in Seq(Message)
      BY <3>6
    <3> WITNESS ans \in Seq(Message)
    <3> QED BY <3>8, <3>11, <3>12
  <2> QED BY <2>1, <2>2, <2>3 DEF Respond
<1>2. /\ Len(wire) \in Nat /\ Len(s) \in Nat
      /\ \A k \in DOMAIN wire : k \in DOMAIN wire' /\ wire'[k] = wire[k] /\ k <= Len(wire)
      /\ \A k \in DOMAIN wire' : k \in DOMAIN wire \/ k - Len(wire) \in 1 .. Len(s)
      /\ \A k \in DOMAIN wire' : k - Len(wire) \in 1 .. Len(s) => wire'[k] = s[k - Len(wire)]
      /\ DOMAIN wire = 1 .. Len(wire) /\ DOMAIN wire' = 1 .. Len(wire) + Len(s)
    BY <1>0, <1>1
<1>3. CASE b # a
  <2>1. \A k \in DOMAIN wire' : wire'[k].id = a => k \in DOMAIN wire /\ wire'[k] = wire[k]
    BY <1>1, <1>2, <1>3
  <2>2. Silent(a) => Silent(a)'
    BY <2>1 DEF Silent
  <2>3. InOrder(a)'
    BY <1>0, <1>2, <1>3, <2>1, <2>2 DEF InOrder
  <2>4. Complete(a)'
    BY <1>0, <2>2 DEF Complete
  <2> QED BY <2>3, <2>4
<1>4. CASE b = a
  <2>1. Silent(a) /\ collected[a] = << >>
    BY <1>0, <1>4 DEF InOrder
  <2>2. \A k \in DOMAIN wire' : wire'[k].id = a =>
           /\ k - Len(wire) \in 1 .. Len(s) /\ wire'[k] = s[k - Len(wire)]
    BY <1>2, <2>1 DEF Silent
  <2>3. ASSUME NEW k \in DOMAIN wire', wire'[k].id = a, wire'[k].kind \notin {"success", "error"}
        PROVE  \E j \in DOMAIN wire' : j < k /\ wire'[j].id = a
    <3>1. k - Len(wire) # 1
      BY <1>1, <1>4, <2>2, <2>3
    <3>2. Len(wire) + 1 < k /\ Len(wire) + 1 \in DOMAIN wire'
      BY <1>2, <2>2, <2>3, <3>1
    <3>3. wire'[Len(wire) + 1].id = a
      BY <1>1, <1>2, <1>4, <3>2
    <3> QED BY <3>2, <3>3
  <2>4. \A j, k \in DOMAIN wire' :
           j < k /\ wire'[j].id = a /\ wire'[k].id = a =>
              wire'[j].kind \in {"success", "entry"} /\ wire'[k].kind \in {"entry", "complete"}
    <3>1. ASSUME NEW j \in DOMAIN wire', NEW k \in DOMAIN wire', j < k,
                 wire'[j].id = a, wire'[k].id = a
          PROVE  k - Len(wire) > 1 /\ j - Len(wire) < Len(s)
      BY <1>2, <2>2, <3>1
    <3> QED BY <1>1, <1>4, <2>2, <3>1, SMTT(30)
  <2>5. InOrder(a)'
    BY <1>0, <1>4, <2>1, <2>3, <2>4 DEF InOrder
  <2>6. promise'[a] # "resolved"
    BY <1>0, <1>4 DEF Complete
  <2> QED BY <2>5, <2>6 DEF Complete
<1> QED BY <1>3, <1>4

LEMMA ListsStep == ListsInv /\ [ClientNext]_clientVars => ListsInv'
<1> SUFFICES ASSUME ListsInv, [ClientNext]_clientVars, NEW a \in Lists
             PROVE  InOrder(a)' /\ Complete(a)'
    BY ClientInvariance DEF ListsInv
<1>0. /\ a \in All /\ a # Login /\ Login \in All
      /\ promise \in [All -> {"none", Waiting, "resolved", "rejected"}] /\ pending \subseteq All
    BY ListsAreActions DEF ListsInv, ClientInv, Types
<1> USE DEF Waiting
<1>1. CASE Connect
    BY <1>0, <1>1, NoMessageMoves DEF Connect
<1>2. ASSUME NEW b \in Actions, Send(b) PROVE InOrder(a)' /\ Complete(a)'
    BY <1>0, <1>2, NoMessageMoves DEF Send, All
<1>3. ASSUME NEW b \in All, Timeout(b) PROVE InOrder(a)' /\ Complete(a)'
    BY <1>0, <1>3, NoMessageMoves DEF Timeout
<1>4. CASE LoginFails \/ ConnectTimeout \/ SocketClosed \/ Disconnect
  <2>1. pending' = {} /\ promise' = Rejected(pending) /\ UNCHANGED <<wire, collected, answered>>
    BY <1>4 DEF LoginFails, ConnectTimeout, SocketClosed, Disconnect, FailAllPending
  <2> QED BY <1>0, <2>1, NoMessageMoves DEF Rejected
<1>5. CASE LoginSucceeds
    BY <1>5, NoMessageMoves DEF LoginSucceeds
<1>6. CASE Receive
    BY <1>6, MessageTaken
<1>7. ASSUME NEW b \in All, Respond(b) PROVE InOrder(a)' /\ Complete(a)'
    BY <1>7, AnswerComes
<1>8. CASE UNCHANGED clientVars
    BY <1>8, NoMessageMoves DEF clientVars
<1> QED
    BY <1>1, <1>2, <1>3, <1>4, <1>5, <1>6, <1>7, <1>8 DEF ClientNext, Settle

LEMMA ListsStart == ClientInit => ListsInv
BY ClientStart, ListsAreActions DEF ClientInit, ListsInv, InOrder, Complete, Silent

\* A caller that gets a list gets the whole answer Asterisk gave and no
\* message of another one, whatever other answers come in between and however
\* late they are (amiClient.ts, handleBlock).
THEOREM ListsNeverInPart == ClientSpec => []ListsAreComplete
<1>1. ListsInv => ListsAreComplete
  <2>1. ASSUME ListsInv, NEW a \in Lists, promise[a] = "resolved"
        PROVE  /\ Head(collected[a]).kind = "success"
               /\ Last(collected[a]).kind = "complete"
               /\ \A k \in 2 .. Len(collected[a]) - 1 : collected[a][k].kind = "entry"
               /\ ~\E k \in DOMAIN wire : wire[k].id = a
    <3>1. collected[a] \in Seq(Message) /\ Complete(a)
      BY <2>1, ListsAreActions DEF ListsInv, ClientInv, Wired
    <3>2. Head(collected[a]) = collected[a][1] /\ Last(collected[a]) = collected[a][Len(collected[a])]
      BY <2>1, <3>1 DEF Last, Complete
    <3> QED BY <2>1, <3>1, <3>2 DEF Complete, Silent
  <2> QED BY <2>1 DEF ListsAreComplete
<1> QED BY <1>1, ListsStart, ListsStep, PTL DEF ClientSpec

-----------------------------------------------------------------------------
(* The service that keeps a connection open *)

\* What the argument needs to know of the types.
Shapes == svc \in Service /\ refreshes \in Seq(Refresh) /\ connecting \in Nat

Attempted == \E i \in DOMAIN refreshes : refreshes[i].by = "connect"

ServiceMind == Shapes /\ AlwaysWatching

-----------------------------------------------------------------------------
(* Lists of refreshes *)

\* The other refreshes stay when one is removed.
LEMMA RemoveKeepsOthers ==
    ASSUME NEW S, NEW s \in Seq(S), NEW i \in 1 .. Len(s)
    PROVE  /\ RemoveAt(s, i) \in Seq(S)
           /\ \A j \in 1 .. Len(s) : j # i =>
                 \E k \in DOMAIN RemoveAt(s, i) : RemoveAt(s, i)[k] = s[j]
<1> DEFINE front == SubSeq(s, 1, i - 1)
           back == SubSeq(s, i + 1, Len(s))
<1>1. RemoveAt(s, i) = front \o back
  BY DEF RemoveAt
<1>2. /\ front \in Seq(S) /\ Len(front) = i - 1
      /\ \A k \in 1 .. i - 1 : front[k] = s[k]
  OBVIOUS
<1>3. /\ back \in Seq(S) /\ Len(back) = Len(s) - i
      /\ \A k \in 1 .. Len(s) - i : back[k] = s[k + i]
  OBVIOUS
<1> HIDE DEF front, back
<1>4. ASSUME NEW j \in 1 .. Len(s), j # i
      PROVE  \E k \in DOMAIN (front \o back) : (front \o back)[k] = s[j]
  <2>1. CASE j < i
    <3>1. j \in DOMAIN (front \o back) /\ (front \o back)[j] = s[j]
      BY <1>2, <1>3, <2>1
    <3>2. QED
      BY <3>1
  <2>2. CASE j > i
    <3>1. j - 1 \in DOMAIN (front \o back) /\ (front \o back)[j - 1] = back[j - i]
      BY <1>2, <1>3, <2>2
    <3>2. back[j - i] = s[j]
      BY <1>3, <2>2
    <3>3. QED
      BY <3>1, <3>2
  <2>3. QED
    BY <1>4, <2>1, <2>2
<1>5. front \o back \in Seq(S)
  BY <1>2, <1>3
<1>6. \A j \in 1 .. Len(s) : j # i =>
         \E k \in DOMAIN (front \o back) : (front \o back)[k] = s[j]
  <2> TAKE j \in 1 .. Len(s)
  <2> HAVE j # i
  <2> QED BY <1>4
<1> DEFINE joined == front \o back
<1>7. joined \in Seq(S) /\ RemoveAt(s, i) = joined
  BY <1>1, <1>5
<1>8. \A j \in 1 .. Len(s) : j # i => \E k \in DOMAIN joined : joined[k] = s[j]
  BY <1>6
<1> HIDE DEF joined
<1>9. QED
  BY <1>7, <1>8

\* A refresh that is appended is there, and so are those before it.
LEMMA AppendKeeps ==
    ASSUME Shapes, NEW r \in Refresh, refreshes' = Append(refreshes, r)
    PROVE  /\ refreshes' \in Seq(Refresh)
           /\ (Attempted \/ r.by = "connect") => Attempted'
<1>1. refreshes \in Seq(Refresh)
  BY DEF Shapes
<1>2. /\ refreshes' \in Seq(Refresh)
      /\ DOMAIN refreshes' = 1 .. Len(refreshes) + 1
      /\ DOMAIN refreshes = 1 .. Len(refreshes)
      /\ \A k \in 1 .. Len(refreshes) : refreshes'[k] = refreshes[k]
      /\ refreshes'[Len(refreshes) + 1] = r
      /\ Len(refreshes) \in Nat
  BY <1>1
<1>3. QED
  BY <1>2 DEF Attempted

-----------------------------------------------------------------------------
(* The methods of the service *)

\* scheduleReconnect leaves a running service with a timer.
LEMMA ScheduleSetsTimer ==
    ASSUME NEW s \in Service
    PROVE  /\ ScheduleReconnect(s) \in Service
           /\ ScheduleReconnect(s).running = s.running
           /\ s.running => ScheduleReconnect(s).timer
<1>1. StateAfter(s.attempt + 1) \in {"connected", "reconnecting", "degraded"}
  BY DEF StateAfter
<1>2. s.attempt + 1 \in Nat
  BY DEF Service
<1>3. QED
  BY <1>1, <1>2 DEF ScheduleReconnect, Service

\* Clearing intervals and listeners leaves the rest of the service alone.
LEMMA ClearingKeepsType ==
    ASSUME NEW s \in Service
    PROVE  /\ StopListening(ClearIntervals(s)) \in Service
           /\ StopListening(ClearIntervals(s)).running = s.running
<1> DEFINE c == ClearIntervals(s)
<1>1. c \in Service /\ c.running = s.running
  BY DEF ClearIntervals, Service
<1> HIDE DEF c
<1>2. CASE c.client = NoClient
  BY <1>1, <1>2 DEF StopListening, c
<1>3. CASE c.client # NoClient
  <2> DEFINE n == IF c.listening[c.client] = 0 THEN 0 ELSE c.listening[c.client] - 1
  <2>1. c.client \in Connections /\ n \in Nat
    BY <1>1, <1>3 DEF Service
  <2>2. StopListening(c) = [c EXCEPT !.listening = [c.listening EXCEPT ![c.client] = n]]
    BY <1>3 DEF StopListening
  <2> HIDE DEF n
  <2>3. [c.listening EXCEPT ![c.client] = n] \in [Connections -> Nat]
    BY <1>1, <2>1 DEF Service
  <2>4. QED
    BY <1>1, <2>2, <2>3 DEF Service, c
<1>4. QED
  BY <1>2, <1>3

\* handleDisconnect leaves a running service with a timer.
LEMMA DisconnectSetsTimer ==
    ASSUME NEW s \in Service
    PROVE  /\ HandleDisconnect(s) \in Service
           /\ HandleDisconnect(s).running = s.running
           /\ s.running => HandleDisconnect(s).timer
<1> DEFINE d == [StopListening(ClearIntervals(s)) EXCEPT !.client = NoClient]
<1>1. d \in Service /\ d.running = s.running
  BY ClearingKeepsType DEF Service, NoClient
<1>2. HandleDisconnect(s) = IF ~s.running THEN s ELSE ScheduleReconnect(d)
  BY DEF HandleDisconnect
<1> HIDE DEF d
<1>3. QED
  BY <1>1, <1>2, ScheduleSetsTimer DEF Service

-----------------------------------------------------------------------------
(* The steps *)

LEMMA ServiceStart == ServiceInit => ServiceMind
BY StatusAssumption DEF ServiceInit, ServiceMind, Shapes, Service, AlwaysWatching, NoClient, NoInterval,
   Connections, Interval

\* A step after which a running service has a timer needs no other argument.
LEMMA TimerSuffices ==
    ASSUME Shapes', svc'.running => svc'.timer
    PROVE  ServiceMind'
BY DEF ServiceMind, AlwaysWatching

\* A refresh that fails leads to a timer, whoever asked for it.
LEMMA FailureSetsTimer ==
    ASSUME Shapes, NEW by, svc' = AfterFailure(by)
    PROVE  svc' \in Service /\ (svc'.running => svc'.timer)
BY ScheduleSetsTimer, DisconnectSetsTimer DEF Shapes, AfterFailure

LEMMA RefreshFails ==
    ASSUME ServiceMind, NEW i \in DOMAIN refreshes, RefreshTimesOut(i) \/ RefreshRejected(i)
    PROVE  ServiceMind'
<1>1. /\ refreshes' = RemoveAt(refreshes, i) /\ svc' = AfterFailure(refreshes[i].by)
      /\ connecting' = connecting
  BY DEF RefreshTimesOut, RefreshRejected
<1>2. refreshes' \in Seq(Refresh)
  BY <1>1, RemoveKeepsOthers DEF ServiceMind, Shapes
<1>3. QED
  BY <1>1, <1>2, FailureSetsTimer, TimerSuffices DEF ServiceMind, Shapes

LEMMA RefreshSucceeds ==
    ASSUME ServiceMind, NEW i \in DOMAIN refreshes, RefreshAnswered(i)
    PROVE  ServiceMind'
<1>0. refreshes \in Seq(Refresh) /\ i \in 1 .. Len(refreshes) /\ svc \in Service
  BY DEF ServiceMind, Shapes
<1>1. refreshes' = RemoveAt(refreshes, i) /\ connecting' = connecting
  BY DEF RefreshAnswered
<1>2. refreshes' \in Seq(Refresh)
  BY <1>0, <1>1, RemoveKeepsOthers
<1>3. CASE refreshes[i].by = "connect"
  <2> DEFINE id == svc.set + 1
             poll == [id |-> id, conn |-> refreshes[i].conn]
  <2>1. /\ id \in Interval
        /\ svc' = [svc EXCEPT !.set = id, !.heartbeatTimer = id, !.pollTimer = id,
                              !.heartbeats = @ \cup {id}, !.polls = @ \cup {poll}]
    BY <1>3 DEF RefreshAnswered
  <2>2. poll \in [id : Interval, conn : Connections]
    <3>1. refreshes[i] \in Refresh
      BY <1>0
    <3>2. QED
      BY <2>1, <3>1 DEF Refresh
  <2> HIDE DEF poll
  <2>3. id \in 0 .. MaxIntervals
    BY <2>1, StatusAssumption DEF Interval
  <2> HIDE DEF id
  <2>4. svc' \in Service /\ id \in svc'.heartbeats
    BY <1>0, <2>1, <2>2, <2>3 DEF Service
  <2>5. QED
    BY <1>1, <1>2, <2>4 DEF ServiceMind, Shapes, AlwaysWatching
<1>4. CASE refreshes[i].by # "connect"
  <2>1. svc' = svc
    BY <1>4 DEF RefreshAnswered
  <2>2. /\ svc' \in Service /\ svc'.running = svc.running /\ svc'.timer = svc.timer
        /\ svc'.heartbeats = svc.heartbeats
    BY <1>0, <2>1 DEF Service
  <2>3. Attempted => Attempted'
    BY <1>0, <1>1, <1>4, RemoveKeepsOthers DEF Attempted
  <2>4. QED
    BY <1>1, <1>2, <2>2, <2>3 DEF ServiceMind, Shapes, AlwaysWatching, Attempted
<1>5. QED
  BY <1>3, <1>4

LEMMA ClientSteps ==
    ASSUME ServiceMind, ReconnectTimer \/ ClientArrives \/ ClientRefused
    PROVE  ServiceMind'
<1>0. svc \in Service /\ refreshes \in Seq(Refresh) /\ connecting \in Nat
  BY DEF ServiceMind, Shapes
<1>1. CASE ReconnectTimer
  <2>1. svc' = BeginConnect(svc) /\ connecting' = connecting + 1 /\ refreshes' = refreshes
    BY <1>1 DEF ReconnectTimer
  <2>2. svc' \in Service
    BY <1>0, <2>1 DEF BeginConnect, StateAfter, Service
  <2>3. QED
    BY <1>0, <2>1, <2>2 DEF ServiceMind, Shapes, AlwaysWatching
<1>2. CASE ClientArrives
  <2>1. connecting > 0 /\ connecting' = connecting - 1 /\ made' \in Connections
    BY <1>2 DEF ClientArrives
  <2>2. CASE svc.running
    <3> DEFINE r == [by |-> "connect", conn |-> made']
    <3>1. refreshes' = Append(refreshes, r)
      BY <1>2, <2>2 DEF ClientArrives
    <3>2. r \in Refresh /\ r.by = "connect"
      BY <2>1 DEF Refresh
    <3>3. refreshes' \in Seq(Refresh) /\ Attempted'
      BY <3>1, <3>2, AppendKeeps DEF ServiceMind
    <3>4. svc' = [svc EXCEPT !.client = made', !.state = "connected", !.attempt = 0,
                    !.listening = [svc.listening EXCEPT ![made'] = svc.listening[made'] + 1]]
      BY <1>2, <2>2, ZenonT(30) DEF ClientArrives
    <3>5. [svc.listening EXCEPT ![made'] = svc.listening[made'] + 1] \in [Connections -> Nat]
      BY <1>0, <2>1 DEF Service
    <3>6. svc' \in Service
      BY <1>0, <2>1, <3>4, <3>5 DEF Service
    <3>7. QED
      BY <1>0, <2>1, <3>3, <3>6 DEF ServiceMind, Shapes, AlwaysWatching, Attempted
  <2>3. CASE ~svc.running
    BY <1>0, <1>2, <2>1, <2>3 DEF ClientArrives, ServiceMind, Shapes, AlwaysWatching
  <2>4. QED
    BY <2>2, <2>3
<1>3. CASE ClientRefused
  <2>1. /\ svc' = ScheduleReconnect(svc) /\ connecting' = connecting - 1 /\ connecting > 0
        /\ refreshes' = refreshes
    BY <1>3 DEF ClientRefused
  <2>2. Shapes' /\ (svc'.running => svc'.timer)
    BY <1>0, <2>1, ScheduleSetsTimer DEF Shapes
  <2>3. QED
    BY <2>2, TimerSuffices
<1>4. QED
  BY <1>1, <1>2, <1>3

LEMMA RefreshStarts ==
    ASSUME ServiceMind, PollFires \/ MemberEvent
    PROVE  ServiceMind'
<1>1. PICK r \in Refresh : refreshes' = Append(refreshes, r)
  <2>1. CASE PollFires
    <3>1. PICK p \in svc.polls : refreshes' = Append(refreshes, [by |-> "poll", conn |-> p.conn])
      BY <2>1 DEF PollFires
    <3>2. [by |-> "poll", conn |-> p.conn] \in Refresh
      BY <3>1 DEF ServiceMind, Shapes, Service, Refresh
    <3>3. QED
      BY <3>1, <3>2
  <2>2. CASE MemberEvent
    BY <2>2 DEF MemberEvent, ServiceMind, Shapes, Service, Refresh
  <2>3. QED
    BY <2>1, <2>2
<1>2. svc' = svc /\ connecting' = connecting
  BY DEF PollFires, MemberEvent
<1>3. refreshes' \in Seq(Refresh) /\ (Attempted => Attempted')
  BY <1>1, AppendKeeps DEF ServiceMind
<1>4. QED
  BY <1>2, <1>3 DEF ServiceMind, Shapes, AlwaysWatching, Attempted

\* Heartbeats, closed connections and stop.
LEMMA OtherSteps ==
    ASSUME ServiceMind,
           HeartbeatFires \/ ConnectionCloses \/ Stop \/ \E k \in pings : PingAnswered(k) \/ PingFails(k)
    PROVE  ServiceMind'
<1>0. svc \in Service /\ refreshes' = refreshes /\ connecting' = connecting
  BY DEF ServiceMind, Shapes, HeartbeatFires, ConnectionCloses, Stop, PingAnswered, PingFails
<1>1. CASE svc' = svc
  BY <1>0, <1>1 DEF ServiceMind, Shapes, AlwaysWatching
<1>2. CASE svc' = HandleDisconnect(svc)
  BY <1>0, <1>2, DisconnectSetsTimer, TimerSuffices DEF ServiceMind, Shapes
<1>3. CASE Stop
  <2> DEFINE c == StopListening(ClearIntervals(svc))
  <2>1. svc' \in Service /\ svc'.running = FALSE
    <3>1. c \in Service /\ svc' = [c EXCEPT !.running = FALSE]
      BY <1>0, <1>3, ClearingKeepsType DEF Stop
    <3> HIDE DEF c
    <3>2. QED
      BY <3>1 DEF Service
  <2>2. QED
    BY <1>0, <2>1 DEF ServiceMind, Shapes, AlwaysWatching
<1>4. QED
  BY <1>1, <1>2, <1>3 DEF HeartbeatFires, ConnectionCloses, PingAnswered, PingFails

LEMMA ServiceStep ==
    ASSUME ServiceMind, [ServiceNext]_serviceVars
    PROVE  ServiceMind'
<1>1. CASE UNCHANGED serviceVars
  BY <1>1 DEF ServiceMind, Shapes, AlwaysWatching, serviceVars
<1>2. CASE ServiceNext
  BY <1>2, RefreshFails, RefreshSucceeds, ClientSteps, RefreshStarts, OtherSteps
     DEF ServiceNext, Failures, Answers, Faults
<1>3. QED
  BY <1>1, <1>2

-----------------------------------------------------------------------------
\* While the service runs there is always a timer, an attempt under way or a
\* heartbeat, whatever interleaving of closed connections, refreshes, timers
\* and heartbeats came before (status.ts, scheduleReconnect).
THEOREM NeverBlind == ServiceSpec => []AlwaysWatching
<1>1. ServiceInit => ServiceMind
  BY ServiceStart
<1>2. ServiceMind /\ [ServiceNext]_serviceVars => ServiceMind'
  BY ServiceStep
<1>3. ServiceMind => AlwaysWatching
  BY DEF ServiceMind
<1>4. QED
  BY <1>1, <1>2, <1>3, PTL DEF ServiceSpec
-----------------------------------------------------------------------------
(* The types of the service *)

\* The interval that polls and the one that sends heartbeats are set and
\* cleared together.
Paired(s) ==
    /\ s.heartbeatTimer = s.pollTimer
    /\ s.heartbeats = {p.id : p \in s.polls}

ServiceInv == ServiceMind /\ Paired(svc) /\ ServiceTypeOK

LEMMA ScheduleKeepsPair ==
    ASSUME NEW s \in Service, Paired(s)
    PROVE  Paired(ScheduleReconnect(s))
<1>1. /\ ScheduleReconnect(s).heartbeatTimer = s.heartbeatTimer
      /\ ScheduleReconnect(s).pollTimer = s.pollTimer
      /\ ScheduleReconnect(s).heartbeats = s.heartbeats
      /\ ScheduleReconnect(s).polls = s.polls
    BY DEF ScheduleReconnect, Service
<1> QED BY <1>1 DEF Paired

LEMMA ClearingKeepsPair ==
    ASSUME NEW s \in Service, Paired(s)
    PROVE  Paired(StopListening(ClearIntervals(s)))
<1> DEFINE t == s.heartbeatTimer
           c == ClearIntervals(s)
           r == StopListening(c)
<1>1. /\ c.heartbeats = s.heartbeats \ {t} /\ c.polls = {p \in s.polls : p.id # t}
      /\ c.heartbeatTimer = t /\ c.pollTimer = t /\ c \in Service
    BY DEF ClearIntervals, Service, Paired
<1>2. {p.id : p \in {q \in s.polls : q.id # t}} = {p.id : p \in s.polls} \ {t}
    OBVIOUS
<1> HIDE DEF c
<1>3. /\ r.heartbeats = c.heartbeats /\ r.polls = c.polls
      /\ r.heartbeatTimer = c.heartbeatTimer /\ r.pollTimer = c.pollTimer
    BY <1>1 DEF StopListening, Service
<1> QED BY <1>1, <1>2, <1>3 DEF Paired, c

LEMMA DisconnectKeepsPair ==
    ASSUME NEW s \in Service, Paired(s)
    PROVE  Paired(HandleDisconnect(s))
<1> DEFINE cut == StopListening(ClearIntervals(s))
           d == [cut EXCEPT !.client = NoClient]
<1>1. cut \in Service /\ Paired(cut)
    BY ClearingKeepsType, ClearingKeepsPair
<1>2. HandleDisconnect(s) = IF ~s.running THEN s ELSE ScheduleReconnect(d)
    BY DEF HandleDisconnect
<1> HIDE DEF cut
<1>3. d \in Service /\ Paired(d)
    BY <1>1 DEF Service, NoClient, Paired
<1> HIDE DEF d
<1> QED BY <1>2, <1>3, ScheduleKeepsPair

\* The service after any step is one that is paired.
LEMMA PairStep ==
    ASSUME ServiceInv, ServiceNext
    PROVE  Paired(svc)'
<1>0. svc \in Service /\ Paired(svc) /\ refreshes \in Seq(Refresh)
    BY DEF ServiceInv, ServiceTypeOK
<1>1. CASE svc' = svc
    BY <1>0, <1>1 DEF Paired
<1>2. CASE svc' = ScheduleReconnect(svc) \/ svc' = HandleDisconnect(svc)
  <2>1. Paired(ScheduleReconnect(svc)) /\ Paired(HandleDisconnect(svc))
    BY <1>0, ScheduleKeepsPair, DisconnectKeepsPair
  <2> QED BY <1>2, <2>1 DEF Paired
<1>3. CASE Stop
  <2> DEFINE cut == StopListening(ClearIntervals(svc))
  <2>1. cut \in Service /\ Paired(cut) /\ svc' = [cut EXCEPT !.running = FALSE]
    BY <1>0, <1>3, ClearingKeepsType, ClearingKeepsPair DEF Stop
  <2> HIDE DEF cut
  <2> QED BY <2>1 DEF Paired, Service
<1>4. CASE ReconnectTimer
    BY <1>0, <1>4 DEF ReconnectTimer, BeginConnect, Paired, Service
<1>5. CASE ClientArrives
  <2>1. \/ svc' = svc
        \/ svc' = [svc EXCEPT !.client = made', !.listening[made'] = @ + 1,
                              !.state = "connected", !.attempt = 0]
    BY <1>5 DEF ClientArrives
  <2> QED BY <1>0, <1>1, <2>1 DEF Paired, Service
<1>6. ASSUME NEW i \in DOMAIN refreshes, RefreshAnswered(i), svc' # svc
      PROVE  Paired(svc)'
  <2> DEFINE id == svc.set + 1
             poll == [id |-> id, conn |-> refreshes[i].conn]
  <2>1. svc' = [svc EXCEPT !.set = id, !.heartbeatTimer = id, !.pollTimer = id,
                           !.heartbeats = @ \cup {id}, !.polls = @ \cup {poll}]
    BY <1>6 DEF RefreshAnswered
  <2>2. poll.id = id
    OBVIOUS
  <2> HIDE DEF poll, id
  <2>3. /\ svc'.heartbeatTimer = id /\ svc'.pollTimer = id
        /\ svc'.heartbeats = svc.heartbeats \cup {id} /\ svc'.polls = svc.polls \cup {poll}
    BY <1>0, <2>1 DEF Service
  <2>4. {p.id : p \in svc.polls \cup {poll}} = {p.id : p \in svc.polls} \cup {id}
    BY <2>2
  <2> QED BY <1>0, <2>3, <2>4 DEF Paired
<1>7. \/ svc' = svc \/ svc' = ScheduleReconnect(svc) \/ svc' = HandleDisconnect(svc)
      \/ Stop \/ ReconnectTimer \/ ClientArrives
      \/ \E i \in DOMAIN refreshes : RefreshAnswered(i)
    BY DEF ServiceNext, Failures, Answers, Faults, RefreshRejected, RefreshTimesOut, AfterFailure,
           PingFails, PingAnswered, PollFires, HeartbeatFires, MemberEvent, ClientRefused,
           ConnectionCloses
<1> QED BY <1>1, <1>2, <1>3, <1>4, <1>5, <1>6, <1>7

\* The connections, the heartbeats under way and the faults still to come.
LEMMA ConnectionTypes ==
    ASSUME ServiceInv, ServiceNext
    PROVE  /\ pings' \subseteq Connections
           /\ made' \in {0} \cup Connections
           /\ open' \in BOOLEAN /\ (open' => made' > 0)
           /\ faults' \in 0 .. MaxFaults
<1>0. /\ svc \in Service
      /\ pings \subseteq Connections /\ made \in {0} \cup Connections
      /\ open \in BOOLEAN /\ (open => made > 0) /\ faults \in 0 .. MaxFaults
    BY DEF ServiceInv, ServiceTypeOK
<1>1. Connections \subseteq Nat \ {0}
    BY DEF Connections
<1>2. faults' = faults \/ Fault
    BY DEF ServiceNext, Failures, Answers, Faults, RefreshRejected, RefreshTimesOut, RefreshAnswered,
           PingFails, PingAnswered, PollFires, HeartbeatFires, MemberEvent, ClientRefused,
           ClientArrives, ReconnectTimer, ConnectionCloses, Stop
<1>3. \/ pings' = pings \/ (HeartbeatFires /\ svc.client # NoClient /\ pings' = pings \cup {svc.client})
      \/ \E k \in pings : pings' = pings \ {k}
    BY DEF ServiceNext, Failures, Answers, Faults, RefreshRejected, RefreshTimesOut, RefreshAnswered,
           PingFails, PingAnswered, PollFires, HeartbeatFires, MemberEvent, ClientRefused,
           ClientArrives, ReconnectTimer, ConnectionCloses, Stop
<1>4. \/ made' = made /\ open' = open
      \/ made' = made /\ open' \in BOOLEAN /\ (open' => open)
      \/ made' \in Connections /\ open' = TRUE
  <2>1. CASE ConnectionCloses \/ \E k \in pings : PingFails(k)
    BY <2>1 DEF ConnectionCloses, PingFails
  <2>2. CASE ~(ConnectionCloses \/ \E k \in pings : PingFails(k))
    BY <2>2 DEF ServiceNext, Failures, Answers, Faults, RefreshRejected, RefreshTimesOut, RefreshAnswered,
           PingAnswered, PollFires, HeartbeatFires, MemberEvent, ClientRefused,
           ClientArrives, ReconnectTimer, Stop
  <2> QED BY <2>1, <2>2
<1>5. faults' \in 0 .. MaxFaults
    BY <1>0, <1>2, StatusAssumption DEF Fault
<1>6. svc.client # NoClient => svc.client \in Connections
    BY <1>0 DEF Service
<1>7. pings' \subseteq Connections
    BY <1>0, <1>3, <1>6
<1>8. made' \in {0} \cup Connections
    BY <1>0, <1>4
<1>9. open' \in BOOLEAN
    BY <1>0, <1>4
<1>10. ASSUME open' PROVE made' > 0
  <2>1. CASE made' \in Connections
    BY <1>1, <2>1
  <2>2. CASE made' \notin Connections
    <3>1. made' = made /\ (open' = open \/ (open' => open))
      BY <1>4, <2>2, Zenon
    <3>2. open
      BY <1>10, <3>1, Zenon
    <3>3. made > 0
      BY <1>0, <3>2, Zenon
    <3> QED BY <3>1, <3>3
  <2> QED BY <2>1, <2>2
<1> QED BY <1>5, <1>7, <1>8, <1>9, <1>10

LEMMA ServiceTypesStart == ServiceInit => ServiceInv
<1> SUFFICES ASSUME ServiceInit PROVE ServiceInv
  OBVIOUS
<1>1. ServiceMind /\ svc \in Service
  BY ServiceStart DEF ServiceMind, Shapes
<1>2. svc.heartbeatTimer = svc.pollTimer /\ svc.heartbeats = {} /\ svc.polls = {}
  BY DEF ServiceInit
<1>3. Paired(svc)
  BY <1>2 DEF Paired
<1>4. MaxFaults \in Nat
  BY StatusAssumption
<1>5. /\ connecting \in Nat /\ refreshes \in Seq(Refresh) /\ pings = {} /\ made = 0
      /\ open = FALSE /\ faults \in 0 .. MaxFaults
  BY <1>4 DEF ServiceInit
<1> QED BY <1>1, <1>3, <1>5 DEF ServiceInv, ServiceTypeOK, Paired

LEMMA ServiceTypesStep == ServiceInv /\ [ServiceNext]_serviceVars => ServiceInv'
<1> SUFFICES ASSUME ServiceInv, [ServiceNext]_serviceVars
             PROVE  ServiceInv'
  OBVIOUS
<1>1. ServiceMind'
  BY ServiceStep DEF ServiceInv
<1>2. CASE UNCHANGED serviceVars
  BY <1>1, <1>2 DEF serviceVars, ServiceInv, ServiceTypeOK, Paired
<1>3. CASE ServiceNext
  BY <1>1, <1>3, PairStep, ConnectionTypes DEF ServiceInv, ServiceMind, Shapes, ServiceTypeOK, Paired
<1> QED BY <1>2, <1>3

\* Every variable of the service keeps its type, and the two intervals run
\* together, however connects, failures and disconnects overlap.
THEOREM ServiceTypeCorrect == ServiceSpec => []ServiceTypeOK
BY ServiceTypesStart, ServiceTypesStep, PTL DEF ServiceSpec, ServiceInv
-----------------------------------------------------------------------------
(* Events and snapshots *)

\* Before position i of the stream stands a list of endpoints, or one has
\* been received and no other list stands in between.
Led(i) ==
    \/ \E j \in 1 .. i - 1 :
          stream[j].type = "endpoints" /\ \A k \in j + 1 .. i - 1 : stream[k].type = "event"
    \/ endpoints # << >> /\ \A k \in 1 .. i - 1 : stream[k].type = "event"

\* Every list of queues, on its way or still asked for, finds the list of
\* endpoints it completes.
QueuesAreLed ==
    /\ \A i \in 1 .. Len(stream) : stream[i].type = "queues" => Led(i)
    /\ (asked # << >> /\ asked[1] = "queues") => Led(Len(stream) + 1)
    /\ \A i \in 2 .. Len(asked) : asked[i] = "queues" => asked[i - 1] = "endpoints"

EventsInv == Events!TypeOK /\ QueuesAreLed

\* The module's own name for the library's operator.
LEMMA SameCount == ASSUME NEW S PROVE Events!Cardinality(S) = Cardinality(S)
BY DEF Events!Cardinality, Cardinality

\* Keys that are forgotten leave the others as they are, and enough go.
LEMMA ForgetBounds ==
    ASSUME NEW keys \in Seq(Events!Key),
           \A i, j \in DOMAIN keys : keys[i].key = keys[j].key => i = j
    PROVE  /\ Events!Forget(keys) \in Seq(Events!Key)
           /\ Len(Events!Forget(keys)) <= MaxKeys
           /\ \A i, j \in DOMAIN Events!Forget(keys) :
                 Events!Forget(keys)[i].key = Events!Forget(keys)[j].key => i = j
<1> DEFINE n == Len(keys)
           out == {i \in DOMAIN keys : keys[i].old \/ i <= n - KeptKeys}
           left == SubSeq(keys, Cardinality(out) + 1, n)
<1>1. CASE n <= MaxKeys
    BY <1>1 DEF Events!Forget
<1>2. CASE ~(n <= MaxKeys)
  <2>1. Events!Forget(keys) = left
    <3>1. Events!Forget(keys) = IF n <= MaxKeys THEN keys
                                ELSE SubSeq(keys, Events!Cardinality(out) + 1, n)
      BY DEF Events!Forget
    <3>2. ~(n <= MaxKeys)
      BY <1>2
    <3> HIDE DEF out
    <3>3. Events!Cardinality(out) = Cardinality(out)
      BY SameCount
    <3> QED BY <3>1, <3>2, <3>3
  <2>2. /\ n \in Nat /\ DOMAIN keys = 1 .. n /\ n - KeptKeys \in Nat /\ n - KeptKeys <= n
        /\ KeptKeys < MaxKeys /\ KeptKeys \in Nat /\ MaxKeys \in Nat
    BY <1>2, EventsAssumption
  <2>3. /\ IsFiniteSet(1 .. n) /\ Cardinality(1 .. n) = n
        /\ Cardinality(1 .. (n - KeptKeys)) = n - KeptKeys
    <3>1. ASSUME NEW m \in Nat PROVE IsFiniteSet(1 .. m) /\ Cardinality(1 .. m) = m
      <4>1. IsFiniteSet(1 .. m) /\ Cardinality(1 .. m) = IF 1 > m THEN 0 ELSE m - 1 + 1
        BY <3>1, FS_Interval
      <4> QED BY <3>1, <4>1
    <3> QED BY <2>2, <3>1
  <2>4. out \subseteq 1 .. n /\ 1 .. (n - KeptKeys) \subseteq out
    BY <2>2
  <2>5. /\ IsFiniteSet(out) /\ Cardinality(out) <= n
        /\ n - KeptKeys <= Cardinality(out) /\ Cardinality(out) \in Nat
    <3>1. IsFiniteSet(out) /\ Cardinality(out) <= Cardinality(1 .. n)
      BY <2>3, <2>4, FS_Subset
    <3>2. Cardinality(1 .. (n - KeptKeys)) <= Cardinality(out)
      BY <2>4, <3>1, FS_Subset
    <3>3. Cardinality(out) \in Nat
      BY <3>1, FS_CardinalityType
    <3> QED BY <2>3, <3>1, <3>2, <3>3
  <2> DEFINE c == Cardinality(out)
  <2> HIDE DEF c, out
  <2>6. /\ SubSeq(keys, c + 1, n) \in Seq(Events!Key)
        /\ Len(SubSeq(keys, c + 1, n)) = n - c
        /\ \A i \in 1 .. n - c : SubSeq(keys, c + 1, n)[i] = keys[c + i]
    <3>1. c \in Nat /\ c <= n
      BY <2>5 DEF c
    <3>2. \A i \in c + 1 .. n : keys[i] \in Events!Key
      BY <2>2, <3>1
    <3>3. /\ SubSeq(keys, c + 1, n) \in Seq(Events!Key)
          /\ Len(SubSeq(keys, c + 1, n)) = IF c + 1 <= n THEN n - (c + 1) + 1 ELSE 0
          /\ \A i \in 1 .. n - (c + 1) + 1 : SubSeq(keys, c + 1, n)[i] = keys[(c + 1) + i - 1]
      BY <2>2, <3>1, <3>2, SubSeqProperties
    <3>4. n - (c + 1) + 1 = n - c /\ (~(c + 1 <= n) => n - c = 0)
      <4>1. ASSUME NEW a \in Nat, NEW b \in Nat, b <= a
            PROVE  a - (b + 1) + 1 = a - b /\ (~(b + 1 <= a) => a - b = 0)
        BY <4>1
      <4> QED BY <2>2, <3>1, <4>1
    <3>5. ASSUME NEW i \in 1 .. n - c PROVE (c + 1) + i - 1 = c + i
      <4>1. i \in Nat /\ c \in Nat
        BY <3>1, <3>5, <2>2
      <4> QED BY <4>1
    <3> QED BY <3>3, <3>4, <3>5
  <2>7. /\ n - c <= MaxKeys /\ n - c \in Nat /\ c \in Nat
        /\ \A i \in 1 .. n - c : c + i \in 1 .. n
    BY <2>2, <2>5 DEF c
  <2> DEFINE rest == SubSeq(keys, c + 1, n)
  <2> HIDE DEF rest
  <2>8. /\ rest \in Seq(Events!Key) /\ Len(rest) <= MaxKeys /\ DOMAIN rest = 1 .. n - c
        /\ \A i \in 1 .. n - c : rest[i] = keys[c + i]
    BY <2>6, <2>7 DEF rest
  <2>9. \A i, j \in DOMAIN rest : rest[i].key = rest[j].key => i = j
    <3>1. ASSUME NEW i \in 1 .. n - c, NEW j \in 1 .. n - c, rest[i].key = rest[j].key
          PROVE  i = j
      <4>1. c + i = c + j
        BY <2>2, <2>7, <2>8, <3>1, ZenonT(30)
      <4> QED BY <2>7, <4>1
    <3> QED BY <2>8, <3>1
  <2>10. Events!Forget(keys) = rest
    BY <2>1 DEF rest, c
  <2> QED BY <2>8, <2>9, <2>10
<1> QED BY <1>1, <1>2

\* More of the stream moves nothing.
LEMMA LedStays ==
    ASSUME stream \in Seq(Events!Message), stream' \in Seq(Events!Message),
           Len(stream) <= Len(stream'),
           \A i \in 1 .. Len(stream) : stream'[i] = stream[i],
           UNCHANGED endpoints,
           NEW i \in 1 .. Len(stream) + 1, Led(i)
    PROVE  Led(i)'
<1>1. \A k \in 1 .. i - 1 : k \in 1 .. Len(stream)
    OBVIOUS
<1>2. \A j \in 1 .. i - 1 : \A k \in j + 1 .. i - 1 : k \in 1 .. Len(stream)
    OBVIOUS
<1> QED BY <1>1, <1>2 DEF Led

\* Events that arrive behind the lists change nothing for these.
LEMMA EventsArrive ==
    ASSUME QueuesAreLed, stream \in Seq(Events!Message), stream' \in Seq(Events!Message),
           Len(stream) <= Len(stream'),
           \A i \in 1 .. Len(stream) : stream'[i] = stream[i],
           \A i \in Len(stream) + 1 .. Len(stream') : stream'[i].type = "event",
           UNCHANGED <<endpoints, asked>>
    PROVE  QueuesAreLed'
<1>1. ASSUME NEW i \in 1 .. Len(stream'), stream'[i].type = "queues"
      PROVE  Led(i)'
  <2>1. i \in 1 .. Len(stream) /\ stream[i].type = "queues"
    BY <1>1
  <2> QED BY <2>1, LedStays DEF QueuesAreLed
<1>2. ASSUME asked # << >>, asked[1] = "queues", NEW n \in Nat, n = Len(stream')
      PROVE  Led(n + 1)'
  <2>1. PICK m \in Nat : m = Len(stream) /\ m <= n
    BY <1>2
  <2>2. Led(m + 1)
    BY <1>2, <2>1 DEF QueuesAreLed
  <2>3. Led(m + 1)'
    BY <2>1, <2>2, LedStays
  <2>4. \A k \in m + 1 .. n : stream'[k].type = "event"
    BY <1>2, <2>1
  <2>5. /\ \A k \in 1 .. n : k \in 1 .. m \/ k \in m + 1 .. n
        /\ \A j \in 1 .. m : j \in 1 .. n /\ \A k \in j + 1 .. n : k \in j + 1 .. m \/ k \in m + 1 .. n
        /\ (m + 1) - 1 = m /\ (n + 1) - 1 = n
    BY <2>1
  <2> QED BY <2>3, <2>4, <2>5 DEF Led
<1>3. Len(stream') \in Nat
    OBVIOUS
<1> QED BY <1>1, <1>2, <1>3 DEF QueuesAreLed

\* What has been received is no longer in the way of the lists behind it.
LEMMA LedMovesUp ==
    ASSUME stream \in Seq(Events!Message), stream # << >>, stream' = Tail(stream),
           \/ stream[1].type = "event" /\ endpoints' = endpoints
           \/ stream[1].type = "endpoints" /\ endpoints' # << >>
           \/ stream[1].type = "queues",
           NEW i \in 1 .. Len(stream), Led(i + 1)
    PROVE  Led(i)'
<1>0. /\ Len(stream) \in Nat \ {0} /\ Len(stream') = Len(stream) - 1
      /\ \A k \in 1 .. Len(stream) - 1 : stream'[k] = stream[k + 1]
    OBVIOUS
<1>1. ASSUME NEW j \in 1 .. i, stream[j].type = "endpoints",
             \A k \in j + 1 .. i : stream[k].type = "event"
      PROVE  Led(i)'
  <2>1. CASE j = 1
    <3>1. \A k \in 1 .. i - 1 : stream'[k].type = "event"
      <4>1. ASSUME NEW k \in 1 .. i - 1 PROVE k + 1 \in j + 1 .. i /\ k \in 1 .. Len(stream) - 1
        BY <1>0, <2>1, <4>1
      <4> QED BY <1>0, <1>1, <4>1
    <3>2. endpoints' # << >>
      BY <1>1, <2>1
    <3> QED BY <3>1, <3>2 DEF Led
  <2>2. CASE j # 1
    <3> DEFINE l == j - 1
    <3>1. l \in 1 .. i - 1 /\ stream'[l].type = "endpoints"
      <4>1. l \in 1 .. i - 1 /\ l \in 1 .. Len(stream) - 1 /\ l + 1 = j
        BY <1>0, <2>2
      <4> QED BY <1>0, <1>1, <4>1
    <3>2. \A k \in l + 1 .. i - 1 : stream'[k].type = "event"
      <4>1. ASSUME NEW k \in l + 1 .. i - 1 PROVE k + 1 \in j + 1 .. i /\ k \in 1 .. Len(stream) - 1
        BY <1>0, <2>2, <4>1
      <4> QED BY <1>0, <1>1, <4>1
    <3> HIDE DEF l
    <3> QED BY <3>1, <3>2 DEF Led
  <2> QED BY <2>1, <2>2
<1>2. ASSUME endpoints # << >>, \A k \in 1 .. i : stream[k].type = "event"
      PROVE  Led(i)'
  <2>1. endpoints' # << >>
    BY <1>2
  <2>2. \A k \in 1 .. i - 1 : stream'[k].type = "event"
    <3>1. ASSUME NEW k \in 1 .. i - 1 PROVE k + 1 \in 1 .. i /\ k \in 1 .. Len(stream) - 1
      BY <1>0, <3>1
    <3> QED BY <1>0, <1>2, <3>1
  <2> QED BY <2>1, <2>2 DEF Led
<1>3. (i + 1) - 1 = i
    OBVIOUS
<1> QED BY <1>1, <1>2, <1>3 DEF Led

\* The service takes the next message; a list of queues meets its endpoints.
LEMMA MessageReceived ==
    ASSUME QueuesAreLed, stream \in Seq(Events!Message), stream # << >>, stream' = Tail(stream),
           \/ stream[1].type = "event" /\ endpoints' = endpoints
           \/ stream[1].type = "endpoints" /\ endpoints' # << >>
           \/ stream[1].type = "queues",
           \/ asked' = asked
           \/ asked \in Seq({"endpoints", "queues"}) /\ asked' = asked \o Events!Refresh
    PROVE  QueuesAreLed'
<1>0. /\ Len(stream) \in Nat \ {0} /\ stream' \in Seq(Events!Message)
      /\ Len(stream') = Len(stream) - 1
      /\ \A k \in 1 .. Len(stream) - 1 : stream'[k] = stream[k + 1]
    OBVIOUS
<1>1. ASSUME NEW i \in 1 .. Len(stream'), stream'[i].type = "queues"
      PROVE  Led(i)'
  <2>1. i + 1 \in 1 .. Len(stream) /\ i \in 1 .. Len(stream) /\ stream[i + 1].type = "queues"
    BY <1>0, <1>1
  <2> QED BY <2>1, LedMovesUp DEF QueuesAreLed
<1>2. ASSUME asked' # << >>, asked'[1] = "queues", NEW n \in Nat, n = Len(stream')
      PROVE  Led(n + 1)'
  <2>1. asked # << >> /\ asked[1] = "queues"
    <3>1. CASE asked' = asked
      BY <1>2, <3>1
    <3>2. CASE asked \in Seq({"endpoints", "queues"}) /\ asked' = asked \o Events!Refresh
      BY <1>2, <3>2 DEF Events!Refresh
    <3> QED BY <3>1, <3>2
  <2>2. PICK m \in 1 .. Len(stream) : m = Len(stream) /\ m = n + 1
    <3>1. n + 1 = Len(stream) /\ n + 1 \in 1 .. Len(stream)
      BY <1>0, <1>2
    <3> QED BY <3>1
  <2>3. Led(m + 1)
    BY <2>1, <2>2 DEF QueuesAreLed
  <2> QED BY <2>2, <2>3, LedMovesUp
<1>3. \A i \in 2 .. Len(asked') : asked'[i] = "queues" => asked'[i - 1] = "endpoints"
  <2>1. CASE asked' = asked
    BY <2>1 DEF QueuesAreLed
  <2>2. CASE asked \in Seq({"endpoints", "queues"}) /\ asked' = asked \o Events!Refresh
    <3>1. /\ Len(asked') = Len(asked) + 2 /\ Len(asked) \in Nat
          /\ \A i \in 1 .. Len(asked) : asked'[i] = asked[i]
          /\ asked'[Len(asked) + 1] = "endpoints" /\ asked'[Len(asked) + 2] = "queues"
      BY <2>2 DEF Events!Refresh
    <3>2. ASSUME NEW i \in 2 .. Len(asked'), asked'[i] = "queues"
          PROVE  asked'[i - 1] = "endpoints"
      <4>1. CASE i <= Len(asked)
        <5>1. i \in 2 .. Len(asked) /\ i - 1 \in 1 .. Len(asked) /\ i \in 1 .. Len(asked)
          BY <3>1, <3>2, <4>1
        <5> QED BY <3>1, <3>2, <5>1 DEF QueuesAreLed
      <4>2. CASE i = Len(asked) + 1
        BY <3>1, <3>2, <4>2
      <4>3. CASE i = Len(asked) + 2
        <5>1. i - 1 = Len(asked) + 1
          BY <3>1, <4>3
        <5> QED BY <3>1, <5>1
      <4> QED BY <3>1, <3>2, <4>1, <4>2, <4>3
    <3> QED BY <3>2
  <2> QED BY <2>1, <2>2
<1>4. Len(stream') \in Nat
    BY <1>0
<1> QED BY <1>1, <1>2, <1>3, <1>4 DEF QueuesAreLed

\* Asterisk answers the list asked for first.
LEMMA ListArrives ==
    ASSUME EventsInv, Events!ListAnswered
    PROVE  QueuesAreLed' /\ stream' \in Seq(Events!Message) /\ asked' \in Seq({"endpoints", "queues"})
<1>0. /\ stream \in Seq(Events!Message) /\ asked \in Seq({"endpoints", "queues"})
      /\ asked # << >> /\ asked' = Tail(asked) /\ endpoints' = endpoints
      /\ truth \in [Phones -> Events!Phone]
    BY DEF EventsInv, Events!TypeOK, Events!ListAnswered, Events!service
<1>1. PICK msg \in Events!Message :
         /\ stream' = Append(stream, msg) /\ msg.type = asked[1]
  <2>1. asked[1] = Head(asked) /\ asked[1] \in {"endpoints", "queues"}
    BY <1>0
  <2>2. CASE asked[1] = "queues"
    <3> DEFINE msg == [type |-> "queues"]
    <3>1. msg \in Events!Message /\ msg.type = "queues"
      BY DEF Events!Message
    <3> QED BY <2>1, <2>2, <3>1 DEF Events!ListAnswered
  <2>3. CASE asked[1] = "endpoints"
    <3> DEFINE list == [p \in Phones |-> Events!Listed(p)]
               msg == [type |-> "endpoints", body |-> list]
    <3>1. list \in Events!List
      BY <1>0 DEF Events!List, Events!Listed, Events!Phone, Events!Activity
    <3> HIDE DEF list
    <3>2. msg \in Events!Message /\ msg.type = "endpoints"
      BY <3>1 DEF Events!Message
    <3>3. stream' = Append(stream, msg)
      BY <2>1, <2>3 DEF Events!ListAnswered, list
    <3> QED BY <2>3, <3>2, <3>3
  <2> QED BY <2>1, <2>2, <2>3
<1>2. /\ Len(stream) \in Nat /\ stream' \in Seq(Events!Message) /\ Len(stream') = Len(stream) + 1
      /\ \A i \in 1 .. Len(stream) : stream'[i] = stream[i]
      /\ stream'[Len(stream) + 1] = msg
    BY <1>0, <1>1
<1>3. /\ asked' \in Seq({"endpoints", "queues"}) /\ Len(asked') = Len(asked) - 1 /\ Len(asked) \in Nat \ {0}
      /\ \A i \in 1 .. Len(asked) - 1 : asked'[i] = asked[i + 1]
    BY <1>0
<1>4. PICK m \in Nat : m = Len(stream)
    BY <1>2
<1>5. asked[1] = "queues" => Led(m + 1)'
    BY <1>0, <1>2, <1>4, LedStays DEF EventsInv, QueuesAreLed
<1>6. ASSUME NEW i \in 1 .. Len(stream'), stream'[i].type = "queues"
      PROVE  Led(i)'
  <2>1. CASE i \in 1 .. Len(stream)
    BY <1>0, <1>2, <1>6, <2>1, LedStays DEF EventsInv, QueuesAreLed
  <2>2. CASE i = m + 1
    BY <1>1, <1>2, <1>4, <1>5, <1>6, <2>2
  <2> QED BY <1>2, <1>4, <1>6, <2>1, <2>2
<1>7. ASSUME asked' # << >>, asked'[1] = "queues", NEW n \in Nat, n = Len(stream')
      PROVE  Led(n + 1)'
  <2>1. asked[1] = "endpoints"
    <3>1. 1 \in 1 .. Len(asked) - 1 /\ 2 \in 2 .. Len(asked)
      BY <1>3, <1>7
    <3>2. asked[2] = "queues"
      BY <1>3, <1>7, <3>1
    <3> QED BY <3>1, <3>2 DEF EventsInv, QueuesAreLed
  <2>2. n = m + 1 /\ n \in 1 .. n /\ (n + 1) - 1 = n /\ stream'[n].type = "endpoints"
    BY <1>1, <1>2, <1>4, <1>7, <2>1
  <2>3. \A k \in n + 1 .. n : stream'[k].type = "event"
    BY <1>7
  <2> QED BY <2>2, <2>3 DEF Led
<1>8. \A i \in 2 .. Len(asked') : asked'[i] = "queues" => asked'[i - 1] = "endpoints"
  <2>1. ASSUME NEW i \in 2 .. Len(asked')
        PROVE  /\ i + 1 \in 2 .. Len(asked) /\ (i + 1) - 1 = i
               /\ asked'[i] = asked[i + 1] /\ asked'[i - 1] = asked[i]
    <3>1. i \in 1 .. Len(asked) - 1 /\ i - 1 \in 1 .. Len(asked) - 1 /\ (i - 1) + 1 = i
      BY <1>3, <2>1
    <3>2. asked'[i] = asked[i + 1] /\ asked'[i - 1] = asked[(i - 1) + 1]
      BY <1>3, <3>1
    <3> QED BY <1>3, <2>1, <3>1, <3>2
  <2> QED BY <2>1 DEF EventsInv, QueuesAreLed
<1>9. Len(stream') \in Nat
    BY <1>2
<1> QED BY <1>2, <1>3, <1>6, <1>7, <1>8, <1>9 DEF QueuesAreLed

\* The types that differ from message to message.
LEMMA MessageTypes ==
    ASSUME NEW m \in Events!Message
    PROVE  /\ m.type \in {"event", "endpoints", "queues"}
           /\ m.type = "event" => m.body \in Events!Event
           /\ m.type = "endpoints" => m.body \in Events!List
BY DEF Events!Message

LEMMA EmitIsMessage ==
    ASSUME NEW p \in Phones, NEW call \in 0 .. MaxCalls,
           NEW name \in {"Created", "Removed", "Ringing", "BridgeEnter", "BridgeLeave", "Hangup"}
    PROVE  Events!Emit(name, p, call) \in Events!Message /\ Events!Emit(name, p, call).type = "event"
BY DEF Events!Emit, Events!Message, Events!Event

\* One message more on the way to the service.
LEMMA OneMoreEvent ==
    ASSUME stream \in Seq(Events!Message), NEW e \in Events!Message, e.type = "event",
           stream' = Append(stream, e) \/ \E d \in Events!Message : d.type = "event" /\ stream' = Append(Append(stream, d), e)
    PROVE  /\ stream' \in Seq(Events!Message) /\ Len(stream) <= Len(stream')
           /\ \A i \in 1 .. Len(stream) : stream'[i] = stream[i]
           /\ \A i \in Len(stream) + 1 .. Len(stream') : stream'[i].type = "event"
<1>1. CASE stream' = Append(stream, e)
  <2>1. /\ stream' \in Seq(Events!Message) /\ Len(stream') = Len(stream) + 1 /\ Len(stream) \in Nat
        /\ \A i \in 1 .. Len(stream) : stream'[i] = stream[i]
        /\ stream'[Len(stream) + 1] = e
    BY <1>1
  <2>2. \A i \in Len(stream) + 1 .. Len(stream') : i = Len(stream) + 1
    BY <2>1
  <2> QED BY <2>1, <2>2
<1>2. ASSUME NEW d \in Events!Message, d.type = "event", stream' = Append(Append(stream, d), e)
      PROVE  /\ stream' \in Seq(Events!Message) /\ Len(stream) <= Len(stream')
             /\ \A i \in 1 .. Len(stream) : stream'[i] = stream[i]
             /\ \A i \in Len(stream) + 1 .. Len(stream') : stream'[i].type = "event"
  <2>1. /\ stream' \in Seq(Events!Message) /\ Len(stream') = Len(stream) + 2 /\ Len(stream) \in Nat
        /\ \A i \in 1 .. Len(stream) : stream'[i] = stream[i]
        /\ stream'[Len(stream) + 1] = d /\ stream'[Len(stream) + 2] = e
    BY <1>2
  <2>2. \A i \in Len(stream) + 1 .. Len(stream') : i = Len(stream) + 1 \/ i = Len(stream) + 2
    BY <2>1
  <2> QED BY <1>2, <2>1, <2>2
<1> QED BY <1>1, <1>2

\* Contacts and calls: what changes in Asterisk is announced by events.
LEMMA AsteriskSteps ==
    ASSUME EventsInv, NEW p \in Phones,
           Events!Contact(p) \/ Events!CallRings(p) \/ Events!CallAnswered(p) \/ Events!CallEnds(p)
    PROVE  EventsInv'
<1>0. /\ truth \in [Phones -> Events!Phone] /\ stream \in Seq(Events!Message)
      /\ calls \in 0 .. MaxCalls /\ changes \in 0 .. MaxChanges
      /\ MaxCalls \in Nat /\ MaxChanges \in Nat
    BY EventsAssumption DEF EventsInv, Events!TypeOK
<1>1. /\ UNCHANGED <<endpoints, statuses, eventKeys, asked>>
      /\ changes > 0 /\ changes' = changes - 1
    BY DEF Events!Contact, Events!CallRings, Events!CallAnswered, Events!CallEnds, Events!service,
           Events!Changing
<1>2. /\ truth[p].registered \in BOOLEAN /\ truth[p].activity \in Events!Activity
      /\ truth[p].call \in 0 .. MaxCalls
    BY <1>0 DEF Events!Phone
<1>3. calls' \in 0 .. MaxCalls /\ (Events!CallRings(p) => calls + 1 \in 0 .. MaxCalls)
    BY <1>0 DEF Events!Contact, Events!CallRings, Events!CallAnswered, Events!CallEnds
<1>4. truth' \in [Phones -> Events!Phone]
  <2>1. PICK now \in Events!Phone : truth' = [truth EXCEPT ![p] = now]
    <3>0. truth[p] \in Events!Phone
      BY <1>0
    <3>1. CASE Events!Contact(p)
      <4>1. truth' = [truth EXCEPT ![p] = [truth[p] EXCEPT !.registered = ~truth[p].registered]]
        BY <3>1 DEF Events!Contact
      <4>2. [truth[p] EXCEPT !.registered = ~truth[p].registered] \in Events!Phone
        BY <1>2, <3>0 DEF Events!Phone
      <4> QED BY <4>1, <4>2
    <3>2. CASE Events!CallRings(p)
      <4>1. truth' = [truth EXCEPT ![p] = [truth[p] EXCEPT !.activity = "ringing", !.call = calls + 1]]
        BY <1>0, <3>2 DEF Events!CallRings
      <4>2. [truth[p] EXCEPT !.activity = "ringing", !.call = calls + 1] \in Events!Phone
        BY <1>3, <3>0, <3>2 DEF Events!Phone, Events!Activity
      <4> QED BY <4>1, <4>2
    <3>3. ASSUME NEW now \in {"in_call", "idle"}, truth' = [truth EXCEPT ![p].activity = now]
          PROVE  \E phone \in Events!Phone : truth' = [truth EXCEPT ![p] = phone]
      <4>1. truth' = [truth EXCEPT ![p] = [truth[p] EXCEPT !.activity = now]]
        BY <3>3
      <4>2. [truth[p] EXCEPT !.activity = now] \in Events!Phone
        BY <3>0 DEF Events!Phone, Events!Activity
      <4> QED BY <4>1, <4>2
    <3>4. CASE Events!CallAnswered(p) \/ Events!CallEnds(p)
      BY <3>3, <3>4 DEF Events!CallAnswered, Events!CallEnds
    <3> QED BY <3>1, <3>2, <3>4
  <2> QED BY <1>0, <2>1
<1>5. PICK e \in Events!Message :
         /\ e.type = "event"
         /\ \/ stream' = Append(stream, e)
            \/ \E d \in Events!Message : d.type = "event" /\ stream' = Append(Append(stream, d), e)
  <2>1. CASE Events!Contact(p)
    BY <1>0, <2>1, EmitIsMessage DEF Events!Contact
  <2>2. CASE Events!CallRings(p)
    BY <1>3, <2>2, EmitIsMessage DEF Events!CallRings
  <2>3. CASE Events!CallAnswered(p)
    BY <1>2, <2>3, EmitIsMessage DEF Events!CallAnswered
  <2>4. CASE Events!CallEnds(p)
    <3> DEFINE d == Events!Emit("BridgeLeave", p, truth[p].call)
               e == Events!Emit("Hangup", p, truth[p].call)
    <3>1. d \in Events!Message /\ d.type = "event" /\ e \in Events!Message /\ e.type = "event"
      BY <1>2, EmitIsMessage
    <3>2. stream' = stream \o (IF truth[p].activity = "in_call" THEN <<d>> ELSE << >>) \o <<e>>
      BY <2>4 DEF Events!CallEnds
    <3> HIDE DEF d, e
    <3>3. CASE truth[p].activity = "in_call"
      <4>1. (stream \o <<d>>) \o <<e>> = Append(Append(stream, d), e)
        BY <1>0, <3>1
      <4> QED BY <3>1, <3>2, <3>3, <4>1
    <3>4. CASE truth[p].activity # "in_call"
      <4>1. (stream \o << >>) \o <<e>> = Append(stream, e)
        BY <1>0, <3>1
      <4> QED BY <3>1, <3>2, <3>4, <4>1
    <3> QED BY <3>3, <3>4
  <2> QED BY <2>1, <2>2, <2>3, <2>4
<1>6. QueuesAreLed' /\ stream' \in Seq(Events!Message)
    BY <1>0, <1>1, <1>5, OneMoreEvent, EventsArrive DEF EventsInv
<1>7. changes' \in 0 .. MaxChanges
    BY <1>0, <1>1
<1> QED BY <1>1, <1>3, <1>4, <1>6, <1>7 DEF EventsInv, Events!TypeOK

\* An event that has not been seen is remembered and shown.
LEMMA EventStep ==
    ASSUME EventsInv, Events!ReceiveEvent
    PROVE  EventsInv'
<1>0. /\ stream \in Seq(Events!Message) /\ stream # << >> /\ stream' = Tail(stream)
      /\ stream[1].type = "event" /\ Head(stream) = stream[1] /\ stream[1] \in Events!Message
      /\ UNCHANGED <<truth, calls, endpoints, changes>>
      /\ asked \in Seq({"endpoints", "queues"}) /\ statuses \in [Phones -> Events!Status]
    BY DEF EventsInv, Events!TypeOK, Events!ReceiveEvent
<1>1. PICK e \in Events!Event : e = Head(stream).body
    BY <1>0, MessageTypes
<1>2. QueuesAreLed'
  <2>1. asked' = asked \/ asked' = asked \o Events!Refresh
    BY DEF Events!ReceiveEvent
  <2> QED BY <1>0, <2>1, MessageReceived DEF EventsInv
<1>3. asked' \in Seq({"endpoints", "queues"})
  <2>1. asked' = asked \/ asked' = asked \o Events!Refresh
    BY DEF Events!ReceiveEvent
  <2>2. Events!Refresh \in Seq({"endpoints", "queues"})
    BY DEF Events!Refresh
  <2>3. asked \in Seq({"endpoints", "queues"})
    BY <1>0
  <2>4. asked \o Events!Refresh \in Seq({"endpoints", "queues"})
    BY <2>2, <2>3
  <2> QED BY <2>1, <2>3, <2>4, Zenon
<1>4. statuses' \in [Phones -> Events!Status]
  <2>1. ASSUME NEW s \in Events!Status PROVE Events!Shown(s, e.event) \in Events!Status
    BY DEF Events!Shown, Events!Status, Events!Event, Events!Activity
  <2>2. e.phone \in Phones
    BY DEF Events!Event
  <2>3. \/ statuses' = statuses
        \/ statuses' = [statuses EXCEPT ![e.phone] = Events!Shown(statuses[e.phone], e.event)]
    BY <1>1 DEF Events!ReceiveEvent
  <2> QED BY <1>0, <2>1, <2>2, <2>3
<1>5. /\ eventKeys' \in Seq(Events!Key) /\ Len(eventKeys') <= MaxKeys
      /\ \A i, j \in DOMAIN eventKeys' : eventKeys'[i].key = eventKeys'[j].key => i = j
  <2>0. /\ eventKeys \in Seq(Events!Key) /\ Len(eventKeys) <= MaxKeys
        /\ \A i, j \in DOMAIN eventKeys : eventKeys[i].key = eventKeys[j].key => i = j
    BY DEF EventsInv, Events!TypeOK, Events!IsInjective
  <2>1. CASE Events!Seen(e)
    BY <1>1, <2>0, <2>1 DEF Events!ReceiveEvent
  <2>2. CASE ~Events!Seen(e)
    <3> DEFINE k == [key |-> e, old |-> FALSE]
               keys == Append(eventKeys, k)
    <3>1. k \in Events!Key /\ k.key = e
      BY DEF Events!Key
    <3>2. eventKeys' = Events!Forget(keys)
      BY <1>1, <2>2 DEF Events!ReceiveEvent
    <3> HIDE DEF k
    <3>3. /\ keys \in Seq(Events!Key) /\ DOMAIN keys = 1 .. Len(eventKeys) + 1
          /\ Len(eventKeys) \in Nat /\ keys[Len(eventKeys) + 1] = k
          /\ \A i \in 1 .. Len(eventKeys) : keys[i] = eventKeys[i]
      BY <2>0, <3>1
    <3> HIDE DEF keys
    <3>4. \A i \in 1 .. Len(eventKeys) : eventKeys[i].key # e
      BY <2>0, <2>2 DEF Events!Seen
    <3>5. \A i, j \in DOMAIN keys : keys[i].key = keys[j].key => i = j
      <4>1. ASSUME NEW i \in DOMAIN keys, NEW j \in DOMAIN keys, keys[i].key = keys[j].key
            PROVE  i = j
        <5>1. \A l \in DOMAIN keys : l \in 1 .. Len(eventKeys) \/ l = Len(eventKeys) + 1
          BY <3>3
        <5> QED BY <2>0, <3>1, <3>3, <3>4, <4>1, <5>1
      <4> QED BY <4>1
    <3>6. /\ Events!Forget(keys) \in Seq(Events!Key)
          /\ Len(Events!Forget(keys)) <= MaxKeys
          /\ \A i, j \in DOMAIN Events!Forget(keys) :
                Events!Forget(keys)[i].key = Events!Forget(keys)[j].key => i = j
      BY <3>3, <3>5, ForgetBounds
    <3> QED BY <3>2, <3>6
  <2> QED BY <2>1, <2>2
<1>6. Events!IsInjective([i \in DOMAIN eventKeys |-> eventKeys[i].key])'
    BY <1>5 DEF Events!IsInjective
<1>7. stream' \in Seq(Events!Message)
    BY <1>0
<1> QED BY <1>0, <1>2, <1>3, <1>4, <1>5, <1>6, <1>7 DEF EventsInv, Events!TypeOK

\* The two lists of a snapshot.
LEMMA SnapshotSteps ==
    ASSUME EventsInv, Events!ReceiveEndpoints \/ Events!ReceiveQueues
    PROVE  EventsInv'
<1>0. /\ stream \in Seq(Events!Message) /\ stream # << >> /\ stream' = Tail(stream)
      /\ Head(stream) = stream[1] /\ stream[1] \in Events!Message
      /\ stream' \in Seq(Events!Message)
      /\ UNCHANGED <<truth, calls, asked, eventKeys, changes>>
      /\ endpoints \in Seq(Events!List) /\ statuses \in [Phones -> Events!Status]
  <2>1. /\ stream \in Seq(Events!Message) /\ endpoints \in Seq(Events!List)
        /\ statuses \in [Phones -> Events!Status]
    BY DEF EventsInv, Events!TypeOK
  <2>2. /\ stream # << >> /\ stream' = Tail(stream)
        /\ UNCHANGED <<truth, calls, asked, eventKeys, changes>>
    BY DEF Events!ReceiveEndpoints, Events!ReceiveQueues, Events!asterisk
  <2>3. /\ Head(stream) = stream[1] /\ stream[1] \in Events!Message
        /\ stream' \in Seq(Events!Message)
    BY <2>1, <2>2
  <2> QED BY <2>1, <2>2, <2>3
<1>1. CASE Events!ReceiveEndpoints
  <2>1. /\ stream[1].type = "endpoints" /\ stream[1].body \in Events!List /\ statuses' = statuses
        /\ endpoints' = Append(endpoints, stream[1].body)
    BY <1>0, <1>1, MessageTypes DEF Events!ReceiveEndpoints
  <2>2. endpoints' \in Seq(Events!List) /\ endpoints' # << >>
    BY <1>0, <2>1
  <2>3. QueuesAreLed'
    BY <1>0, <2>1, <2>2, MessageReceived DEF EventsInv
  <2> QED BY <1>0, <2>1, <2>2, <2>3 DEF EventsInv, Events!TypeOK
<1>2. CASE Events!ReceiveQueues
  <2>1. /\ stream[1].type = "queues" /\ endpoints' = Tail(endpoints)
        /\ statuses' = Head(endpoints)
    BY <1>0, <1>2 DEF Events!ReceiveQueues, Events!Rebuilt
  <2>2. endpoints # << >>
    <3>1. Led(1) /\ 1 - 1 = 0 /\ ~\E j \in 1 .. 0 : TRUE
      BY <1>0, <2>1 DEF EventsInv, QueuesAreLed
    <3> QED BY <3>1 DEF Led
  <2>3. endpoints' \in Seq(Events!List) /\ Head(endpoints) \in Events!List
    BY <1>0, <2>1, <2>2
  <2>4. statuses' \in [Phones -> Events!Status]
    BY <2>1, <2>3 DEF Events!List, Events!Status
  <2>5. QueuesAreLed'
    BY <1>0, <2>1, MessageReceived DEF EventsInv
  <2> QED BY <1>0, <2>3, <2>4, <2>5 DEF EventsInv, Events!TypeOK
<1> QED BY <1>1, <1>2

\* A connection that is new, the poll, and two minutes without anything.
LEMMA FreshStart ==
    ASSUME asked' = Events!Refresh,
           \/ stream' = << >> /\ endpoints' = << >>
           \/ /\ stream' = stream /\ stream \in Seq(Events!Message)
              /\ \A i \in DOMAIN stream : stream[i].type = "event"
    PROVE  QueuesAreLed'
<1>1. asked'[1] = "endpoints" /\ Len(asked') = 2 /\ asked'[2] = "queues"
    BY DEF Events!Refresh
<1>2. \A i \in 1 .. Len(stream') : stream'[i].type # "queues"
    OBVIOUS
<1>3. \A i \in 2 .. Len(asked') : asked'[i - 1] = "endpoints"
    BY <1>1
<1> QED BY <1>1, <1>2, <1>3 DEF QueuesAreLed

LEMMA OtherEventsSteps ==
    ASSUME EventsInv, Events!Poll \/ Events!Reconnect \/ Events!TimePasses
    PROVE  EventsInv'
<1>0. /\ Events!Refresh \in Seq({"endpoints", "queues"})
      /\ Events!Unknown \in [Phones -> Events!Status]
      /\ << >> \in Seq(Events!Message) /\ << >> \in Seq(Events!List)
    BY DEF Events!Refresh, Events!Unknown, Events!Status, Events!Activity
<1>1. CASE Events!Poll
  <2>1. /\ asked' = Events!Refresh /\ \A i \in DOMAIN stream : stream[i].type = "event"
        /\ UNCHANGED <<truth, calls, stream, changes, endpoints, statuses, eventKeys>>
    BY <1>1 DEF Events!Poll, Events!service
  <2>2. QueuesAreLed'
    BY <2>1, FreshStart DEF EventsInv, Events!TypeOK
  <2> QED BY <1>0, <2>1, <2>2 DEF EventsInv, Events!TypeOK
<1>2. CASE Events!Reconnect
  <2>1. /\ asked' = Events!Refresh /\ stream' = << >> /\ endpoints' = << >>
        /\ statuses' = Events!Unknown /\ UNCHANGED <<truth, calls, eventKeys>>
        /\ changes > 0 /\ changes' = changes - 1
    BY <1>2 DEF Events!Reconnect, Events!Changing
  <2>2. QueuesAreLed'
    BY <2>1, FreshStart
  <2>3. changes' \in 0 .. MaxChanges
    BY <2>1, EventsAssumption DEF EventsInv, Events!TypeOK
  <2> QED BY <1>0, <2>1, <2>2, <2>3 DEF EventsInv, Events!TypeOK
<1>3. CASE Events!TimePasses
  <2>1. /\ eventKeys' = [i \in DOMAIN eventKeys |-> [eventKeys[i] EXCEPT !.old = TRUE]]
        /\ UNCHANGED <<truth, calls, asked, stream, endpoints, statuses>>
        /\ changes > 0 /\ changes' = changes - 1
    BY <1>3 DEF Events!TimePasses, Events!Changing, Events!asterisk
  <2>2. changes' \in 0 .. MaxChanges
    BY <2>1, EventsAssumption DEF EventsInv, Events!TypeOK
  <2>3. /\ eventKeys' \in Seq(Events!Key) /\ Len(eventKeys') = Len(eventKeys)
        /\ DOMAIN eventKeys' = DOMAIN eventKeys
        /\ \A i \in DOMAIN eventKeys : eventKeys'[i].key = eventKeys[i].key
    <3>1. eventKeys \in Seq(Events!Key)
      BY DEF EventsInv, Events!TypeOK
    <3>2. \A k \in Events!Key : [k EXCEPT !.old = TRUE] \in Events!Key /\ [k EXCEPT !.old = TRUE].key = k.key
      BY DEF Events!Key
    <3>3. PICK n \in Nat : n = Len(eventKeys) /\ DOMAIN eventKeys = 1 .. n
      BY <3>1
    <3>4. \A i \in 1 .. n : eventKeys[i] \in Events!Key
      BY <3>1, <3>3
    <3>5. /\ eventKeys' \in [1 .. n -> Events!Key]
          /\ \A i \in 1 .. n : eventKeys'[i].key = eventKeys[i].key
      BY <2>1, <3>2, <3>3, <3>4
    <3> QED BY <3>3, <3>5
  <2>4. Events!IsInjective([i \in DOMAIN eventKeys |-> eventKeys[i].key])'
    BY <2>3 DEF EventsInv, Events!TypeOK, Events!IsInjective
  <2>5. QueuesAreLed'
    BY <2>1 DEF EventsInv, QueuesAreLed, Led
  <2> QED BY <2>1, <2>2, <2>3, <2>4, <2>5 DEF EventsInv, Events!TypeOK
<1> QED BY <1>1, <1>2, <1>3

LEMMA EventsInvariance == EventsInv /\ [Events!Next]_Events!vars => EventsInv'
<1> SUFFICES ASSUME EventsInv, [Events!Next]_Events!vars
             PROVE  EventsInv'
  OBVIOUS
<1>1. CASE UNCHANGED Events!vars
    BY <1>1 DEF Events!vars, EventsInv, Events!TypeOK, QueuesAreLed, Led, Events!IsInjective
<1>2. CASE Events!ListAnswered
  <2>1. UNCHANGED <<truth, calls, changes, endpoints, statuses, eventKeys>>
    BY <1>2 DEF Events!ListAnswered, Events!service
  <2> QED BY <1>2, <2>1, ListArrives DEF EventsInv, Events!TypeOK
<1> QED
    BY <1>1, <1>2, AsteriskSteps, EventStep, SnapshotSteps, OtherEventsSteps DEF Events!Next, Events!Receive

LEMMA EventsStart == Events!Init => EventsInv
<1> SUFFICES ASSUME Events!Init PROVE EventsInv
  OBVIOUS
<1>1. /\ Events!Refresh \in Seq({"endpoints", "queues"})
      /\ Events!Unknown \in [Phones -> Events!Status]
      /\ << >> \in Seq(Events!Message) /\ << >> \in Seq(Events!List) /\ << >> \in Seq(Events!Key)
    BY DEF Events!Refresh, Events!Unknown, Events!Status, Events!Activity
<1>2. [p \in Phones |-> [registered |-> FALSE, activity |-> "idle", call |-> 0]] \in [Phones -> Events!Phone]
    BY EventsAssumption DEF Events!Phone, Events!Activity
<1>3. Len(eventKeys) <= MaxKeys /\ Events!IsInjective([i \in DOMAIN eventKeys |-> eventKeys[i].key])
    BY EventsAssumption DEF Events!Init, Events!IsInjective
<1>4. QueuesAreLed
    BY DEF Events!Init, Events!Refresh, QueuesAreLed
<1>5. calls \in 0 .. MaxCalls /\ changes \in 0 .. MaxChanges
    BY EventsAssumption DEF Events!Init
<1> QED BY <1>1, <1>2, <1>3, <1>4, <1>5 DEF Events!Init, EventsInv, Events!TypeOK

\* Every snapshot finds the list of endpoints it is made of, no event is
\* remembered twice and the memory of events stays bounded, whatever order
\* events, lists, polls and reconnects come in (status.ts, refreshSnapshot
\* and onMessage).
THEOREM EventsTypeCorrect == Events!Spec => []Events!TypeOK
BY EventsStart, EventsInvariance, PTL DEF EventsInv, Events!Spec
-----------------------------------------------------------------------------
(* The handshake *)

\* A result says "ok" only of a good candidate, the worker works for whoever
\* has published a request, and it removes a request somebody waits for only
\* when its result is there.
HandshakeInv ==
    /\ Handshake!TypeOK
    /\ \A d \in DOMAIN results : results[d] = "ok" => d \in Good
    /\ (worker.at = "written" /\ phase[worker.id] = "waiting") => worker.id \in DOMAIN results
    /\ \A d \in requests : phase[d] # "new"
    /\ Handshake!Busy => phase[worker.id] # "new"
    /\ OwnVerdict

\* What a worker is follows from what it is doing.
LEMMA WorkerShape ==
    ASSUME Handshake!TypeOK
    PROVE  /\ Handshake!Busy <=> worker \in Handshake!Working
           /\ worker.at \in {"validating", "written"} <=> worker \in Handshake!Working
           /\ worker \in Handshake!Working =>
                 worker.id \in Deployments /\ worker.spent \in 0 .. WorkerLimit
<1>1. worker \in Handshake!Working \/ worker = Handshake!Looking \/ worker = Handshake!Dead
    BY DEF Handshake!TypeOK
<1>2. ASSUME NEW w \in Handshake!Working
      PROVE  /\ w.at \in {"validating", "written"}
             /\ w.id \in Deployments /\ w.spent \in 0 .. WorkerLimit
    BY <1>2 DEF Handshake!Working
<1>3. Handshake!Looking.at = "loop" /\ Handshake!Dead.at = "dead"
    BY DEF Handshake!Looking, Handshake!Dead
<1>4. Handshake!Looking \notin Handshake!Working /\ Handshake!Dead \notin Handshake!Working
    BY <1>2, <1>3
<1> QED BY <1>1, <1>2, <1>3, <1>4 DEF Handshake!Busy

\* The backend publishes a request, reads a result or gives up.
LEMMA BackendSteps ==
    ASSUME HandshakeInv, NEW d \in Deployments, Handshake!Steps(d)
    PROVE  HandshakeInv'
<1>0. /\ UNCHANGED <<elapsed, worker, deaths>>
      /\ phase \in [Deployments -> Handshake!Phases]
      /\ requests \subseteq Deployments /\ DOMAIN results \subseteq Deployments
      /\ \A e \in Deployments : phase[e] = "waiting" => e \in requests \cup DOMAIN results
      /\ \A e \in DOMAIN results : results[e] \in {"ok", "error"} /\ (results[e] = "ok" => e \in Good)
      /\ \A e \in Deployments : phase[e] = "ok" => e \in Good
    BY DEF Handshake!Steps, Handshake!Publish, Handshake!Poll, Handshake!GiveUp, HandshakeInv,
           Handshake!TypeOK, OwnVerdict, Handshake!OwnVerdict, Handshake!Verdicts
<1>1. PICK new \in Handshake!Phases :
         /\ phase' = [phase EXCEPT ![d] = new] /\ (new = "ok" => d \in Good) /\ new # "new"
         /\ \/ new = "waiting" /\ requests' = requests \cup {d} /\ results' = results /\ phase[d] = "new"
            \/ /\ new # "waiting" /\ requests' = requests \ {d}
               /\ DOMAIN results' = DOMAIN results \ {d}
               /\ \A r \in DOMAIN results' : results'[r] = results[r]
  <2>1. CASE Handshake!Publish(d)
    BY <2>1 DEF Handshake!Publish, Handshake!Phases
  <2>2. CASE Handshake!Poll(d)
    BY <1>0, <2>2 DEF Handshake!Poll, Handshake!Cleanup, Handshake!Phases
  <2>3. CASE Handshake!GiveUp(d)
    BY <1>0, <2>3 DEF Handshake!GiveUp, Handshake!Cleanup, Handshake!Phases
  <2> QED BY <2>1, <2>2, <2>3 DEF Handshake!Steps
<1>2. /\ phase' \in [Deployments -> Handshake!Phases]
      /\ \A e \in Deployments : phase'[e] = IF e = d THEN new ELSE phase[e]
    BY <1>0, <1>1
<1>3. /\ requests' \subseteq Deployments /\ DOMAIN results' \subseteq Deployments
      /\ \A e \in DOMAIN results' : results'[e] \in {"ok", "error"} /\ (results'[e] = "ok" => e \in Good)
      /\ \A e \in Deployments : phase'[e] = "waiting" => e \in requests' \cup DOMAIN results'
      /\ \A e \in Deployments : phase'[e] = "ok" => e \in Good
      /\ \A e \in requests' : phase'[e] # "new"
    BY <1>0, <1>1, <1>2 DEF HandshakeInv
<1>4. ASSUME worker'.at = "written", phase'[worker'.id] = "waiting"
      PROVE  worker'.id \in DOMAIN results'
  <2>1. worker' = worker /\ worker.id \in Deployments
    BY <1>0, <1>4, WorkerShape DEF HandshakeInv
  <2>2. CASE worker.id # d
    BY <1>1, <1>2, <1>4, <2>1, <2>2 DEF HandshakeInv
  <2>3. CASE worker.id = d
    <3>1. phase[d] # "new"
      BY <1>4, <2>1, <2>3, WorkerShape DEF HandshakeInv
    <3>2. phase'[d] # "waiting"
      BY <1>1, <1>2, <3>1
    <3> QED BY <1>4, <2>1, <2>3, <3>2
  <2> QED BY <2>2, <2>3
<1>5. Handshake!Busy' => phase'[worker'.id] # "new"
  <2>1. ASSUME Handshake!Busy PROVE worker.id \in Deployments /\ phase[worker.id] # "new"
    BY <2>1, WorkerShape DEF HandshakeInv
  <2> QED BY <1>0, <1>1, <1>2, <2>1 DEF Handshake!Busy
<1>6. Handshake!TypeOK'
    BY <1>0, <1>2, <1>3 DEF HandshakeInv, Handshake!TypeOK, Handshake!Verdicts
<1> QED BY <1>3, <1>4, <1>5, <1>6 DEF HandshakeInv, OwnVerdict, Handshake!OwnVerdict

\* The worker takes a request, answers it or is done with it.
LEMMA WorkerSteps ==
    ASSUME HandshakeInv, Handshake!Take \/ Handshake!Answer \/ Handshake!Done
    PROVE  HandshakeInv'
<1>0. /\ UNCHANGED <<phase, elapsed, deaths>> /\ requests' \subseteq requests
      /\ phase \in [Deployments -> Handshake!Phases]
      /\ requests \subseteq Deployments /\ DOMAIN results \subseteq Deployments
      /\ \A e \in Deployments : phase[e] = "waiting" => e \in requests \cup DOMAIN results
      /\ \A e \in DOMAIN results : results[e] \in {"ok", "error"} /\ (results[e] = "ok" => e \in Good)
    BY DEF Handshake!Take, Handshake!Answer, Handshake!Done, HandshakeInv, Handshake!TypeOK,
           Handshake!Verdicts
<1>1. CASE Handshake!Take
  <2>1. PICK d \in requests : worker' = [at |-> "validating", id |-> d, spent |-> 0]
    BY <1>1 DEF Handshake!Take
  <2>2. UNCHANGED <<requests, results>>
    BY <1>1 DEF Handshake!Take
  <2>3. worker' \in Handshake!Working /\ worker'.at # "written" /\ phase[worker'.id] # "new"
    BY <1>0, <2>1, HandshakeAssumption DEF Handshake!Working, HandshakeInv
  <2> QED
    BY <1>0, <2>2, <2>3 DEF HandshakeInv, Handshake!TypeOK, OwnVerdict, Handshake!OwnVerdict
<1>2. CASE Handshake!Answer
  <2>1. worker \in Handshake!Working
    BY <1>2, WorkerShape DEF Handshake!Answer, HandshakeInv
  <2>2. PICK v \in {Handshake!Verdict(worker.id), "error"} :
           results' = [d \in DOMAIN results \cup {worker.id} |->
                           IF d = worker.id THEN v ELSE results[d]]
    BY <1>2 DEF Handshake!Answer
  <2>3. v \in {"ok", "error"} /\ (v = "ok" => worker.id \in Good)
    BY DEF Handshake!Verdict
  <2>4. worker' = [worker EXCEPT !.at = "written"] /\ requests' = requests
    BY <1>2 DEF Handshake!Answer
  <2>5. worker' \in Handshake!Working /\ worker'.id = worker.id /\ worker.id \in Deployments
    BY <2>1, <2>4 DEF Handshake!Working
  <2>6. /\ DOMAIN results' = DOMAIN results \cup {worker.id}
        /\ \A e \in DOMAIN results' : results'[e] \in {"ok", "error"} /\ (results'[e] = "ok" => e \in Good)
    BY <1>0, <2>2, <2>3
  <2>7. phase[worker.id] # "new"
    BY <2>1, WorkerShape DEF HandshakeInv
  <2> QED
    BY <1>0, <2>4, <2>5, <2>6, <2>7
    DEF HandshakeInv, Handshake!TypeOK, OwnVerdict, Handshake!OwnVerdict, Handshake!Verdicts
<1>3. CASE Handshake!Done
  <2>1. /\ worker \in Handshake!Working /\ worker.at = "written"
        /\ requests' = requests \ {worker.id} /\ worker' = Handshake!Looking /\ results' = results
    BY <1>3, WorkerShape DEF Handshake!Done, HandshakeInv
  <2>2. \A d \in Deployments : phase[d] = "waiting" => d \in requests' \cup DOMAIN results
    BY <1>0, <2>1 DEF HandshakeInv
  <2>3. worker'.at = "loop" /\ ~Handshake!Busy'
    BY <2>1 DEF Handshake!Busy, Handshake!Looking
  <2> QED
    BY <1>0, <2>1, <2>2, <2>3
    DEF HandshakeInv, Handshake!TypeOK, OwnVerdict, Handshake!OwnVerdict
<1> QED BY <1>1, <1>2, <1>3

\* The worker, the container or the backend dies.
LEMMA FaultSteps ==
    ASSUME HandshakeInv,
           Handshake!WorkerDies \/ Handshake!ContainerRestarts \/ Handshake!BackendDies
    PROVE  HandshakeInv'
<1>1. /\ UNCHANGED <<elapsed, requests, results>> /\ deaths' = deaths + 1 /\ deaths' \in 0 .. MaxDeaths
    BY HandshakeAssumption DEF Handshake!WorkerDies, Handshake!ContainerRestarts,
       Handshake!BackendDies, HandshakeInv, Handshake!TypeOK
<1>2. CASE Handshake!WorkerDies \/ Handshake!ContainerRestarts
  <2>1. phase' = phase /\ worker' \in {Handshake!Looking, Handshake!Dead}
    BY <1>2 DEF Handshake!WorkerDies, Handshake!ContainerRestarts
  <2>2. worker'.at # "written" /\ ~Handshake!Busy'
    BY <2>1 DEF Handshake!Busy, Handshake!Looking, Handshake!Dead
  <2> QED
    BY <1>1, <2>1, <2>2 DEF HandshakeInv, Handshake!TypeOK, OwnVerdict, Handshake!OwnVerdict
<1>3. CASE Handshake!BackendDies
  <2>1. /\ phase' = [d \in Deployments |-> IF phase[d] = "waiting" THEN "gone" ELSE phase[d]]
        /\ worker' = worker
    BY <1>3 DEF Handshake!BackendDies
  <2>2. /\ phase' \in [Deployments -> Handshake!Phases]
        /\ \A d \in Deployments : phase'[d] \in {"new", "waiting", "ok"} => phase'[d] = phase[d]
        /\ \A d \in Deployments : phase'[d] # "waiting"
    BY <2>1 DEF HandshakeInv, Handshake!TypeOK, Handshake!Phases
  <2>3. worker.at = "written" \/ Handshake!Busy => worker.id \in Deployments
    BY WorkerShape DEF HandshakeInv
  <2> QED
    BY <1>1, <2>1, <2>2, <2>3
    DEF HandshakeInv, Handshake!TypeOK, OwnVerdict, Handshake!OwnVerdict, Handshake!Busy
<1> QED BY <1>2, <1>3 DEF Handshake!WorkerDies, Handshake!ContainerRestarts, Handshake!BackendDies

\* Time passes when nobody has anything to do.
LEMMA TimeStep == HandshakeInv /\ Handshake!Tick => HandshakeInv'
<1> SUFFICES ASSUME HandshakeInv, Handshake!Tick
             PROVE  HandshakeInv'
  OBVIOUS
<1>1. /\ UNCHANGED <<phase, requests, results, deaths>>
      /\ elapsed' = [d \in Deployments |->
                        IF phase[d] = "waiting" THEN elapsed[d] + 1 ELSE elapsed[d]]
      /\ \A d \in Deployments : phase[d] = "waiting" => elapsed[d] < Deadline
    BY DEF Handshake!Tick, Handshake!Prompt
<1>2. elapsed' \in [Deployments -> 0 .. Deadline]
    BY <1>1, HandshakeAssumption DEF HandshakeInv, Handshake!TypeOK
<1>3. CASE Handshake!Busy
  <2>1. /\ worker' = [worker EXCEPT !.spent = @ + 1] /\ worker \in Handshake!Working
        /\ worker.at = "validating" /\ worker.spent < WorkerLimit
    BY <1>3, WorkerShape DEF Handshake!Tick, Handshake!Prompt, HandshakeInv
  <2>2. worker' \in Handshake!Working /\ worker'.id = worker.id /\ worker'.at = "validating"
    BY <2>1, HandshakeAssumption DEF Handshake!Working
  <2>3. phase[worker.id] # "new"
    BY <1>3 DEF HandshakeInv
  <2> QED
    BY <1>1, <1>2, <2>2, <2>3 DEF HandshakeInv, Handshake!TypeOK, OwnVerdict, Handshake!OwnVerdict
<1>4. CASE ~Handshake!Busy
  <2>1. worker' = worker
    BY <1>4 DEF Handshake!Tick
  <2> QED
    BY <1>1, <1>2, <1>4, <2>1
    DEF HandshakeInv, Handshake!TypeOK, OwnVerdict, Handshake!OwnVerdict, Handshake!Busy
<1> QED BY <1>3, <1>4

LEMMA HandshakeStart == Handshake!Init => HandshakeInv
BY HandshakeAssumption DEF Handshake!Init, HandshakeInv, Handshake!TypeOK, OwnVerdict, Handshake!OwnVerdict,
   Handshake!Phases, Handshake!Busy, Handshake!Looking, Handshake!Dead

LEMMA HandshakeStep == HandshakeInv /\ [Handshake!Next]_Handshake!vars => HandshakeInv'
<1> SUFFICES ASSUME HandshakeInv, [Handshake!Next]_Handshake!vars
             PROVE  HandshakeInv'
  OBVIOUS
<1>1. CASE UNCHANGED Handshake!vars
  BY <1>1 DEF Handshake!vars, HandshakeInv, Handshake!TypeOK, OwnVerdict, Handshake!OwnVerdict,
              Handshake!Busy
<1> QED BY <1>1, BackendSteps, WorkerSteps, FaultSteps, TimeStep DEF Handshake!Next

\* OwnVerdict: no deployment goes on with a candidate Asterisk would not load.
THEOREM VerdictIsOwn == Handshake!Spec => []OwnVerdict
BY HandshakeStart, HandshakeStep, PTL DEF HandshakeInv, Handshake!Spec
-----------------------------------------------------------------------------
(* All four *)

RuntimeInv == ListsInv /\ ServiceInv /\ EventsInv /\ HandshakeInv

LEMMA RuntimeInvariance == RuntimeSpec => []RuntimeInv
<1>1. RuntimeInit => RuntimeInv
    BY ListsStart, ServiceTypesStart, EventsStart, HandshakeStart DEF RuntimeInit, RuntimeInv
<1>2. RuntimeInv /\ [RuntimeNext]_runtimeVars => RuntimeInv'
  <2> SUFFICES ASSUME RuntimeInv, [RuntimeNext]_runtimeVars
               PROVE  RuntimeInv'
    OBVIOUS
  <2>1. /\ [ClientNext]_clientVars /\ [ServiceNext]_serviceVars
        /\ [Events!Next]_Events!vars /\ [Handshake!Next]_Handshake!vars
    BY DEF RuntimeNext, runtimeVars, eventsVars, handshakeVars, Events!vars, Handshake!vars
  <2> QED
    BY <2>1, ListsStep, ServiceTypesStep, EventsInvariance, HandshakeStep DEF RuntimeInv
<1> QED BY <1>1, <1>2, PTL DEF RuntimeSpec

\* The variables of all four keep their types, in every behaviour of any of them.
THEOREM RuntimeTypeCorrect == RuntimeSpec => []RuntimeTypesOK
<1>1. RuntimeInv => RuntimeTypesOK
    BY DEF ClientInv, Types, Wired, ClientTypeOK, RuntimeInv, ListsInv, ServiceInv, EventsInv,
           HandshakeInv, RuntimeTypesOK
<1> QED BY <1>1, RuntimeInvariance, PTL
=============================================================================
