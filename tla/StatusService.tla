--------------------------- MODULE StatusService ---------------------------
(***************************************************************************)
(* The connection life cycle of AmiStatusService (asterisk/status.ts) over *)
(* the AMI client that getAmiClient of asterisk/deploy.ts caches and       *)
(* shares with deployments: connect, snapshot, heartbeat, poll, close,     *)
(* backoff and stop.  A call is suspended at each await; its continuation  *)
(* is an action of its own.  What events and snapshots do to the statuses  *)
(* is in StatusEvents.                                                     *)
(*                                                                         *)
(* Connections are numbered; getAmiClient makes a new one only when the    *)
(* last is not connected, so only the last can be open.                    *)
(***************************************************************************)
EXTENDS Naturals, Sequences, FiniteSets, SequencesExt

CONSTANTS
    MaxIntervals,    \* bound: times the two intervals are set
    MaxFaults        \* bound: refusals, closed connections, missing answers

ASSUME StatusAssumption == {MaxIntervals, MaxFaults} \subseteq Nat

VARIABLES
    svc,        \* the fields of the service, with its running intervals
    connecting, \* connect() calls that wait for getAmiClient
    refreshes,  \* refreshSnapshot calls under way, oldest first
    pings,      \* connections with a heartbeat under way
    made,       \* connections made so far
    open,       \* whether the last of them is connected
    faults      \* faults still to come

serviceVars == <<svc, connecting, refreshes, pings, made, open, faults>>

-----------------------------------------------------------------------------
Connections == 1 .. MaxFaults + 1
NoClient == 0
NoInterval == 0
Interval == 1 .. MaxIntervals

Service == [running : BOOLEAN,
            state : {"connected", "reconnecting", "degraded"},
            attempt : Nat,                             \* reconnectAttempt
            client : {NoClient} \cup Connections,
            timer : BOOLEAN,                           \* reconnectTimer is set
            set : 0 .. MaxIntervals,                   \* history: intervals set so far
            heartbeatTimer : {NoInterval} \cup Interval,
            pollTimer : {NoInterval} \cup Interval,
            heartbeats : SUBSET Interval,              \* running, known or not
            polls : SUBSET [id : Interval, conn : Connections],
            listening : [Connections -> Nat]]          \* "message" listeners
Refresh == [by : {"connect", "poll", "event"}, conn : Connections]

\* Also that the two intervals run together.
ServiceTypeOK ==
    /\ svc \in Service
    /\ svc.heartbeats = {p.id : p \in svc.polls}
    /\ connecting \in Nat
    /\ refreshes \in Seq(Refresh)
    /\ pings \subseteq Connections
    /\ made \in {0} \cup Connections
    /\ open \in BOOLEAN /\ (open => made > 0)
    /\ faults \in 0 .. MaxFaults

\* getStatusService has made the service and called start().
ServiceInit ==
    /\ svc = [running |-> TRUE, state |-> "reconnecting", attempt |-> 0,
              client |-> NoClient, timer |-> FALSE, set |-> 0,
              heartbeatTimer |-> NoInterval, pollTimer |-> NoInterval,
              heartbeats |-> {}, polls |-> {}, listening |-> [k \in Connections |-> 0]]
    /\ connecting = 1
    /\ refreshes = << >>
    /\ pings = {}
    /\ made = 0
    /\ open = FALSE
    /\ faults = MaxFaults

-----------------------------------------------------------------------------
(* The methods without an await, as functions of the service. *)

StateAfter(attempt) == IF attempt >= 3 THEN "degraded" ELSE "reconnecting"

\* Mutant: nothing is scheduled after the first failure.
ScheduleOnce(s) ==
    IF ~s.running \/ s.timer \/ s.attempt > 0 THEN s
    ELSE [s EXCEPT !.attempt = @ + 1, !.state = StateAfter(s.attempt + 1), !.timer = TRUE]
ScheduleReconnect(s) ==
    IF ~s.running \/ s.timer THEN s
    ELSE [s EXCEPT !.attempt = @ + 1, !.state = StateAfter(s.attempt + 1), !.timer = TRUE]

ClearIntervals(s) ==
    [s EXCEPT !.heartbeats = @ \ {s.heartbeatTimer},
              !.polls = {p \in @ : p.id # s.pollTimer}]

StopListening(s) ==
    IF s.client = NoClient THEN s
    ELSE [s EXCEPT !.listening[s.client] = IF @ = 0 THEN 0 ELSE @ - 1]

\* Mutant: the intervals are cleared and nothing is scheduled.
DisconnectOnly(s) ==
    IF ~s.running THEN s ELSE [StopListening(ClearIntervals(s)) EXCEPT !.client = NoClient]
HandleDisconnect(s) ==
    IF ~s.running THEN s
    ELSE ScheduleReconnect([StopListening(ClearIntervals(s)) EXCEPT !.client = NoClient])

\* connect() up to the await of the client.
BeginConnect(s) == [s EXCEPT !.timer = FALSE, !.state = StateAfter(s.attempt)]

\* What a failed refresh leads to depends on who asked.
AfterFailure(by) ==
    IF by = "connect" THEN ScheduleReconnect(svc) ELSE HandleDisconnect(svc)

-----------------------------------------------------------------------------
Alive(k) == open /\ k = made

\* Calls on a connection that is gone fail before anything else happens.
Failing ==
    \/ \E i \in DOMAIN refreshes : ~Alive(refreshes[i].conn)
    \/ \E k \in pings : ~Alive(k)

Fault == faults > 0 /\ faults' = faults - 1

Stop ==
    /\ svc.running
    /\ svc' = [StopListening(ClearIntervals(svc)) EXCEPT !.running = FALSE]
    /\ UNCHANGED <<connecting, refreshes, pings, made, open, faults>>

\* Bound: every attempt under way can still set its intervals.
RoomForAttempt ==
    connecting + Cardinality({i \in DOMAIN refreshes : refreshes[i].by = "connect"})
        < MaxIntervals - svc.set

ReconnectTimer ==
    /\ svc.running /\ svc.timer
    /\ RoomForAttempt
    /\ svc' = BeginConnect(svc)
    /\ connecting' = connecting + 1
    /\ UNCHANGED <<refreshes, pings, made, open, faults>>

\* getAmiClient resolves: with the cached client if that is connected, else
\* with a new one.  The service listens and asks for a snapshot.
ClientArrives ==
    /\ connecting > 0
    /\ connecting' = connecting - 1
    /\ made' = (IF open THEN made ELSE made + 1) /\ made' \in Connections
    /\ open' = TRUE
    /\ IF svc.running
         THEN /\ svc' = [svc EXCEPT !.client = made', !.listening[made'] = @ + 1,
                                    !.state = "connected", !.attempt = 0]
              /\ refreshes' = Append(refreshes, [by |-> "connect", conn |-> made'])
         ELSE UNCHANGED <<svc, refreshes>>
    /\ UNCHANGED <<pings, faults>>

ClientRefused ==
    /\ connecting > 0
    /\ ~open
    /\ Fault
    /\ connecting' = connecting - 1
    /\ svc' = ScheduleReconnect(svc)
    /\ UNCHANGED <<refreshes, pings, made, open>>

\* refreshSnapshot resolves; behind it connect() sets the two intervals.
RefreshAnswered(i) ==
    /\ Alive(refreshes[i].conn)
    /\ refreshes' = RemoveAt(refreshes, i)
    /\ IF refreshes[i].by = "connect"
         THEN LET id == svc.set + 1 IN
              /\ id \in Interval
              /\ svc' = [svc EXCEPT !.set = id, !.heartbeatTimer = id, !.pollTimer = id,
                                    !.heartbeats = @ \cup {id},
                                    !.polls = @ \cup {[id |-> id, conn |-> refreshes[i].conn]}]
         ELSE UNCHANGED svc
    /\ UNCHANGED <<connecting, pings, made, open, faults>>

\* Not answered in time.  Both actions of a refresh have the same deadline,
\* so an older refresh of the connection times out before a younger one.
RefreshTimesOut(i) ==
    /\ Alive(refreshes[i].conn)
    /\ \A j \in 1 .. i - 1 : refreshes[j].conn # made
    /\ Fault
    /\ refreshes' = RemoveAt(refreshes, i)
    /\ svc' = AfterFailure(refreshes[i].by)
    /\ UNCHANGED <<connecting, pings, made, open>>

RefreshRejected(i) ==
    /\ ~Alive(refreshes[i].conn)
    /\ refreshes' = RemoveAt(refreshes, i)
    /\ svc' = AfterFailure(refreshes[i].by)
    /\ UNCHANGED <<connecting, pings, made, open, faults>>

\* The poll interval was set for the client of its connect().
PollFires ==
    /\ \E p \in svc.polls :
        /\ [by |-> "poll", conn |-> p.conn] \notin ToSet(refreshes)
        /\ refreshes' = Append(refreshes, [by |-> "poll", conn |-> p.conn])
    /\ UNCHANGED <<svc, connecting, pings, made, open, faults>>

\* A queue member event asks for a snapshot of the current client.
MemberEvent ==
    /\ open /\ svc.listening[made] > 0
    /\ svc.client # NoClient
    /\ [by |-> "event", conn |-> svc.client] \notin ToSet(refreshes)
    /\ refreshes' = Append(refreshes, [by |-> "event", conn |-> svc.client])
    /\ UNCHANGED <<svc, connecting, pings, made, open, faults>>

\* heartbeat().  Without a client it fails at once.
HeartbeatFires ==
    /\ svc.heartbeats # {}
    /\ IF svc.client = NoClient
         THEN svc' = HandleDisconnect(svc) /\ UNCHANGED pings
         ELSE /\ svc.client \notin pings
              /\ pings' = pings \cup {svc.client} /\ UNCHANGED svc
    /\ UNCHANGED <<connecting, refreshes, made, open, faults>>

PingAnswered(k) ==
    /\ Alive(k)
    /\ pings' = pings \ {k}
    /\ UNCHANGED <<svc, connecting, refreshes, made, open, faults>>

\* A heartbeat that fails disconnects the client the service has by then,
\* without a "closed" event, also for a deployment that uses it.
PingFails(k) ==
    /\ IF Alive(k) THEN Fault ELSE UNCHANGED faults
    /\ pings' = pings \ {k}
    /\ open' = (open /\ svc.client # made)
    /\ svc' = HandleDisconnect(svc)
    /\ UNCHANGED <<connecting, refreshes, made>>

\* The socket closes; the service hears of a connection it has listened to.
ConnectionCloses ==
    /\ open
    /\ Fault
    /\ open' = FALSE
    /\ svc' = HandleDisconnect(svc)
    /\ UNCHANGED <<connecting, refreshes, pings, made>>

Failures ==
    \/ \E i \in DOMAIN refreshes : RefreshRejected(i)
    \/ \E k \in pings : ~Alive(k) /\ PingFails(k)

Answers ==
    \/ \E i \in DOMAIN refreshes : RefreshAnswered(i)
    \/ \E k \in pings : PingAnswered(k)

Faults ==
    \/ ClientRefused \/ ConnectionCloses
    \/ \E i \in DOMAIN refreshes : RefreshTimesOut(i)
    \/ \E k \in pings : Alive(k) /\ PingFails(k)

ServiceNext ==
    \/ Failures
    \/ /\ ~Failing
       /\ \/ ReconnectTimer \/ ClientArrives \/ PollFires \/ HeartbeatFires \/ MemberEvent
          \/ Answers \/ Faults \/ Stop

ServiceSpec == ServiceInit /\ [][ServiceNext]_serviceVars

\* The timer runs off and a connection is made or refused; calls on a
\* connection that is gone fail.
FairServiceSpec ==
    /\ ServiceSpec
    /\ WF_serviceVars(Failures)
    /\ WF_serviceVars(~Failing /\ ReconnectTimer)
    /\ WF_serviceVars(~Failing /\ (ClientArrives \/ ClientRefused))

-----------------------------------------------------------------------------
(* Properties *)

\* A running service is never left without anything that would notice the
\* state of Asterisk: a timer, an attempt under way, or a heartbeat
\* (scheduleReconnect's early return, the overwritten intervals).
AlwaysWatching ==
    svc.running =>
        \/ svc.timer
        \/ connecting > 0
        \/ \E i \in DOMAIN refreshes : refreshes[i].by = "connect"
        \/ svc.heartbeats # {}

\* Once no faults come any more a running service is connected
\* (architecture.md, "reconnects with exponential backoff").
Recovers == faults = 0 /\ svc.running ~> (open /\ svc.client = made) \/ ~svc.running

\* The service gives its open connection up only for a fault of it.
KeepsHealthyConnection ==
    [][open /\ svc.client = made /\ svc'.running /\ svc'.client # made => faults' < faults]_serviceVars
=============================================================================
