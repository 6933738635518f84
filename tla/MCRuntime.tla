------------------------------ MODULE MCRuntime ------------------------------
(***************************************************************************)
(* Between the backend and Asterisk, on small sets: the manager connection *)
(* and who waits for its answers (AmiClient), the service that keeps one   *)
(* open (StatusService), what it shows (StatusEvents) and the handshake    *)
(* with the preflight worker (Preflight).  They share no state, so their   *)
(* steps need not be interleaved: the initial state chooses which of them  *)
(* takes all the steps of a behaviour, and the others rest.                *)
(***************************************************************************)
EXTENDS AmiClient, StatusService

CONSTANTS Phones, MaxCalls, MaxChanges, MaxKeys, KeptKeys
CONSTANTS Deployments, Good, Deadline, WorkerLimit, MaxDeaths

ASSUME EventsAssumption ==
    {MaxCalls, MaxChanges, MaxKeys, KeptKeys} \subseteq Nat /\ KeptKeys < MaxKeys
ASSUME HandshakeAssumption == {Deadline, WorkerLimit, MaxDeaths} \subseteq Nat

VARIABLES truth, calls, asked, stream, endpoints, statuses, eventKeys, changes
VARIABLES phase, elapsed, requests, results, worker, deaths
VARIABLE part   \* whose behaviour this is

Events == INSTANCE StatusEvents WITH wire <- stream
Handshake == INSTANCE Preflight WITH faults <- deaths, MaxFaults <- MaxDeaths

eventsVars == <<truth, calls, asked, stream, endpoints, statuses, eventKeys, changes>>
handshakeVars == <<phase, elapsed, requests, results, worker, deaths>>
runtimeVars == <<clientVars, serviceVars, eventsVars, handshakeVars, part>>

RuntimeInit ==
    /\ ClientInit /\ ServiceInit /\ Events!Init /\ Handshake!Init
    /\ part \in {"client", "service", "events", "preflight"}

RuntimeNext ==
    /\ \/ part = "client" /\ ClientNext /\ UNCHANGED <<serviceVars, eventsVars, handshakeVars>>
       \/ part = "service" /\ ServiceNext /\ UNCHANGED <<clientVars, eventsVars, handshakeVars>>
       \/ part = "events" /\ Events!Next /\ UNCHANGED <<clientVars, serviceVars, handshakeVars>>
       \/ part = "preflight" /\ Handshake!Next /\ UNCHANGED <<clientVars, serviceVars, eventsVars>>
    /\ UNCHANGED part

\* The fairness of each, while it is on.
RuntimeFairness ==
    /\ WF_serviceVars(part = "service" /\ Failures)
    /\ WF_serviceVars(part = "service" /\ ~Failing /\ ReconnectTimer)
    /\ WF_serviceVars(part = "service" /\ ~Failing /\ (ClientArrives \/ ClientRefused))
    /\ WF_eventsVars(part = "events" /\ Events!Poll)
    /\ WF_eventsVars(part = "events" /\ Events!ListAnswered)
    /\ WF_eventsVars(part = "events" /\ Events!Receive)
    /\ WF_handshakeVars(part = "preflight" /\ Handshake!Tick)
    /\ WF_handshakeVars(part = "preflight"
          /\ (Handshake!Take \/ Handshake!Answer \/ Handshake!Done))
    /\ \A d \in Deployments :
          WF_handshakeVars(part = "preflight" /\ (Handshake!Poll(d) \/ Handshake!GiveUp(d)))

RuntimeSpec == RuntimeInit /\ [][RuntimeNext]_runtimeVars /\ RuntimeFairness

-----------------------------------------------------------------------------
\* The variables of all four are what they are meant to be.
RuntimeTypesOK == ClientTypeOK /\ ServiceTypeOK /\ Events!TypeOK /\ Handshake!TypeOK

\* Those of StatusEvents.
Converges == part = "events" => Events!Converges

\* Those of Preflight.
OwnVerdict == Handshake!OwnVerdict
AllEnd == Handshake!AllEnd
=============================================================================
