---------------------------- MODULE StatusEvents ----------------------------
(***************************************************************************)
(* What AmiStatusService (asterisk/status.ts) shows of the phones: events  *)
(* of Asterisk, deduplicated by a key without a time, and snapshots made   *)
(* of two lists, all in the order of one connection.  How the connection   *)
(* is kept is in StatusService.                                            *)
(***************************************************************************)
EXTENDS Naturals, Sequences, FiniteSets, SequencesExt, Functions

CONSTANTS
    Phones,
    MaxCalls,    \* bound: calls
    MaxChanges,  \* bound: changes in Asterisk, closed connections, pauses
    MaxKeys,     \* 1000 in the code
    KeptKeys     \* 900 in the code, less than MaxKeys

VARIABLES
    truth,     \* Asterisk: per phone, registration and call
    calls,     \* Asterisk: calls so far
    asked,     \* list actions on their way to Asterisk
    wire,      \* messages on their way to the service
    endpoints, \* lists of endpoints waiting for their list of queues
    statuses,  \* what the service shows
    eventKeys, \* keys of the events seen, oldest first
    changes    \* changes still to come

vars == <<truth, calls, asked, wire, endpoints, statuses, eventKeys, changes>>
asterisk == <<truth, calls, asked>>
service == <<endpoints, statuses, eventKeys>>

-----------------------------------------------------------------------------
Activity == {"idle", "ringing", "in_call"}
Status == [availability : {"online", "offline", "unknown"}, activity : Activity]
Phone == [registered : BOOLEAN, activity : Activity, call : 0 .. MaxCalls]
Event == [event : {"Created", "Removed", "Ringing", "BridgeEnter", "BridgeLeave", "Hangup"},
          phone : Phones, call : 0 .. MaxCalls]
List == [Phones -> [availability : {"online", "offline"}, activity : Activity]]
Message == [type : {"event"}, body : Event] \cup [type : {"endpoints"}, body : List]
           \cup [type : {"queues"}]
Key == [key : Event, old : BOOLEAN]   \* old: seen more than 120 s ago

\* Also that no event is remembered twice and the memory is bounded.
TypeOK ==
    /\ truth \in [Phones -> Phone]
    /\ calls \in 0 .. MaxCalls
    /\ asked \in Seq({"endpoints", "queues"})
    /\ wire \in Seq(Message)
    /\ endpoints \in Seq(List)
    /\ statuses \in [Phones -> Status]
    /\ eventKeys \in Seq(Key) /\ Len(eventKeys) <= MaxKeys
    /\ IsInjective([i \in DOMAIN eventKeys |-> eventKeys[i].key])
    /\ changes \in 0 .. MaxChanges

Unknown == [p \in Phones |-> [availability |-> "unknown", activity |-> "idle"]]
Refresh == <<"endpoints", "queues">>

Init ==
    /\ truth = [p \in Phones |-> [registered |-> FALSE, activity |-> "idle", call |-> 0]]
    /\ calls = 0
    /\ asked = Refresh
    /\ wire = << >>
    /\ endpoints = << >>
    /\ statuses = Unknown
    /\ eventKeys = << >>
    /\ changes = MaxChanges

-----------------------------------------------------------------------------
(* Asterisk *)

Emit(name, p, call) ==
    [type |-> "event", body |-> [event |-> name, phone |-> p, call |-> call]]
Changing == changes > 0 /\ changes' = changes - 1

\* A contact is registered or expires; its event carries no identity.
Contact(p) ==
    /\ Changing
    /\ truth' = [truth EXCEPT ![p].registered = ~@]
    /\ wire' = Append(wire, Emit(IF truth[p].registered THEN "Removed" ELSE "Created", p, 0))
    /\ UNCHANGED <<calls, asked>> /\ UNCHANGED service

CallRings(p) ==
    /\ Changing
    /\ truth[p].registered /\ truth[p].activity = "idle"
    /\ calls < MaxCalls /\ calls' = calls + 1
    /\ truth' = [truth EXCEPT ![p].activity = "ringing", ![p].call = calls + 1]
    /\ wire' = Append(wire, Emit("Ringing", p, calls + 1))
    /\ UNCHANGED asked /\ UNCHANGED service

CallAnswered(p) ==
    /\ Changing
    /\ truth[p].activity = "ringing"
    /\ truth' = [truth EXCEPT ![p].activity = "in_call"]
    /\ wire' = Append(wire, Emit("BridgeEnter", p, truth[p].call))
    /\ UNCHANGED <<calls, asked>> /\ UNCHANGED service

CallEnds(p) ==
    /\ Changing
    /\ truth[p].activity # "idle"
    /\ truth' = [truth EXCEPT ![p].activity = "idle"]
    /\ wire' = wire
               \o (IF truth[p].activity = "in_call"
                     THEN <<Emit("BridgeLeave", p, truth[p].call)>> ELSE << >>)
               \o <<Emit("Hangup", p, truth[p].call)>>
    /\ UNCHANGED <<calls, asked>> /\ UNCHANGED service

\* A phone shows as unavailable when it has no contact.
Listed(p) == [availability |-> IF truth[p].registered THEN "online" ELSE "offline",
              activity |-> truth[p].activity]

ListAnswered ==
    /\ asked # << >>
    /\ asked' = Tail(asked)
    /\ wire' = Append(wire, IF Head(asked) = "queues" THEN [type |-> "queues"]
                            ELSE [type |-> "endpoints", body |-> [p \in Phones |-> Listed(p)]])
    /\ UNCHANGED <<truth, calls, changes>> /\ UNCHANGED service

-----------------------------------------------------------------------------
(* The service *)

\* Keys are in the order of their times, so what has expired comes first.
Forget(keys) ==
    IF Len(keys) <= MaxKeys THEN keys
    ELSE LET gone == {i \in DOMAIN keys : keys[i].old \/ i <= Len(keys) - KeptKeys}
         IN  SubSeq(keys, Cardinality(gone) + 1, Len(keys))

\* Of a contact's status, whether there is a contact: the generated
\* qualify_frequency=0 leaves nothing to be reached or not.
Shown(status, event) ==
    CASE event = "Created" -> [status EXCEPT !.availability = "online"]
      [] event = "Removed" -> [status EXCEPT !.availability = "offline"]
      [] event = "Ringing" -> [status EXCEPT !.activity = "ringing"]
      [] event = "BridgeEnter" -> [availability |-> "online", activity |-> "in_call"]
      [] event = "Hangup" -> [status EXCEPT !.activity = "idle"]
      [] event = "BridgeLeave" -> status

Seen(e) == \E i \in DOMAIN eventKeys : eventKeys[i].key = e

\* onMessage.
ReceiveEvent ==
    /\ wire # << >> /\ Head(wire).type = "event"
    /\ wire' = Tail(wire)
    /\ LET e == Head(wire).body IN
       IF Seen(e) THEN UNCHANGED <<asked, statuses, eventKeys>>
       ELSE /\ eventKeys' = Forget(Append(eventKeys, [key |-> e, old |-> FALSE]))
            /\ statuses' = [statuses EXCEPT ![e.phone] = Shown(@, e.event)]
            /\ asked' = IF e.event = "BridgeLeave" THEN asked \o Refresh ELSE asked
    /\ UNCHANGED <<truth, calls, endpoints, changes>>

\* refreshSnapshot: the first of its two lists is kept until the second is
\* there, and events received between them are overwritten.
ReceiveEndpoints ==
    /\ wire # << >> /\ Head(wire).type = "endpoints"
    /\ wire' = Tail(wire)
    /\ endpoints' = Append(endpoints, Head(wire).body)
    /\ UNCHANGED <<statuses, eventKeys, changes>> /\ UNCHANGED asterisk

\* Mutant: a snapshot only tells what is not known yet.
FillUnknown(list) ==
    [p \in Phones |-> IF statuses[p].availability = "unknown" THEN list[p] ELSE statuses[p]]
Rebuilt(list) == list

ReceiveQueues ==
    /\ wire # << >> /\ Head(wire).type = "queues"
    /\ wire' = Tail(wire)
    /\ statuses' = Rebuilt(Head(endpoints))
    /\ endpoints' = Tail(endpoints)
    /\ UNCHANGED <<eventKeys, changes>> /\ UNCHANGED asterisk

Receive == ReceiveEvent \/ ReceiveEndpoints \/ ReceiveQueues

\* The poll has a period longer than the deadline of its answers.
Poll ==
    /\ asked = << >> /\ endpoints = << >> /\ \A i \in DOMAIN wire : wire[i].type = "event"
    /\ asked' = Refresh
    /\ UNCHANGED <<truth, calls, wire, changes>> /\ UNCHANGED service

\* The connection is lost and made again; the keys of the events stay.
Reconnect ==
    /\ Changing
    /\ wire' = << >> /\ endpoints' = << >>
    /\ statuses' = Unknown
    /\ asked' = Refresh
    /\ UNCHANGED <<truth, calls, eventKeys>>

\* Two minutes pass.
TimePasses ==
    /\ Changing
    /\ \E i \in DOMAIN eventKeys : ~eventKeys[i].old
    /\ eventKeys' = [i \in DOMAIN eventKeys |-> [eventKeys[i] EXCEPT !.old = TRUE]]
    /\ UNCHANGED <<wire, endpoints, statuses>> /\ UNCHANGED asterisk

Next ==
    \/ \E p \in Phones : Contact(p) \/ CallRings(p) \/ CallAnswered(p) \/ CallEnds(p)
    \/ ListAnswered \/ Receive \/ Poll \/ Reconnect \/ TimePasses

Spec == Init /\ [][Next]_vars

\* The interval of the poll runs off, Asterisk answers and the connection delivers.
FairSpec == Spec /\ WF_vars(Poll) /\ WF_vars(ListAnswered) /\ WF_vars(Receive)

-----------------------------------------------------------------------------
(* Properties *)

\* Whatever events were dropped as duplicates or overwritten by an older
\* list, the poll brings what is shown back to the truth (status.ts, pollTimer).
Converges == <>[](\A p \in Phones : statuses[p] = Listed(p))
=============================================================================
