-------------------------------- MODULE MCCalls --------------------------------
(***************************************************************************)
(* Calls on small sets: the way of a topology from the editor to a call    *)
(* (CallFlow) and opening hours (Schedule).  A behaviour shows one scene:  *)
(*   "names"  the editor adds nodes whose names collide,                   *)
(*   "walk"   it adds edges to three nodes of given types, and a caller    *)
(*            walks through what was deployed,                             *)
(*   "hours"  a schedule is deployed and the clock runs.                   *)
(* What the scene does not show rests in an initial state.                 *)
(***************************************************************************)
EXTENDS CallFlow, TLC

CONSTANTS a1, a2, b, c, u1, u2, v, box1, box2, name1, name2, name3, user1, user2
CONSTANTS DayMinutes, LastDay, WindowIds, MaxDate
CONSTANTS NamesEdges, WalkEdges   \* bounds: edges in these scenes

VARIABLES schedule, dialplan, now, scene

Hours == INSTANCE Schedule

ASSUME HoursAssumption ==
    {DayMinutes, LastDay, MaxDate} \subseteq Nat \ {0}

hourVars == <<schedule, dialplan, now>>
callsVars == <<vars, hourVars, scene>>

-----------------------------------------------------------------------------
\* a1 and a2, and u1 and u2, differ only in a character that is replaced.
MCSanitize ==
    (a1 :> name1) @@ (a2 :> name1) @@ (b :> name2) @@ (c :> name3)
    @@ (u1 :> user1) @@ (u2 :> user1) @@ (v :> user2)

N(id, type, number, user, box) ==
    [id |-> id, type |-> type, number |-> number, user |-> user, mailbox |-> box,
     retries |-> 2, inRange |-> TRUE]
E(source, target, condition) ==
    [source |-> source, target |-> target, condition |-> condition, digit |-> NoDigit]
D(source, target, digit) ==
    [source |-> source, target |-> target, condition |-> "digit", digit |-> digit]
M(group, member) == [group |-> group, member |-> member]
Ext(id, number, user, box) == N(id, "extension", number, user, box)
Other(id, type) == N(id, type, 101, v, NoMailbox)

\* What collides, and one of everything that is refused by itself.
CollidingNodes ==
    {Ext(id, number, user, box) : id \in {a1, a2, b}, number \in {101, 600},
                                  user \in {u1, u2, v}, box \in {NoMailbox, box1}}
    \cup {Other(id, type) : id \in {a1, a2, b}, type \in {"ivr", "queue", "ringgroup", "trunk"}}
    \cup {N(id, "voicemail", 101, v, box) : id \in {a1, a2, b}, box \in {box1, box2}}
    \cup {Malformed, Ext(b, InvalidNumber, v, NoMailbox), Ext(b, 112, v, NoMailbox),
          Ext(b, 101, UnsafeUser, NoMailbox), Ext(b, 101, v, EmptyMailbox),
          [Other(a1, "ivr") EXCEPT !.inRange = FALSE], [Other(a1, "ivr") EXCEPT !.retries = 0]}
CollidingEdges ==
    {E(s, t, "timeout") : s \in {a1, b}, t \in {a1, b, c}} \cup {D(a1, b, d) : d \in Digits}
CollidingMembers == {M(g, m) : g \in {a1, b}, m \in {a1, b, c}}

\* Menus; a queue and a schedule; a ring group and voicemail.
WalkNodes ==
    {<<Other(a1, "ivr"), Other(b, "ivr"), Ext(c, 101, v, box1)>>,
     <<Other(a1, "queue"), Other(b, "schedule"), Ext(c, 600, v, NoMailbox)>>,
     <<Ext(a1, 101, u1, NoMailbox), Other(b, "ringgroup"), N(c, "voicemail", 101, v, box1)>>}
WalkChoices ==
    {e \in {E(s, t, cond) : s \in {a1, b, c}, t \in {a1, b, c},
             cond \in {"timeout", "invalid", "open", "closed", "unconditional"}}
           \cup {D(s, t, d) : s \in {a1, b}, t \in {a1, b, c}, d \in Digits} :
        e.source # e.target}
WalkMembers == {M(a1, c), M(b, a1), M(c, c)}

\* No window, one, or two; ids are interchangeable.
FirstId == CHOOSE id \in WindowIds : TRUE
FewWindows == {{}} \cup {{w, x} : w \in {y \in Hours!Window : y.id = FirstId}, x \in Hours!Window}

-----------------------------------------------------------------------------
CallsInit ==
    /\ scene \in {"names", "walk", "hours"}
    /\ config = NotDeployed /\ call = NoCall
    /\ \E ns \in IF scene = "walk" THEN WalkNodes ELSE {<<>>} :
          draft = [nodes |-> ns, edges |-> {}, memberships |-> {}]
    /\ \E ws \in FewWindows, hs \in {{}, {2}} :
          /\ scene # "hours" => ws = {} /\ hs = {}
          /\ schedule = [windows |-> ws, holidays |-> hs]
    /\ dialplan = Hours!NotDeployed
    /\ now = [date |-> 1, weekday |-> 1, minute |-> 0]

Names ==
    /\ scene = "names"
    /\ \/ /\ Len(draft.nodes) < MaxNodes - 1
          /\ draft.edges = {} /\ draft.memberships = {}
          /\ \E n \in CollidingNodes : AddNode(n)
       \/ Cardinality(draft.edges) < NamesEdges /\ \E e \in CollidingEdges : AddEdge(e)
       \/ draft.memberships = {} /\ \E m \in CollidingMembers : AddMembership(m)
       \/ Deploy

Walking ==
    /\ scene = "walk"
    /\ \/ Cardinality(draft.edges) < WalkEdges /\ \E e \in WalkChoices : AddEdge(e)
       \/ draft.memberships = {} /\ \E m \in WalkMembers : AddMembership(m)
       \/ Deploy \/ DialNumber \/ Walk \/ Leave

CallsNext ==
    /\ \/ (Names \/ Walking) /\ UNCHANGED hourVars
       \/ scene = "hours" /\ Hours!Next /\ UNCHANGED vars
    /\ UNCHANGED scene

\* Asterisk goes on with a call; nobody has to hang up.
CallsFairness == WF_vars(scene = "walk" /\ Walk)

-----------------------------------------------------------------------------
\* The variables of CallFlow and of Schedule are what they are meant to be.
CallsTypesOK == TypeOK /\ Hours!TypeOK

\* Those of Schedule.
MirrorAgreesBeforeMidnight == Hours!MirrorAgreesBeforeMidnight
OverlapIsExact == scene = "hours" => Hours!OverlapIsExact
=============================================================================
