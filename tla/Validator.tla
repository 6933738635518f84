------------------------------ MODULE Validator ------------------------------
(***************************************************************************)
(* validateTopology of shared/src/validator.ts: which topologies may be    *)
(* saved and deployed.  Issues of severity error are the negations of the  *)
(* named conjuncts below; warnings accept and are left out, except the one *)
(* for a cycle check that was cut off.                                     *)
(*                                                                         *)
(* A topology is a record of a sequence of nodes and of sets of edges and  *)
(* memberships.  A node keeps what other nodes can collide with or refer   *)
(* to; "inRange" stands for the tests of a single value (timeouts,         *)
(* strategies, policies, the greeting, a schedule's windows, see Schedule).*)
(* Edges and memberships without ids of their own: a duplicate id, or a    *)
(* duplicate of the whole, is an error in the code and no set here.        *)
(***************************************************************************)
EXTENDS Naturals, Sequences, FiniteSets, Functions

CONSTANTS
    NodeIds,       \* ids of nodes
    SipUsers,      \* SIP user names
    Mailboxes,     \* mailbox numbers
    Sanitize,      \* id or user to its name in Asterisk: [^A-Za-z0-9_] to _
    Digits,        \* keys of a telephone
    Malformed,     \* JSON that is no node
    UnsafeUser,    \* a SIP user with characters outside the safe set
    NoDigit,       \* the edge's condition is no digit
    NoMailbox,     \* voicemail is not enabled
    EmptyMailbox,  \* enabled without a mailbox number
    MaxNodes,      \* 1000 in the code
    MaxCycles      \* MAX_CYCLES_EXPLORED, 5000 in the code

ASSUME ValidatorAssumption ==
    /\ NodeIds \cup SipUsers \subseteq DOMAIN Sanitize
    /\ UnsafeUser \notin SipUsers /\ NoDigit \notin Digits
    /\ {NoMailbox, EmptyMailbox} \cap Mailboxes = {}
    /\ MaxNodes \in Nat \ {0} /\ MaxCycles \in Nat

-----------------------------------------------------------------------------
NodeTypes == {"extension", "ivr", "ringgroup", "queue", "schedule", "voicemail",
              "trunk", "external"}
DisabledTypes == {"trunk", "external"}
Conditions == {"digit", "timeout", "invalid", "open", "closed", "unconditional"}
ReservedNumbers == {110, 112}
InvalidNumber == 0

Node == [id : NodeIds,
         type : NodeTypes,
         number : Nat,                                      \* of an extension
         user : SipUsers \cup {UnsafeUser},                 \* of an extension
         mailbox : Mailboxes \cup {NoMailbox, EmptyMailbox},
         retries : Nat,                                     \* of an IVR
         inRange : BOOLEAN]
Edge == [source : NodeIds, target : NodeIds, condition : Conditions, digit : Digits \cup {NoDigit}]
Membership == [group : NodeIds, member : NodeIds]

\* ALLOWED_TRANSITIONS: voicemail is terminal, trunk and external disabled.
AllowedTargets(type) ==
    CASE type = "extension" -> {"ivr", "ringgroup", "queue", "schedule", "voicemail"}
      [] type = "ivr"       -> {"extension", "ringgroup", "queue", "schedule", "voicemail"}
      [] type = "ringgroup" -> {"extension", "ivr", "queue", "schedule", "voicemail"}
      [] type = "queue"     -> {"extension", "ivr", "schedule", "voicemail"}
      [] type = "schedule"  -> {"extension", "ivr", "ringgroup", "queue", "schedule", "voicemail"}
      [] OTHER              -> {}
IsTransitionAllowed(source, target) == target \in AllowedTargets(source)

-----------------------------------------------------------------------------
Indices(t) == DOMAIN t.nodes
IdsOf(t) == {t.nodes[i].id : i \in Indices(t)}
\* nodeById finds the first node with an id.
NodeById(t, id) ==
    t.nodes[CHOOSE i \in Indices(t) : t.nodes[i].id = id /\ \A j \in 1 .. i - 1 : t.nodes[j].id # id]
Outgoing(t, id) == {e \in t.edges : e.source = id}
OfType(t, types) == {i \in Indices(t) : t.nodes[i].type \in types}

\* validateTopologyShape.  Nothing below is evaluated if it fails.
ShapeAccepted(t) ==
    /\ Len(t.nodes) <= MaxNodes
    /\ \A i \in Indices(t) : t.nodes[i] # Malformed

-----------------------------------------------------------------------------
(* validateNodes *)

\* Mutant: names are compared before they are normalised.
NodeNamesUnnormalised(t) == IsInjective([i \in Indices(t) |-> t.nodes[i].id])
NodeNamesDistinct(t) ==
    /\ IsInjective([i \in Indices(t) |-> t.nodes[i].id])
    /\ IsInjective([i \in Indices(t) |-> Sanitize[t.nodes[i].id]])

ExtensionsAccepted(t) ==
    LET exts == OfType(t, {"extension"}) IN
    /\ \A i \in exts : t.nodes[i].number \notin ReservedNumbers \cup {InvalidNumber}
    /\ IsInjective([i \in exts |-> t.nodes[i].number])
    /\ \A i \in exts : t.nodes[i].user # UnsafeUser
    /\ IsInjective([i \in exts |-> Sanitize[t.nodes[i].user]])

\* checkMailbox, shared by voicemail nodes and extensions with voicemail.
MailboxesAccepted(t) ==
    LET boxes == {i \in OfType(t, {"extension"}) : t.nodes[i].mailbox # NoMailbox}
                 \cup OfType(t, {"voicemail"})
    IN  /\ \A i \in boxes : t.nodes[i].mailbox \in Mailboxes
        /\ IsInjective([i \in boxes |-> t.nodes[i].mailbox])

NodesAccepted(t) ==
    /\ NodeNamesDistinct(t)
    /\ OfType(t, DisabledTypes) = {}
    /\ ExtensionsAccepted(t)
    /\ MailboxesAccepted(t)
    /\ \A i \in OfType(t, {"ivr"}) : t.nodes[i].retries >= 1
    /\ \A i \in Indices(t) : t.nodes[i].inRange

-----------------------------------------------------------------------------
(* validateEdges *)

EndsExist(t, e) == {e.source, e.target} \subseteq IdsOf(t)

ConditionFits(t, e) ==
    LET type == NodeById(t, e.source).type IN
    /\ type = "schedule" <=> e.condition \in {"open", "closed"}
    /\ e.condition \in {"digit", "invalid"} => type = "ivr"
    /\ e.condition = "digit" => e.digit \in Digits

\* Two edges of a node with one condition, or one digit, are ambiguous.
Unambiguous(t) ==
    \A e, f \in t.edges :
        /\ e.source = f.source
        /\ e.condition = f.condition
        /\ e.digit = f.digit
        => e = f

OutputsAccepted(t) ==
    \A i \in Indices(t) :
        LET out == Outgoing(t, t.nodes[i].id) IN
        CASE t.nodes[i].type = "schedule" ->
                /\ {"open", "closed"} \subseteq {e.condition : e \in out}
                /\ Cardinality(out) = 2
          [] t.nodes[i].type \in {"ivr", "voicemail"} -> TRUE
          [] OTHER -> Cardinality(out) <= 1

EdgesAccepted(t) ==
    /\ \A e \in t.edges :
        /\ EndsExist(t, e)
        /\ e.source # e.target
        /\ IsTransitionAllowed(NodeById(t, e.source).type, NodeById(t, e.target).type)
        /\ ConditionFits(t, e)
    /\ Unambiguous(t)
    /\ OutputsAccepted(t)

-----------------------------------------------------------------------------
(* validateMemberships, validateGroupsHaveMembers *)

\* Mutant: members may be anything.
MembersAreNodes(t) ==
    \A m \in t.memberships :
        /\ m.group \in IdsOf(t) /\ NodeById(t, m.group).type \in {"ringgroup", "queue"}
        /\ m.member \in IdsOf(t)
MembershipsAccepted(t) ==
    \A m \in t.memberships :
        /\ m.group \in IdsOf(t) /\ NodeById(t, m.group).type \in {"ringgroup", "queue"}
        /\ m.member \in IdsOf(t) /\ NodeById(t, m.member).type = "extension"

GroupsHaveMembers(t) ==
    \A i \in OfType(t, {"ringgroup", "queue"}) :
        \E m \in t.memberships : m.group = t.nodes[i].id

-----------------------------------------------------------------------------
(* findUnsafeCycles *)

IsExitCondition(e) == e.condition \in {"timeout", "invalid"}

IndexOf(t, id) == CHOOSE i \in Indices(t) : t.nodes[i].id = id

\* Paths of edges that the walk from a start node has taken: no node twice,
\* none before the start.
PathsFrom(t, start) ==
    LET from == {e \in t.edges : EndsExist(t, e) /\ IndexOf(t, e.target) >= IndexOf(t, start)}
        extend[k \in 1 .. Len(t.nodes)] ==
            IF k = 1 THEN {<<e>> : e \in {f \in from : f.source = start}}
            ELSE UNION {{Append(p, e) : e \in {f \in from :
                            /\ p[k - 1].target = f.source
                            /\ f.source # start
                            /\ \A j \in 1 .. k - 2 : p[j].target # f.source}} : p \in extend[k - 1]}
    IN  UNION {extend[k] : k \in 1 .. Len(t.nodes)}

\* Mutant: a cycle is looked for from the first node only.
CyclesFromFirst(t) ==
    IF t.nodes = <<>> THEN {} ELSE
    LET start == t.nodes[1].id IN {p \in PathsFrom(t, start) : p[Len(p)].target = start}
Cycles(t) ==
    UNION {{p \in PathsFrom(t, start) : p[Len(p)].target = start} : start \in IdsOf(t)}

\* The walk stops after MaxCycles cycles; which ones those are depends on the
\* order of the edges, here any.
CheckTruncated(t) == Cardinality(Cycles(t)) > MaxCycles
Explored(t) ==
    IF CheckTruncated(t)
      THEN {seen \in SUBSET Cycles(t) : Cardinality(seen) = MaxCycles}
      ELSE {Cycles(t)}

HasExit(cycle) == \E k \in DOMAIN cycle : IsExitCondition(cycle[k])

\* validateTopology reports no error, having explored some of the cycles.
Accepted(t) ==
    /\ ShapeAccepted(t)
    /\ NodesAccepted(t)
    /\ EdgesAccepted(t)
    /\ MembershipsAccepted(t)
    /\ GroupsHaveMembers(t)
    /\ \E seen \in Explored(t) : \A c \in seen : HasExit(c)
=============================================================================
