------------------------------ MODULE CallFlow ------------------------------
(***************************************************************************)
(* From the editor to a call: nodes, edges and memberships are added to a  *)
(* topology, the validator accepts it, the generator turns it into a       *)
(* dialplan, and a caller walks through that.  Every choice of a caller    *)
(* and of the extensions that may or may not answer is open.               *)
(***************************************************************************)
EXTENDS Dialplan

VARIABLES
    draft,    \* the topology in the editor
    config,   \* the files of the deployment, NotDeployed before
    call      \* the caller

vars == <<draft, config, call>>

NotDeployed == [extensions |-> {}, pjsip |-> {}, queues |-> {}, voicemail |-> {}]
Deployed == config.extensions # {}

Nowhere == At("none", "none")
\* One counter stands for RETRY_<id>: entering an IVR resets its own.
NoCall == [pc |-> "idle", at |-> Nowhere, step |-> 1, retries |-> 0, hops |-> 0]

Defined(at) == \E d \in config.extensions : d.at = at
StepsAt(at) == (CHOOSE d \in config.extensions : d.at = at).steps
Step == StepsAt(call.at)[call.step]

\* Also that a call never runs off the end of an extension.
TypeOK ==
    /\ \A i \in DOMAIN draft.nodes : draft.nodes[i] \in Node \cup {Malformed}
    /\ draft.edges \subseteq Edge
    /\ draft.memberships \subseteq Membership
    /\ call.pc \in {"idle", "up", "over"}
    /\ {call.retries, call.hops} \subseteq Nat
    /\ call.pc = "up" => Defined(call.at) /\ call.step \in DOMAIN StepsAt(call.at)

Init ==
    /\ draft = [nodes |-> <<>>, edges |-> {}, memberships |-> {}]
    /\ config = NotDeployed
    /\ call = NoCall

-----------------------------------------------------------------------------
(* The editor. *)

AddNode(n) ==
    /\ ~Deployed
    /\ draft' = [draft EXCEPT !.nodes = Append(@, n)]
    /\ UNCHANGED <<config, call>>

AddEdge(e) ==
    /\ ~Deployed
    /\ draft' = [draft EXCEPT !.edges = @ \cup {e}]
    /\ UNCHANGED <<config, call>>

AddMembership(m) ==
    /\ ~Deployed
    /\ draft' = [draft EXCEPT !.memberships = @ \cup {m}]
    /\ UNCHANGED <<config, call>>

Deploy ==
    /\ ~Deployed
    /\ Accepted(draft)
    /\ config' = GenerateAll(draft)
    /\ UNCHANGED <<draft, call>>

-----------------------------------------------------------------------------
(* The caller. *)

\* A call is at the first step of an extension; entering a node of the call
\* flow is a hop, counted since the last timeout or invalid edge.
JumpTo(at) == [call EXCEPT !.at = at, !.step = 1]
Follow(e) ==
    [call EXCEPT !.at = CallflowAt(e.target), !.step = 1,
                 !.hops = IF IsExitCondition(e) THEN 1 ELSE @ + 1]
Proceed == [call EXCEPT !.step = @ + 1]
Ended == [call EXCEPT !.pc = "over"]

\* An extension dials a number: [internal] comes before the included
\* [entrypoints].
DialNumber ==
    /\ Deployed
    /\ call.pc = "idle"
    /\ \E d \in config.extensions :
        /\ \/ d.at.context = "internal"
           \/ d.at.context = "entrypoints" /\ ~Defined(At("internal", d.at.exten))
        /\ call' = [call EXCEPT !.pc = "up", !.at = d.at, !.hops = 1]
    /\ UNCHANGED <<draft, config>>

\* Dial and Queue end the call if somebody answers, and go on if nobody does,
\* at once if no telephone is registered.
RunDial ==
    /\ Step.app \in {"Dial", "Queue"}
    /\ call' \in {Ended, Proceed}

RunEnd ==
    /\ Step.app \in {"VoiceMail", "Hangup"}
    /\ call' = IF Step.app = "VoiceMail" THEN Proceed ELSE Ended

RunGoto ==
    \/ Step.app = "Jump" /\ call' = JumpTo(Step.to)
    \/ Step.app = "Goto" /\ call' = Follow(Step.edge)
    \/ Step.app = "GotoIfTime" /\ \E e \in Step.edges : call' = Follow(e)

RunMenu ==
    \/ Step.app = "ResetRetries" /\ call' = [Proceed EXCEPT !.retries = 0]
    \/ /\ Step.app = "Menu"
       /\ \E exten \in Digits \cup {"t", "i"} :
            LET there == At(call.at.context, exten)
                dest == IF Defined(there) THEN there ELSE At(call.at.context, "i")
            IN  call' = JumpTo(dest)
    \/ /\ Step.app = "Retry"
       /\ call.retries + 1 >= Step.limit
       /\ call' = IF Step.invalid = {} THEN JumpTo(At(call.at.context, "giveup"))
                  ELSE Follow(CHOOSE e \in Step.invalid : TRUE)
    \/ /\ Step.app = "Retry"
       /\ call.retries + 1 < Step.limit
       /\ call' = [call EXCEPT !.at = At(call.at.context, "s"), !.step = Step.again,
                               !.retries = @ + 1]

\* The caller may hang up at any time.
Leave ==
    /\ call.pc = "up"
    /\ call' = Ended
    /\ UNCHANGED <<draft, config>>

Walk ==
    /\ call.pc = "up"
    /\ RunDial \/ RunEnd \/ RunGoto \/ RunMenu
    /\ UNCHANGED <<draft, config>>

Next ==
    \/ \E n \in Node \cup {Malformed} : AddNode(n)
    \/ \E e \in Edge : AddEdge(e)
    \/ \E m \in Membership : AddMembership(m)
    \/ Deploy \/ DialNumber \/ Walk \/ Leave

Spec == Init /\ [][Next]_vars

\* Asterisk goes on with a call; nobody has to hang up.
FairSpec == Spec /\ WF_vars(Walk)

-----------------------------------------------------------------------------
(* Properties *)

\* What is generated from an accepted topology defines no name twice, in any
\* of the files: no extension of a context, endpoint, queue or mailbox of one
\* node hides that of another (configGenerator.ts, sanitize and endpointName).
NamesUnique ==
    /\ \A d, e \in config.extensions : d.at = e.at => d = e
    /\ \A p, q \in config.pjsip : p[1] = q[1] => p = q
    /\ \A p, q \in config.queues : p.name = q.name => p = q
    /\ \A p, q \in config.voicemail : p[1] = q[1] => p = q

TargetOf(step) ==
    CASE step.app = "Jump" -> {step.to}
      [] step.app = "Goto" -> {CallflowAt(step.edge.target)}
      [] step.app = "GotoIfTime" -> {CallflowAt(e.target) : e \in step.edges}
      [] step.app = "Retry" -> {CallflowAt(e.target) : e \in step.invalid}
      [] OTHER -> {}

StepResolves(step) ==
    /\ \A at \in TargetOf(step) : Defined(at)
    /\ step.app = "Dial" => step.users # {} /\ step.users \subseteq {p[1] : p \in config.pjsip}
    /\ step.app = "Queue" => \E q \in config.queues : q.name = step.queue /\ q.members # {}
    /\ step.app = "VoiceMail" => \E v \in config.voicemail : v[1] = step.mailbox

\* Everything a generated line refers to is generated too: no call is sent to
\* an extension, endpoint, queue or mailbox that does not exist.
ReferencesResolve ==
    \A d \in config.extensions : \A k \in DOMAIN d.steps : StepResolves(d.steps[k])

\* The purpose of the cycle check: unless it was cut off, no call passes more
\* nodes than there are without a timeout or a wrong key, whatever digits are
\* pressed and however schedules decide (validator.ts, findUnsafeCycles).
NoLoopWithoutExit ==
    Deployed /\ ~CheckTruncated(draft) => call.hops <= Len(draft.nodes)

\* A call through an accepted call flow without cycles ends, though the caller
\* never hangs up and nobody answers; wrong keys are counted over the prompts.
AcyclicCallsEnd ==
    call.pc = "up" /\ Cycles(draft) = {} ~> call.pc = "over"
=============================================================================
