------------------------------ MODULE Dialplan ------------------------------
(***************************************************************************)
(* asterisk/configGenerator.ts: what is generated from a topology.  The    *)
(* text of the files is reduced to the definitions in them: endpoints,     *)
(* queues, mailboxes and, for the dialplan, extensions with the            *)
(* applications they run in order.                                         *)
(***************************************************************************)
EXTENDS Validator

EntrypointBase == 600   \* ENTRYPOINT_BASE

\* The context of an IVR ("ivr_" and its name) is none of the fixed contexts,
\* and a key is none of the extensions that every such context has.
ASSUME DialplanAssumption ==
    /\ \A id \in NodeIds : Sanitize[id] \notin {"internal", "entrypoints", "callflow"}
    /\ {"s", "t", "i", "giveup"} \cap (Digits \cup {NoDigit}) = {}

\* Where a call can be: an extension of a context.  The context of an IVR is
\* the sanitised id of its node.
At(context, exten) == [context |-> context, exten |-> exten]
CallflowAt(id) == At("callflow", Sanitize[id])
IvrAt(id, exten) == At(Sanitize[id], exten)

\* Applications.  A Goto keeps the edge it was generated from.
Goto(e) == [app |-> "Goto", edge |-> e]
Jump(to) == [app |-> "Jump", to |-> to]
Dial(users) == [app |-> "Dial", users |-> users]
VoiceMail(box) == [app |-> "VoiceMail", mailbox |-> box]
Queue(id) == [app |-> "Queue", queue |-> Sanitize[id]]
Hangup == [app |-> "Hangup"]

Definition(at, steps) == [at |-> at, steps |-> steps]

-----------------------------------------------------------------------------
EdgesWith(t, id, conditions) == {e \in Outgoing(t, id) : e.condition \in conditions}

\* findFallbackEdge.  A Goto over one of the edges, or what is there without.
Fallback(t, id) == EdgesWith(t, id, {"timeout", "unconditional"})
GotoOr(edges, otherwise) == IF edges = {} THEN otherwise ELSE <<Goto(CHOOSE e \in edges : TRUE)>>

\* endpointName of the members of a group.
MembersOf(t, id) ==
    {Sanitize[NodeById(t, m.member).user] : m \in {x \in t.memberships :
        x.group = id /\ x.member \in IdsOf(t) /\ NodeById(t, x.member).type = "extension"}}

\* Mutant: nothing is generated behind an extension without fallback.
FinishWithoutHangup(t, n) == GotoOr(Fallback(t, n.id), <<>>)
\* finish: the fallback, else the embedded voicemail; then the end.
Finish(t, n) ==
    GotoOr(Fallback(t, n.id),
           IF n.type = "extension" /\ n.mailbox # NoMailbox THEN <<VoiceMail(n.mailbox)>> ELSE <<>>)
    \o <<Hangup>>

\* scheduleDialplan, its times in Schedule.
ScheduleSteps(t, n) ==
    LET open == EdgesWith(t, n.id, {"open"})
        closed == EdgesWith(t, n.id, {"closed"})
    IN  IF open = {} \/ closed = {} THEN <<Hangup>>
        ELSE <<[app |-> "GotoIfTime", edges |-> {CHOOSE e \in open : TRUE, CHOOSE e \in closed : TRUE}]>>

\* generateCallflowEntry.
CallflowSteps(t, n) ==
    CASE n.type = "ivr"       -> <<Jump(IvrAt(n.id, "s"))>>
      [] n.type = "extension" -> <<Dial({Sanitize[n.user]})>> \o Finish(t, n)
      [] n.type = "ringgroup" -> <<Dial(MembersOf(t, n.id))>> \o Finish(t, n)
      [] n.type = "queue"     -> <<Queue(n.id)>> \o Finish(t, n)
      [] n.type = "schedule"  -> ScheduleSteps(t, n)
      [] n.type = "voicemail" -> <<VoiceMail(n.mailbox), Hangup>>
      [] OTHER                -> <<>>

\* generateIvrContext.  Entering resets the retries; a wrong key comes back to
\* the label "menu", the second step, behind the reset.
\* Mutant: it comes back to the first step.
RetryFromStart(t, n) ==
    [app |-> "Retry", limit |-> n.retries, again |-> 1,
     invalid |-> EdgesWith(t, n.id, {"invalid"})]
Retry(t, n) ==
    [app |-> "Retry", limit |-> n.retries, again |-> 2,
     invalid |-> EdgesWith(t, n.id, {"invalid"})]

IvrContext(t, n) ==
    {Definition(IvrAt(n.id, "s"), <<[app |-> "ResetRetries"], [app |-> "Menu"]>>),
     Definition(IvrAt(n.id, "t"), GotoOr(EdgesWith(t, n.id, {"timeout"}), <<Hangup>>)),
     Definition(IvrAt(n.id, "i"), <<Retry(t, n)>>),
     Definition(IvrAt(n.id, "giveup"), <<Hangup>>)}
    \cup {Definition(IvrAt(n.id, e.digit), <<Goto(e)>>) : e \in EdgesWith(t, n.id, {"digit"})}

\* generateExtensionsConf.
InternalEntry(t, n) ==
    Definition(At("internal", n.number), <<Dial({Sanitize[n.user]})>> \o Finish(t, n))
Entrypoint(t, i) ==
    Definition(At("entrypoints", EntrypointBase + i - 1), <<Jump(CallflowAt(t.nodes[i].id))>>)

GenerateExtensions(t) ==
    {InternalEntry(t, t.nodes[i]) : i \in OfType(t, {"extension"})}
    \cup {Entrypoint(t, i) : i \in Indices(t)}
    \cup {Definition(CallflowAt(t.nodes[i].id), CallflowSteps(t, t.nodes[i])) : i \in Indices(t)}
    \cup UNION {IvrContext(t, t.nodes[i]) : i \in OfType(t, {"ivr"})}

\* The other files: what is defined, by the index of the node defining it.
GeneratePjsip(t) == {<<Sanitize[t.nodes[i].user], i>> : i \in OfType(t, {"extension"})}
GenerateQueues(t) ==
    {[name |-> Sanitize[t.nodes[i].id], node |-> i, members |-> MembersOf(t, t.nodes[i].id)] :
        i \in OfType(t, {"queue"})}
GenerateVoicemail(t) ==
    {<<t.nodes[i].mailbox, i>> : i \in OfType(t, {"voicemail"})
        \cup {j \in OfType(t, {"extension"}) : t.nodes[j].mailbox # NoMailbox}}

GenerateAll(t) ==
    [extensions |-> GenerateExtensions(t), pjsip |-> GeneratePjsip(t),
     queues |-> GenerateQueues(t), voicemail |-> GenerateVoicemail(t)]
=============================================================================
