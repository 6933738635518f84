------------------------------- MODULE Deploy -------------------------------
(***************************************************************************)
(* deployTopology of backend/src/asterisk/deploy.ts: a candidate is staged *)
(* as a version directory, loaded by a separate Asterisk (preflight),      *)
(* activated by switching the symlink "current", reloaded module by module *)
(* over AMI, checked in the runtime, and recorded as active; a failure     *)
(* after activation restores the previous target.                          *)
(*                                                                         *)
(* The handler is a chain of awaits.  dep[d].pc names the await deployment *)
(* d is suspended at; a step is the code from one await to the next, which *)
(* Node runs without interleaving.  Nothing serialises two deployments:    *)
(* they interleave at every await, bounded here by MaxInFlight.            *)
(***************************************************************************)
EXTENDS PbxDatabase, Sequences

CONSTANTS
    Bootstrap,      \* versions/bootstrap, written by asterisk/entrypoint.sh
    NoTarget,       \* there is no link
    InitialTarget,  \* what "current" is before the first deployment
    MaxInFlight,    \* bound: deployments an operator starts side by side
    MaxFaults,      \* bound: AMI commands that time out or take no effect
    MaxLocalFaults, \* bound: errors of SQLite or the disk while a success is
                    \* recorded or a link put back
    MaxCrashes      \* bound: deaths of the backend or of Asterisk

ASSUME DeployAssumption ==
    /\ Bootstrap \notin DeploymentIds
    /\ NoTarget \notin DeploymentIds \cup {Bootstrap}
    /\ InitialTarget \in {Bootstrap, NoTarget}
    /\ {MaxInFlight, MaxFaults, MaxLocalFaults, MaxCrashes} \subseteq Nat

VARIABLES
    link,            \* target of the symlink "current"
    last_good_link,  \* target of the symlink "last-good"
    runtime,         \* per Asterisk module, the target it has loaded
    late,            \* reloads whose caller gave up but Asterisk will still run
    dep,             \* the deployTopology calls
    connected,       \* calls whose AMI client survived so far
    budget           \* faults and crashes still to come

fileVars == <<link, last_good_link>>
deployVars == <<dep, connected, budget>>
vars == <<dbVars, fileVars, runtime, late, deployVars>>

-----------------------------------------------------------------------------
Targets == DeploymentIds \cup {Bootstrap, NoTarget}

\* The commands of AmiClient.deployReload, in their order.
Reloads == <<"dialplan", "pjsip", "queue", "voicemail">>
Modules == {"dialplan", "pjsip", "queue", "voicemail"}

BeforeActivation == {"preflight", "probe"}
Activated == {"reload", "canary", "endpoints"}
RollingBack == {"rbReload", "rbCanary", "rbEndpoints"}
InFlight == BeforeActivation \cup Activated \cup RollingBack

\* What a DeployResult says: deployed; failed before anything was activated;
\* failed and rolledBack; failed with a rollbackError.  Or nothing, as long
\* as the call runs and for ever when it died.
Answers == {"none", "deployed", "notActivated", "rolledBack", "rollbackFailed"}

Deployment == [pc : {"new", "over"} \cup InFlight,
               revision : 0 .. MaxRevision,
               exts : SUBSET Extensions,      \* of the topology it generates from
               step : 1 .. 4,                 \* the reload it waits for
               previous : Targets,            \* previousTarget
               expected : SUBSET Extensions,  \* of the topology a rollback checks
               passed : BOOLEAN,              \* the preflight said ok (history)
               answer : Answers]              \* the DeployResult it returned

NewDeployment == [pc |-> "new", revision |-> NoRevision, exts |-> {}, step |-> 1,
                  previous |-> NoTarget, expected |-> {}, passed |-> FALSE, answer |-> "none"]

TypeOK ==
    /\ DbTypeOK
    /\ {link, last_good_link} \subseteq Targets
    /\ runtime \in [Modules -> Targets]
    /\ late \subseteq Modules
    /\ dep \in [DeploymentIds -> Deployment]
    /\ connected \subseteq DeploymentIds
    /\ budget \in [faults : 0 .. MaxFaults, localFaults : 0 .. MaxLocalFaults, crashes : 0 .. MaxCrashes]

Rested ==
    /\ \E exts, plaintext \in SUBSET Extensions :
            InsertInitialTopology([exts |-> exts, greetings |-> {}], plaintext)
    /\ link = InitialTarget
    /\ last_good_link = NoTarget
    /\ runtime = [m \in Modules |-> InitialTarget]
    /\ late = {}
    /\ dep = [d \in DeploymentIds |-> NewDeployment]
    /\ connected = {}

Init ==
    /\ Rested
    /\ budget = [faults |-> MaxFaults, localFaults |-> MaxLocalFaults, crashes |-> MaxCrashes]

Running == {d \in DeploymentIds : dep[d].pc \in InFlight}

\* What is left of a call that is over: its files, in the version directory.
Ended(d) == [dep[d] EXCEPT !.pc = "over", !.step = 1, !.previous = NoTarget, !.expected = {}]
End(d, answer) ==
    /\ dep' = [dep EXCEPT ![d] = [Ended(d) EXCEPT !.answer = answer]]
    /\ connected' = connected \ {d}

\* The result column of the log; the answer stays known when the row is pruned.
LoggedResult(answer) ==
    CASE answer = "deployed" -> "success"
      [] answer = "rolledBack" -> "failed-rolled-back"
      [] OTHER -> "failed"
Conclude(d, answer) == FinishDeployment(d, LoggedResult(answer)) /\ End(d, answer)

\* PJSIPShowEndpoints lists what the loaded pjsip file defines; the bootstrap
\* file defines no endpoint.
EndpointsLoaded ==
    IF runtime["pjsip"] \in DeploymentIds THEN Cardinality(dep[runtime["pjsip"]].exts) ELSE 0

\* "dialplan show internal", then (unless the target is the bootstrap one,
\* which has none) the canary of the expected deployment.
\* Mutant: the canary is not asked for.
DialplanHealthyWithoutCanary(target) == runtime["dialplan"] # NoTarget
DialplanHealthy(target) ==
    /\ runtime["dialplan"] # NoTarget
    /\ target \in DeploymentIds => runtime["dialplan"] = target

-----------------------------------------------------------------------------
\* The environment of an AMI command.  It fails because the connection went
\* with a restart of Asterisk, or because the five seconds of sendAction ran
\* out, which takes one fault from the budget.
CommandFails(d) ==
    \/ /\ d \notin connected
       /\ UNCHANGED budget
    \/ /\ budget.faults > 0
       /\ budget' = [budget EXCEPT !.faults = @ - 1]

\* Module m reads its file through the link as it is now.
Load(m) == runtime' = [runtime EXCEPT ![m] = link]

\* A reload that answers.  Asterisk may also answer and keep the old file.
ReloadAnswers(d, m) ==
    /\ d \in connected
    /\ UNCHANGED late
    /\ \/ Load(m) /\ UNCHANGED budget
       \/ /\ budget.faults > 0
          /\ budget' = [budget EXCEPT !.faults = @ - 1]
          /\ UNCHANGED runtime

\* A reload that does not: lost, executed without an answer, or queued in
\* Asterisk and executed after the caller gave up.
ReloadFails(d, m) ==
    /\ CommandFails(d)
    /\ \/ UNCHANGED <<runtime, late>>
       \/ d \in connected /\ Load(m) /\ UNCHANGED late
       \/ d \in connected /\ late' = late \cup {m} /\ UNCHANGED runtime

-----------------------------------------------------------------------------
\* generateAll throws for an extension without password; everything else that
\* staging writes can always fail (a full disk).
Stageable == CurrentTopology.exts \subseteq sip_secrets

\* POST /deploy up to the preflight request: the row is written first, then
\* the version directory is staged or the call is over.
Begin(d) ==
    /\ dep[d].pc = "new"
    /\ Cardinality(Running) < MaxInFlight
    /\ Materializable(current_revision)
    /\ \/ /\ Stageable
          /\ dep' = [dep EXCEPT ![d].pc = "preflight", ![d].revision = current_revision,
                                ![d].exts = CurrentTopology.exts]
          /\ CreateDeployment(d, current_revision)
       \/ /\ dep' = [dep EXCEPT ![d].pc = "over", ![d].revision = current_revision,
                                ![d].answer = "notActivated"]
          /\ deployments' = [DeploymentsWith(deployments, d, current_revision)
                                EXCEPT ![d].result = "failed"]
    /\ UNCHANGED <<revisionVars, pointerVars, fileVars, runtime, late, connected, budget>>

\* docker-compose.yml configures the directory of the preflight; without one
\* validateStagedWithAsterisk lets everything pass or nothing.
PreflightPasses(d) ==
    /\ dep[d].pc = "preflight"
    /\ dep' = [dep EXCEPT ![d].pc = "probe", ![d].passed = TRUE]
    /\ UNCHANGED <<dbVars, fileVars, runtime, late, connected, budget>>

\* The preflight says no or runs out of time, or Asterisk does not answer
\* the probe "core show version": nothing was activated.
FailBeforeActivation(d) ==
    /\ dep[d].pc \in BeforeActivation
    /\ Conclude(d, "notActivated")
    /\ UNCHANGED <<revisionVars, pointerVars, fileVars, runtime, late, budget>>

\* The probe answered: remember the target of "current" and switch it.
\* Mutant: the preflight is not awaited.
ActivateWithoutPreflight(d) ==
    /\ dep[d].pc \in BeforeActivation
    /\ link' = d
    /\ dep' = [dep EXCEPT ![d].pc = "reload", ![d].step = 1, ![d].previous = link]
    /\ connected' = connected \cup {d}
    /\ UNCHANGED <<dbVars, last_good_link, runtime, late, budget>>
Activate(d) ==
    /\ dep[d].pc = "probe"
    /\ link' = d
    /\ dep' = [dep EXCEPT ![d].pc = "reload", ![d].step = 1, ![d].previous = link]
    /\ connected' = connected \cup {d}
    /\ UNCHANGED <<dbVars, last_good_link, runtime, late, budget>>

ReloadStep(d) ==
    /\ dep[d].pc = "reload"
    /\ ReloadAnswers(d, Reloads[dep[d].step])
    /\ dep' = IF dep[d].step < Len(Reloads)
              THEN [dep EXCEPT ![d].step = @ + 1]
              ELSE [dep EXCEPT ![d].pc = "canary"]
    /\ UNCHANGED <<dbVars, fileVars, connected>>

CanarySeen(d) ==
    /\ dep[d].pc = "canary"
    /\ d \in connected
    /\ DialplanHealthy(d)
    /\ dep' = [dep EXCEPT ![d].pc = "endpoints"]
    /\ UNCHANGED <<dbVars, fileVars, runtime, late, connected, budget>>

\* The endpoint list is long enough.  The link "last-good", the pointers and
\* the log follow without another await, each by a call of its own.
Verified(d) ==
    /\ dep[d].pc = "endpoints"
    /\ d \in connected
    /\ EndpointsLoaded >= Cardinality(dep[d].exts)

Commit(d) ==
    /\ Verified(d)
    /\ last_good_link' = d
    /\ MarkDeploymentActive(dep[d].revision)
    /\ Conclude(d, "deployed")
    /\ UNCHANGED <<revisionVars, link, runtime, late, budget>>

-----------------------------------------------------------------------------
\* The catch block up to its first await: put the previous target back (or
\* remove the link), fetch an AMI client.
\* Mutant: the link stays at the failed target.
RestoreNothing(d) ==
    /\ link' = link
    /\ dep' = [dep EXCEPT ![d].pc = "rbReload", ![d].step = 1]
    /\ connected' = connected \cup {d}
Restore(d) ==
    /\ link' = dep[d].previous
    /\ dep' = [dep EXCEPT ![d].pc = "rbReload", ![d].step = 1]
    /\ connected' = connected \cup {d}

\* The link cannot be put back: the call ends with a rollbackError.  This
\* takes nothing from the budget, as it happens once in a call.
RestoreThrows(d) ==
    /\ budget.localFaults > 0
    /\ Conclude(d, "rollbackFailed")
    /\ UNCHANGED link

RollBack(d) == (Restore(d) /\ UNCHANGED deployments) \/ RestoreThrows(d)

ReloadStepFails(d) ==
    /\ dep[d].pc = "reload"
    /\ ReloadFails(d, Reloads[dep[d].step])
    /\ RollBack(d)
    /\ UNCHANGED <<revisionVars, pointerVars, last_good_link>>

\* A health command fails or what it reports is not enough.
\* Mutant: too short an endpoint list is waited for.
UnhealthyWaitingForEndpoints(d) ==
    /\ \/ /\ dep[d].pc = "canary"
          /\ (d \in connected /\ ~DialplanHealthy(d) /\ UNCHANGED budget) \/ CommandFails(d)
       \/ dep[d].pc = "endpoints" /\ CommandFails(d)
    /\ RollBack(d)
    /\ UNCHANGED <<revisionVars, pointerVars, last_good_link, runtime, late>>
Unhealthy(d) ==
    /\ \/ /\ dep[d].pc = "canary"
          /\ (d \in connected /\ ~DialplanHealthy(d) /\ UNCHANGED budget) \/ CommandFails(d)
       \/ /\ dep[d].pc = "endpoints"
          /\ \/ /\ d \in connected
                /\ EndpointsLoaded < Cardinality(dep[d].exts)
                /\ UNCHANGED budget
             \/ CommandFails(d)
    /\ RollBack(d)
    /\ UNCHANGED <<revisionVars, pointerVars, last_good_link, runtime, late>>

\* What is recorded of a success when the rest of it does not happen: nothing
\* behind "last-good", the pointers, or the pointers and the row.
PartlyRecorded(d) ==
    \/ UNCHANGED <<pointerVars, deployments>>
    \/ /\ MarkDeploymentActive(dep[d].revision)
       /\ FinishDeployment(d, "success") \/ UNCHANGED deployments

\* Recording the success throws after "last-good" was renamed: the revision
\* was pruned meanwhile (foreign key), or SQLite fails at the pointers, at the
\* row or at the audit.
CommitThrows(d) ==
    /\ Verified(d)
    /\ last_good_link' = d
    /\ \/ /\ dep[d].revision \notin DOMAIN topology_revisions
          /\ UNCHANGED <<pointerVars, deployments, budget>>
          /\ Restore(d)
       \/ /\ budget.localFaults > 0
          /\ budget' = [budget EXCEPT !.localFaults = @ - 1]
          /\ \/ PartlyRecorded(d) /\ Restore(d)
             \/ (UNCHANGED pointerVars \/ MarkDeploymentActive(dep[d].revision)) /\ RestoreThrows(d)
    /\ UNCHANGED <<revisionVars, runtime, late>>

\* After the last reload of a rollback: without a previous target there is
\* nothing to check; otherwise the topology to compare with is materialised
\* from last_good_revision, or from the current revision when there is none.
CheckedRevision == IF last_good_revision # NoRevision THEN last_good_revision ELSE current_revision

RollbackReloadStep(d) ==
    /\ dep[d].pc = "rbReload"
    /\ ReloadAnswers(d, Reloads[dep[d].step])
    /\ IF dep[d].step < Len(Reloads)
       THEN dep' = [dep EXCEPT ![d].step = @ + 1] /\ UNCHANGED <<deployments, connected>>
       ELSE IF dep[d].previous = NoTarget THEN Conclude(d, "rolledBack")
       ELSE IF ~Materializable(CheckedRevision) THEN Conclude(d, "rollbackFailed")
       ELSE /\ dep' = [dep EXCEPT ![d].pc = "rbCanary",
                                  ![d].expected = topology_revisions[CheckedRevision].exts]
            /\ UNCHANGED <<deployments, connected>>
    /\ UNCHANGED <<revisionVars, pointerVars, fileVars>>

RollbackCanarySeen(d) ==
    /\ dep[d].pc = "rbCanary"
    /\ d \in connected
    /\ DialplanHealthy(dep[d].previous)
    /\ dep' = [dep EXCEPT ![d].pc = "rbEndpoints"]
    /\ UNCHANGED <<dbVars, fileVars, runtime, late, connected, budget>>

RollbackSucceeds(d) ==
    /\ dep[d].pc = "rbEndpoints"
    /\ d \in connected
    /\ EndpointsLoaded >= Cardinality(dep[d].expected)
    /\ Conclude(d, "rolledBack")
    /\ UNCHANGED <<revisionVars, pointerVars, fileVars, runtime, late, budget>>

RollbackFails(d) ==
    /\ \/ /\ dep[d].pc = "rbReload"
          /\ ReloadFails(d, Reloads[dep[d].step])
       \/ /\ dep[d].pc = "rbCanary"
          /\ UNCHANGED <<runtime, late>>
          /\ \/ d \in connected /\ ~DialplanHealthy(dep[d].previous) /\ UNCHANGED budget
             \/ CommandFails(d)
       \/ /\ dep[d].pc = "rbEndpoints"
          /\ UNCHANGED <<runtime, late>>
          /\ \/ /\ d \in connected
                /\ EndpointsLoaded < Cardinality(dep[d].expected)
                /\ UNCHANGED budget
             \/ CommandFails(d)
    /\ Conclude(d, "rollbackFailed")
    /\ UNCHANGED <<revisionVars, pointerVars, fileVars>>

-----------------------------------------------------------------------------
\* Asterisk executes a reload its caller no longer waits for.
LateReload(m) ==
    /\ m \in late
    /\ Load(m)
    /\ late' = late \ {m}
    /\ UNCHANGED <<dbVars, fileVars, deployVars>>

\* Asterisk starts again: the entrypoint creates the bootstrap target if
\* there is no link, and every module loads through the link.
AsteriskRestart ==
    /\ budget.crashes > 0
    /\ budget' = [budget EXCEPT !.crashes = @ - 1]
    /\ link' = IF link = NoTarget THEN Bootstrap ELSE link
    /\ runtime' = [m \in Modules |-> link']
    /\ late' = {}
    /\ connected' = {}
    /\ UNCHANGED <<dbVars, last_good_link, dep>>

\* The backend dies: its running calls are gone and nothing resumes them.
\* A call that was recording its success may have come anywhere with it.
BackendCrash ==
    /\ budget.crashes > 0
    /\ Running # {}
    /\ budget' = [budget EXCEPT !.crashes = @ - 1]
    /\ dep' = [d \in DeploymentIds |->
            IF d \in Running THEN Ended(d) ELSE dep[d]]
    /\ connected' = {}
    /\ \/ UNCHANGED <<last_good_link, pointerVars, deployments>>
       \/ \E d \in Running : Verified(d) /\ last_good_link' = d /\ PartlyRecorded(d)
    /\ UNCHANGED <<revisionVars, link, runtime, late>>

\* Editors go on saving while deployments run.
SaveDuringDeploy(design) ==
    /\ SaveTopology(design, current_revision, {})
    /\ UNCHANGED <<fileVars, runtime, late, deployVars>>

ChangeSecretDuringDeploy(ext) ==
    /\ UpdateSipSecret(ext, current_revision)
    /\ UNCHANGED <<fileVars, runtime, late, deployVars>>

-----------------------------------------------------------------------------
Progress(d) ==
    \/ PreflightPasses(d)
    \/ FailBeforeActivation(d)
    \/ Activate(d)
    \/ ReloadStep(d)
    \/ CanarySeen(d)
    \/ Commit(d)
    \/ ReloadStepFails(d)
    \/ Unhealthy(d)
    \/ CommitThrows(d)
    \/ RollbackReloadStep(d)
    \/ RollbackCanarySeen(d)
    \/ RollbackSucceeds(d)
    \/ RollbackFails(d)

Environment ==
    \/ \E m \in Modules : LateReload(m)
    \/ AsteriskRestart
    \/ BackendCrash
    \/ \E exts \in SUBSET Extensions : SaveDuringDeploy([exts |-> exts, greetings |-> {}])
    \/ \E ext \in Extensions : ChangeSecretDuringDeploy(ext)

Next ==
    \/ \E d \in DeploymentIds : Begin(d) \/ Progress(d)
    \/ Environment

Spec == Init /\ [][Next]_vars

\* Every await has a deadline or a timer (65 s for the preflight, 5 s for an
\* AMI action), so a call that is not dead always makes its next step.
Progressing == \A d \in DeploymentIds : WF_vars(Progress(d))
FairSpec == Spec /\ Progressing

-----------------------------------------------------------------------------
\* Only what a separate Asterisk has loaded without complaint is ever behind
\* a link or in the runtime, whatever overlaps, fails or dies.
PreflightedOrInitial(target) ==
    target \in DeploymentIds => dep[target].passed
OnlyPreflightedTargets ==
    /\ PreflightedOrInitial(link)
    /\ PreflightedOrInitial(last_good_link)
    /\ \A m \in Modules : PreflightedOrInitial(runtime[m])

\* Between two deployments the telephone system serves the configuration the
\* link names, as long as no call so far has answered with a rollbackError:
\* the canary catches a reload Asterisk acknowledged and did not carry out.
RuntimeServesLink ==
    (/\ Running = {}
     /\ link \in DeploymentIds
     /\ \A d \in DeploymentIds : dep[d].answer # "rollbackFailed")
    => runtime["dialplan"] = link

\* Every deployment that begins comes to its end.
EveryDeploymentEnds ==
    \A d \in DeploymentIds : dep[d].pc \in InFlight ~> dep[d].pc = "over"

\* domain-model.md: active_revision is the topology currently verified active
\* in Asterisk.  Between deployments, the link names a deployment of it.
ActiveIsCurrentLink ==
    (Running = {} /\ link \in DeploymentIds) => dep[link].revision = active_revision

\* architecture.md: after a failure the previous target is reloaded and
\* checked, and the record says whether that succeeded.  A rollback none of
\* whose commands failed, after which every module runs the previous target,
\* is recorded as rolled back ...
RollbackRecorded(d) ==
    (/\ dep[d].pc \in RollingBack /\ dep'[d].pc = "over"
     /\ d \in connected /\ budget' = budget
     /\ \A m \in Modules : runtime'[m] = dep[d].previous)
    => deployments'[d].result = "failed-rolled-back"
\* ... when it is the first deployment that fails,
FirstRollbackRecorded ==
    [][ last_good_revision = NoRevision => \A d \in DeploymentIds : RollbackRecorded(d) ]_vars

\* operations.md: "Reload or post-reload runtime failures trigger last-good
\* restoration."  What a rollback puts back is what was verified last, or what
\* the system came with.
RollbackRestoresLastGood ==
    [][ \A d \in DeploymentIds :
            dep[d].pc \in Activated /\ dep'[d].pc = "rbReload" =>
                link' = IF last_good_link = NoTarget THEN InitialTarget ELSE last_good_link ]_vars

-----------------------------------------------------------------------------
\* The contract.  While a deployment is between activation and its outcome,
\* the system still counts as serving what it will put back on failure.
Serving ==
    IF \E d \in DeploymentIds : dep[d].pc \in Activated
    THEN dep[CHOOSE d \in DeploymentIds : dep[d].pc \in Activated].previous
    ELSE link

Outcome(d) ==
    IF dep[d].pc = "new" THEN "none"
    ELSE IF dep[d].pc \in InFlight THEN "open"
    ELSE IF dep[d].answer = "deployed" THEN "success" ELSE "failed"

Contract == INSTANCE DeployContract WITH
    Revisions <- 1 .. MaxRevision,
    serving <- Serving,
    active <- active_revision,
    revision <- [d \in DeploymentIds |-> dep[d].revision],
    outcome <- [d \in DeploymentIds |-> Outcome(d)]

\* Deployments that do not overlap, in a backend that does not die, are
\* all-or-nothing, whatever AMI commands are lost, late or without effect.
ImplementsContract == Contract!Spec
=============================================================================
