--------------------------- MODULE Deploy_proofs ---------------------------
(***************************************************************************)
(* Deploy, for every number of deployments in flight, of faults and of     *)
(* crashes: its types, its foreign keys, and that nothing an isolated      *)
(* Asterisk did not accept first is ever activated.                        *)
(***************************************************************************)
EXTENDS Deploy, PbxDatabase_proofs

\* The type of what deployTopology and Asterisk keep outside the store.
CallsTypeOK ==
    /\ {link, last_good_link} \subseteq Targets
    /\ runtime \in [Modules -> Targets]
    /\ late \subseteq Modules
    /\ dep \in [DeploymentIds -> Deployment]
    /\ connected \subseteq DeploymentIds
    /\ budget \in [faults : 0 .. MaxFaults, localFaults : 0 .. MaxLocalFaults, crashes : 0 .. MaxCrashes]

IInv == DbInv /\ CallsTypeOK

AfterPreflight == {"probe"} \cup Activated \cup RollingBack

\* OnlyPreflightedTargets made inductive: a call past the preflight was
\* accepted, and so was whatever it would put back.
PassInv ==
    /\ OnlyPreflightedTargets
    /\ \A d \in DeploymentIds :
        /\ PreflightedOrInitial(dep[d].previous)
        /\ dep[d].pc \in AfterPreflight => dep[d].passed

-----------------------------------------------------------------------------
LEMMA BudgetTyped ==
    /\ MaxFaults \in Nat /\ MaxLocalFaults \in Nat /\ MaxCrashes \in Nat
  BY DeployAssumption

LEMMA InitHolds == Init => IInv /\ PassInv
  <1> SUFFICES ASSUME Init PROVE IInv /\ PassInv
    OBVIOUS
  <1>1. PICK exts, plaintext \in SUBSET Extensions :
            InsertInitialTopology([exts |-> exts, greetings |-> {}], plaintext)
    BY DEF Init, Rested
  <1>2. [exts |-> exts, greetings |-> {}] \in Design
    BY DEF Design
  <1>3. DbInv
    BY <1>1, <1>2, InitialDbInv
  <1>4. CallsTypeOK
    BY DeployAssumption, BudgetTyped, StoreAssumption
       DEF Init, Rested, CallsTypeOK, Targets, NewDeployment, Deployment, NoRevision, InFlight,
           Answers
  <1>5. PassInv
    BY DeployAssumption
       DEF Init, Rested, PassInv, OnlyPreflightedTargets, PreflightedOrInitial, NewDeployment,
           AfterPreflight, Activated, RollingBack
  <1> QED
    BY <1>3, <1>4, <1>5 DEF IInv

-----------------------------------------------------------------------------
\* What the steps do to the store.
LEMMA ConcludeDb ==
    ASSUME DbInv, NEW d, NEW answer, Conclude(d, answer),
           UNCHANGED revisionVars,
           UNCHANGED pointerVars \/ \E revision : MarkDeploymentActive(revision)
    PROVE  DbInv'
  <1>1. LoggedResult(answer) \in Results
    BY DEF LoggedResult, Results
  <1> QED
    BY <1>1, LogStepInv DEF Conclude

LEMMA RollBackDb ==
    ASSUME DbInv, NEW d, RollBack(d), UNCHANGED revisionVars,
           UNCHANGED pointerVars \/ \E revision : MarkDeploymentActive(revision)
    PROVE  DbInv'
  <1>1. "failed" \in Results /\ LoggedResult("rollbackFailed") \in Results
    BY DEF LoggedResult, Results
  <1>2. FinishDeployment(d, LoggedResult("rollbackFailed")) \/ UNCHANGED deployments
    BY DEF RollBack, RestoreThrows, Conclude
  <1> QED
    BY <1>1, <1>2, LogStepInv

LEMMA PartlyRecordedDb ==
    ASSUME DbInv, NEW d, PartlyRecorded(d), UNCHANGED revisionVars
    PROVE  DbInv'
  <1>1. "success" \in Results
    BY DEF Results
  <1>2. /\ FinishDeployment(d, "success") \/ UNCHANGED deployments
        /\ UNCHANGED pointerVars \/ \E revision : MarkDeploymentActive(revision)
    BY DEF PartlyRecorded
  <1> QED
    BY <1>1, <1>2, LogStepInv

LEMMA BeginDb ==
    ASSUME IInv, NEW d \in DeploymentIds, Begin(d)
    PROVE  DbInv'
  <1>1. /\ DbInv /\ UNCHANGED revisionVars /\ UNCHANGED pointerVars
        /\ current_revision \in DOMAIN topology_revisions
    BY DEF IInv, Begin, DbInv, PointersExist
  <1>2. CASE CreateDeployment(d, current_revision)
    BY <1>1, <1>2, CreateDeploymentInv
  <1>3. CASE deployments' = [DeploymentsWith(deployments, d, current_revision)
                                EXCEPT ![d].result = "failed"]
    <2>1. current_revision \in 1 .. MaxRevision
      BY <1>1 DEF DbInv, DbTypeOK
    <2>2. /\ deployments' \in [DOMAIN deployments \cup {d} -> [revision : 1 .. MaxRevision, result : Results]]
          /\ \A e \in DOMAIN deployments \cup {d} :
                deployments'[e].revision = IF e = d THEN current_revision ELSE deployments[e].revision
      BY <1>1, <1>3, <2>1 DEF DbInv, DbTypeOK, DeploymentsWith, Results
    <2>3. DOMAIN deployments' = DOMAIN deployments \cup {d}
      BY <2>2
    <2> QED
      BY <1>1, <2>2, <2>3 DEF DbInv, DbTypeOK, PointersExist, SecretsMatchCurrent, CurrentTopology,
                              revisionVars, pointerVars
  <1> QED
    BY <1>2, <1>3 DEF Begin

LEMMA ProgressDb ==
    ASSUME IInv, NEW d \in DeploymentIds, Progress(d)
    PROVE  DbInv'
  <1>0. DbInv
    BY DEF IInv
  <1>1. CASE PreflightPasses(d) \/ Activate(d) \/ ReloadStep(d) \/ CanarySeen(d)
             \/ RollbackCanarySeen(d)
    <2>1. UNCHANGED dbVars
      BY <1>1 DEF PreflightPasses, Activate, ReloadStep, CanarySeen, RollbackCanarySeen
    <2> QED
      BY <1>0, <2>1, StutterInv
  <1>2. CASE FailBeforeActivation(d)
    BY <1>0, <1>2, ConcludeDb DEF FailBeforeActivation
  <1>3. CASE Commit(d)
    BY <1>0, <1>3, ConcludeDb DEF Commit
  <1>4. CASE CommitThrows(d)
    <2>1. UNCHANGED revisionVars
      BY <1>4 DEF CommitThrows
    <2>2. CASE PartlyRecorded(d)
      BY <1>0, <2>1, <2>2, PartlyRecordedDb
    <2>3. CASE /\ UNCHANGED pointerVars \/ MarkDeploymentActive(dep[d].revision)
               /\ RestoreThrows(d)
      BY <1>0, <2>1, <2>3, RollBackDb DEF RollBack
    <2> QED
      BY <1>4, <2>2, <2>3 DEF CommitThrows, PartlyRecorded
  <1>5. CASE RollbackReloadStep(d)
    <2>1. UNCHANGED <<revisionVars, pointerVars>>
      BY <1>5 DEF RollbackReloadStep
    <2>2. UNCHANGED deployments \/ \E answer : Conclude(d, answer)
      BY <1>5 DEF RollbackReloadStep
    <2> QED
      BY <1>0, <2>1, <2>2, ConcludeDb, StutterInv DEF dbVars
  <1>6. CASE RollbackSucceeds(d)
    BY <1>0, <1>6, ConcludeDb DEF RollbackSucceeds
  <1>8. CASE ReloadStepFails(d) \/ Unhealthy(d)
    BY <1>0, <1>8, RollBackDb DEF ReloadStepFails, Unhealthy
  <1>7. CASE RollbackFails(d)
    <2>1. Conclude(d, "rollbackFailed") /\ UNCHANGED revisionVars /\ UNCHANGED pointerVars
      BY <1>7 DEF RollbackFails
    <2> QED
      BY <1>0, <2>1, ConcludeDb
  <1> QED
    BY <1>1, <1>2, <1>3, <1>4, <1>5, <1>6, <1>7, <1>8 DEF Progress

LEMMA EnvironmentDb ==
    ASSUME IInv, Environment
    PROVE  DbInv'
  <1>0. DbInv /\ {} \in SUBSET Extensions
    BY DEF IInv
  <1>1. ASSUME NEW exts \in SUBSET Extensions, SaveDuringDeploy([exts |-> exts, greetings |-> {}])
        PROVE  DbInv'
    <2>1. [exts |-> exts, greetings |-> {}] \in Design
      BY DEF Design
    <2> QED
      BY <1>0, <1>1, <2>1, SaveTopologyInv DEF SaveDuringDeploy
  <1>2. ASSUME NEW ext \in Extensions, ChangeSecretDuringDeploy(ext)
        PROVE  DbInv'
    BY <1>0, <1>2, UpdateSipSecretInv DEF ChangeSecretDuringDeploy
  <1>3. CASE UNCHANGED dbVars
    BY <1>0, <1>3, StutterInv
  <1>4. CASE BackendCrash
    <2>1. UNCHANGED dbVars \/ \E d \in Running : PartlyRecorded(d) /\ UNCHANGED revisionVars
      BY <1>4 DEF BackendCrash, dbVars
    <2> QED
      BY <1>0, <2>1, StutterInv, PartlyRecordedDb
  <1> QED
    BY <1>1, <1>2, <1>3, <1>4 DEF Environment, LateReload, AsteriskRestart

-----------------------------------------------------------------------------
\* What the helpers of the steps do to calls, links and Asterisk.
LEMMA CallUpdated ==
    ASSUME NEW call \in Deployment, NEW pc \in {"new", "over"} \cup InFlight, NEW step \in 1 .. 4
    PROVE  /\ [call EXCEPT !.pc = pc] \in Deployment
           /\ [call EXCEPT !.step = step] \in Deployment
           /\ [call EXCEPT !.pc = pc, !.step = step] \in Deployment
           /\ \A target \in Targets :
                /\ [call EXCEPT !.pc = pc, !.step = step, !.previous = target] \in Deployment
                /\ [call EXCEPT !.pc = pc, !.step = step, !.previous = target, !.expected = {}]
                      \in Deployment
  BY DEF Deployment

LEMMA EndedTyped ==
    ASSUME CallsTypeOK, NEW d \in DeploymentIds
    PROVE  Ended(d) \in Deployment
  <1>1. dep[d] \in Deployment /\ NoTarget \in Targets /\ 1 \in 1 .. 4
    BY DEF CallsTypeOK, Targets
  <1> QED
    BY <1>1, CallUpdated DEF Ended

LEMMA EndTyped ==
    ASSUME CallsTypeOK, NEW d \in DeploymentIds, NEW answer \in Answers, End(d, answer)
    PROVE  dep' \in [DeploymentIds -> Deployment] /\ connected' \subseteq DeploymentIds
  <1>1. Ended(d) \in Deployment
    BY EndedTyped
  <1>2. [Ended(d) EXCEPT !.answer = answer] \in Deployment
    BY <1>1 DEF Deployment
  <1> QED
    BY <1>2 DEF CallsTypeOK, End

LEMMA RestoreTyped ==
    ASSUME CallsTypeOK, NEW d \in DeploymentIds, Restore(d)
    PROVE  /\ link' \in Targets /\ dep' \in [DeploymentIds -> Deployment]
           /\ connected' \subseteq DeploymentIds
  <1>1. dep[d] \in Deployment /\ "rbReload" \in InFlight /\ 1 \in 1 .. 4
    BY DEF CallsTypeOK, InFlight, RollingBack
  <1>2. [dep[d] EXCEPT !.pc = "rbReload", !.step = 1] \in Deployment
    BY <1>1, CallUpdated
  <1>3. dep[d].previous \in Targets
    BY <1>1 DEF Deployment
  <1> QED
    BY <1>2, <1>3 DEF CallsTypeOK, Restore

LEMMA RollBackTyped ==
    ASSUME CallsTypeOK, NEW d \in DeploymentIds, RollBack(d)
    PROVE  /\ link' \in Targets /\ dep' \in [DeploymentIds -> Deployment]
           /\ connected' \subseteq DeploymentIds
  <1>1. CASE RestoreThrows(d)
    <2>1. End(d, "rollbackFailed") /\ "rollbackFailed" \in Answers /\ link' = link
      BY <1>1 DEF RestoreThrows, Conclude, Answers
    <2> QED
      BY <2>1, EndTyped DEF CallsTypeOK
  <1> QED
    BY <1>1, RestoreTyped DEF RollBack

LEMMA CommandTyped ==
    ASSUME CallsTypeOK, NEW d, CommandFails(d) \/ UNCHANGED budget
    PROVE  budget' \in [faults : 0 .. MaxFaults, localFaults : 0 .. MaxLocalFaults, crashes : 0 .. MaxCrashes]
  BY BudgetTyped DEF CallsTypeOK, CommandFails

LEMMA ReloadTyped ==
    ASSUME CallsTypeOK, NEW d, NEW m \in Modules, ReloadAnswers(d, m) \/ ReloadFails(d, m)
    PROVE  /\ runtime' \in [Modules -> Targets] /\ late' \subseteq Modules
           /\ budget' \in [faults : 0 .. MaxFaults, localFaults : 0 .. MaxLocalFaults, crashes : 0 .. MaxCrashes]
           /\ runtime' = runtime \/ Load(m)
  <1>1. /\ runtime' = runtime \/ Load(m)
        /\ late' = late \/ late' = late \cup {m}
    BY DEF ReloadAnswers, ReloadFails
  <1>2. CASE ReloadAnswers(d, m)
    BY <1>1, <1>2, BudgetTyped DEF CallsTypeOK, ReloadAnswers, Load
  <1>3. CASE ReloadFails(d, m)
    BY <1>1, <1>3, CommandTyped DEF CallsTypeOK, ReloadFails, Load
  <1> QED
    BY <1>2, <1>3, <1>1

LEMMA ReloadModule ==
    ASSUME NEW step \in 1 .. 4
    PROVE  Reloads[step] \in Modules /\ Len(Reloads) = 4
  BY DEF Reloads, Modules

LEMMA ProgressTyped ==
    ASSUME IInv, NEW d \in DeploymentIds, Progress(d)
    PROVE  CallsTypeOK'
  <1>0. /\ CallsTypeOK /\ dep[d] \in Deployment /\ d \in Targets
        /\ dep[d].step \in 1 .. 4
    BY DEF IInv, CallsTypeOK, Targets, Deployment
  <1> DEFINE DepTyped == dep' \in [DeploymentIds -> Deployment]
  <1>1. CASE PreflightPasses(d)
    <2>1. DepTyped
      BY <1>0, <1>1 DEF PreflightPasses, CallsTypeOK, Deployment, InFlight, BeforeActivation
    <2> QED
      BY <1>0, <1>1, <2>1 DEF PreflightPasses, CallsTypeOK, fileVars
  <1>2. CASE FailBeforeActivation(d)
    BY <1>0, <1>2, EndTyped DEF FailBeforeActivation, Conclude, Answers, CallsTypeOK, fileVars
  <1>3. CASE Activate(d)
    <2>1. DepTyped
      <3>1. link \in Targets /\ "reload" \in InFlight /\ 1 \in 1 .. 4
        BY <1>0 DEF CallsTypeOK, InFlight, Activated
      <3>2. [dep[d] EXCEPT !.pc = "reload", !.step = 1, !.previous = link] \in Deployment
        BY <1>0, <3>1, CallUpdated
      <3> QED
        BY <1>0, <1>3, <3>2 DEF Activate, CallsTypeOK
    <2> QED
      BY <1>0, <1>3, <2>1 DEF Activate, CallsTypeOK
  <1>4. CASE ReloadStep(d)
    <2>1. DepTyped
      <3>1. "canary" \in InFlight
        BY DEF InFlight, Activated
      <3>2. dep[d].step < Len(Reloads) => dep[d].step + 1 \in 1 .. 4
        <4>1. Len(Reloads) = 4
          BY <1>0, ReloadModule
        <4> QED
          BY <1>0, <4>1
      <3>3. /\ [dep[d] EXCEPT !.pc = "canary"] \in Deployment
            /\ dep[d].step < Len(Reloads) => [dep[d] EXCEPT !.step = dep[d].step + 1] \in Deployment
        BY <1>0, <3>1, <3>2, CallUpdated
      <3> QED
        BY <1>0, <1>4, <3>3 DEF ReloadStep, CallsTypeOK
    <2> QED
      BY <1>0, <1>4, <2>1, ReloadModule, ReloadTyped DEF ReloadStep, CallsTypeOK, fileVars
  <1>5. CASE CanarySeen(d)
    <2>1. DepTyped
      BY <1>0, <1>5 DEF CanarySeen, CallsTypeOK, Deployment, InFlight, Activated
    <2> QED
      BY <1>0, <1>5, <2>1 DEF CanarySeen, CallsTypeOK, fileVars
  <1>6. CASE Commit(d)
    BY <1>0, <1>6, EndTyped DEF Commit, Conclude, Answers, CallsTypeOK
  <1>7. CASE ReloadStepFails(d)
    BY <1>0, <1>7, RollBackTyped, ReloadModule, ReloadTyped DEF ReloadStepFails, CallsTypeOK
  <1>8. CASE Unhealthy(d)
    <2>1. CommandFails(d) \/ UNCHANGED budget
      BY <1>8 DEF Unhealthy
    <2> QED
      BY <1>0, <1>8, <2>1, RollBackTyped, CommandTyped DEF Unhealthy, CallsTypeOK
  <1>9. CASE CommitThrows(d)
    <2>1. budget' \in [faults : 0 .. MaxFaults, localFaults : 0 .. MaxLocalFaults, crashes : 0 .. MaxCrashes]
      BY <1>0, <1>9, BudgetTyped DEF CommitThrows, CallsTypeOK
    <2>2. (Restore(d) \/ RestoreThrows(d)) /\ last_good_link' = d /\ UNCHANGED <<runtime, late>>
      BY <1>9 DEF CommitThrows
    <2>3. /\ link' \in Targets /\ dep' \in [DeploymentIds -> Deployment]
          /\ connected' \subseteq DeploymentIds
      <3>1. CASE Restore(d)
        BY <1>0, <3>1, RestoreTyped
      <3>2. CASE RestoreThrows(d)
        BY <1>0, <3>2, RollBackTyped DEF RollBack
      <3> QED
        BY <2>2, <3>1, <3>2
    <2> QED
      BY <1>0, <2>1, <2>2, <2>3 DEF CallsTypeOK
  <1>10. CASE RollbackReloadStep(d)
    <2>1. ReloadAnswers(d, Reloads[dep[d].step]) /\ UNCHANGED fileVars
      BY <1>10 DEF RollbackReloadStep
    <2>2. DepTyped /\ connected' \subseteq DeploymentIds
      <3>1. CASE \E answer \in Answers : Conclude(d, answer)
        BY <1>0, <3>1, EndTyped DEF Conclude
      <3>2. CASE dep[d].step < Len(Reloads) /\ dep' = [dep EXCEPT ![d].step = @ + 1] /\ UNCHANGED connected
        <4>1. dep[d].step + 1 \in 1 .. 4
          BY <1>0, <3>2, ReloadModule
        <4>2. [dep[d] EXCEPT !.step = dep[d].step + 1] \in Deployment
          BY <1>0, <4>1, CallUpdated
        <4> QED
          BY <1>0, <3>2, <4>2 DEF CallsTypeOK
      <3>3. CASE /\ Materializable(CheckedRevision)
                 /\ dep' = [dep EXCEPT ![d].pc = "rbCanary",
                                       ![d].expected = topology_revisions[CheckedRevision].exts]
                 /\ UNCHANGED connected
        <4>1. topology_revisions[CheckedRevision].exts \subseteq Extensions
          BY <3>3 DEF IInv, DbInv, DbTypeOK, Materializable, Topology
        <4> QED
          BY <1>0, <3>3, <4>1 DEF CallsTypeOK, Deployment, InFlight, RollingBack
      <3> QED
        BY <1>10, <3>1, <3>2, <3>3 DEF RollbackReloadStep, Answers
    <2> QED
      BY <1>0, <2>1, <2>2, ReloadModule, ReloadTyped DEF CallsTypeOK, fileVars
  <1>11. CASE RollbackCanarySeen(d)
    <2>1. DepTyped
      BY <1>0, <1>11 DEF RollbackCanarySeen, CallsTypeOK, Deployment, InFlight, RollingBack
    <2> QED
      BY <1>0, <1>11, <2>1 DEF RollbackCanarySeen, CallsTypeOK, fileVars
  <1>12. CASE RollbackSucceeds(d)
    BY <1>0, <1>12, EndTyped DEF RollbackSucceeds, Conclude, Answers, CallsTypeOK, fileVars
  <1>13. CASE RollbackFails(d)
    <2>1. End(d, "rollbackFailed") /\ "rollbackFailed" \in Answers /\ UNCHANGED fileVars
      BY <1>13 DEF RollbackFails, Conclude, Answers
    <2>2. \/ ReloadFails(d, Reloads[dep[d].step])
          \/ UNCHANGED <<runtime, late>> /\ (CommandFails(d) \/ UNCHANGED budget)
      BY <1>13 DEF RollbackFails
    <2> QED
      BY <1>0, <2>1, <2>2, EndTyped, CommandTyped, ReloadModule, ReloadTyped DEF CallsTypeOK, fileVars
  <1> QED
    BY <1>1, <1>2, <1>3, <1>4, <1>5, <1>6, <1>7, <1>8, <1>9, <1>10, <1>11, <1>12, <1>13 DEF Progress

LEMMA BeginTyped ==
    ASSUME IInv, NEW d \in DeploymentIds, Begin(d)
    PROVE  CallsTypeOK'
  <1>1. current_revision \in 0 .. MaxRevision /\ CurrentTopology.exts \subseteq Extensions
    BY CurrentTyped DEF IInv, DbInv, DbTypeOK, Topology
  <1>2. dep' \in [DeploymentIds -> Deployment]
    BY <1>1 DEF IInv, CallsTypeOK, Begin, Deployment, InFlight, BeforeActivation, Answers
  <1> QED
    BY <1>2 DEF IInv, CallsTypeOK, Begin, fileVars

LEMMA EnvironmentTyped ==
    ASSUME IInv, Environment
    PROVE  CallsTypeOK'
  <1>0. CallsTypeOK
    BY DEF IInv
  <1>1. ASSUME NEW m \in Modules, LateReload(m) PROVE CallsTypeOK'
    BY <1>0, <1>1 DEF LateReload, Load, CallsTypeOK, fileVars, deployVars
  <1>2. CASE AsteriskRestart
    <2>1. link' \in Targets
      BY <1>0, <1>2 DEF AsteriskRestart, CallsTypeOK, Targets
    <2> QED
      BY <1>0, <1>2, <2>1, BudgetTyped DEF AsteriskRestart, CallsTypeOK
  <1>3. CASE BackendCrash
    <2>1. \A d \in DeploymentIds : Ended(d) \in Deployment
      BY <1>0, EndedTyped
    <2>2. dep' \in [DeploymentIds -> Deployment]
      BY <1>0, <1>3, <2>1 DEF BackendCrash, CallsTypeOK
    <2>3. last_good_link' \in Targets
      BY <1>0, <1>3 DEF BackendCrash, CallsTypeOK, Targets, Running
    <2> QED
      BY <1>0, <1>3, <2>2, <2>3, BudgetTyped DEF BackendCrash, CallsTypeOK
  <1>4. CASE UNCHANGED <<fileVars, runtime, late, deployVars>>
    BY <1>0, <1>4 DEF CallsTypeOK, fileVars, deployVars
  <1> QED
    BY <1>1, <1>2, <1>3, <1>4 DEF Environment, SaveDuringDeploy, ChangeSecretDuringDeploy

-----------------------------------------------------------------------------
\* Where a step may take its targets from.
AcceptedTargets ==
    {link, last_good_link, Bootstrap, NoTarget}
    \cup {dep[d].previous : d \in DeploymentIds}
    \cup {d \in DeploymentIds : dep[d].passed}

CallsAdvance ==
    \A d \in DeploymentIds :
        /\ dep[d].passed => dep'[d].passed
        /\ dep'[d].pc \in AfterPreflight => dep'[d].passed
        /\ dep'[d].previous \in AcceptedTargets

LEMMA PassStep ==
    ASSUME CallsTypeOK, PassInv, CallsAdvance,
           link' \in AcceptedTargets, last_good_link' \in AcceptedTargets,
           \A m \in Modules : runtime'[m] \in {runtime[m], link, link'}
    PROVE  PassInv'
  <1>1. \A target \in AcceptedTargets : PreflightedOrInitial(target)
    BY DeployAssumption DEF AcceptedTargets, PassInv, OnlyPreflightedTargets, PreflightedOrInitial
  <1>2. ASSUME NEW target, PreflightedOrInitial(target) PROVE PreflightedOrInitial(target)'
    BY <1>2 DEF PreflightedOrInitial, CallsAdvance
  <1>3. \A target \in AcceptedTargets : target \in DeploymentIds => dep'[target].passed
    BY <1>1 DEF PreflightedOrInitial, CallsAdvance
  <1>4. \A m \in Modules : runtime'[m] \in DeploymentIds => dep'[runtime'[m]].passed
    <2>1. \A m \in Modules : PreflightedOrInitial(runtime[m])
      BY DEF PassInv, OnlyPreflightedTargets
    <2>2. link \in AcceptedTargets
      BY DEF AcceptedTargets
    <2> QED
      BY <1>3, <2>1, <2>2 DEF PreflightedOrInitial, CallsAdvance
  <1> QED
    BY <1>3, <1>4 DEF PassInv, OnlyPreflightedTargets, PreflightedOrInitial, CallsAdvance

LEMMA EndAdvances ==
    ASSUME CallsTypeOK, PassInv, NEW d \in DeploymentIds, NEW answer, End(d, answer)
    PROVE  CallsAdvance
  <1>1. \A e \in DeploymentIds :
            /\ dep'[e].passed = dep[e].passed
            /\ dep'[e].pc \in {dep[e].pc, "over"}
            /\ dep'[e].previous \in {dep[e].previous, NoTarget}
    BY DEF CallsTypeOK, Deployment, End, Ended
  <1>2. "over" \notin AfterPreflight
    BY DEF AfterPreflight, Activated, RollingBack
  <1> QED
    BY <1>1, <1>2 DEF CallsAdvance, PassInv, AcceptedTargets

\* A call moves on to a later await without touching what it remembers.
LEMMA MoveAdvances ==
    ASSUME CallsTypeOK, PassInv, NEW d \in DeploymentIds, dep[d].passed,
           \A e \in DeploymentIds :
                /\ dep'[e].passed = dep[e].passed
                /\ dep'[e].previous = dep[e].previous
                /\ e # d => dep'[e].pc = dep[e].pc
    PROVE  CallsAdvance
  BY DEF CallsAdvance, PassInv, AcceptedTargets

LEMMA RestoreAdvances ==
    ASSUME CallsTypeOK, PassInv, NEW d \in DeploymentIds, dep[d].pc \in AfterPreflight, Restore(d)
    PROVE  CallsAdvance /\ link' \in AcceptedTargets
  <1>1. dep[d].passed /\ link' = dep[d].previous
    BY DEF PassInv, Restore
  <1>2. \A e \in DeploymentIds :
            /\ dep'[e].passed = dep[e].passed
            /\ dep'[e].previous = dep[e].previous
            /\ e # d => dep'[e].pc = dep[e].pc
    BY DEF CallsTypeOK, Deployment, Restore
  <1> QED
    BY <1>1, <1>2, MoveAdvances DEF AcceptedTargets

\* Giving up, whether the link can be put back or not.
LEMMA RollBackPasses ==
    ASSUME CallsTypeOK, PassInv, NEW d \in DeploymentIds, dep[d].pc \in AfterPreflight,
           Restore(d) \/ RestoreThrows(d), last_good_link' \in AcceptedTargets,
           \A m \in Modules : runtime'[m] \in {runtime[m], link, link'}
    PROVE  PassInv'
  <1>1. CASE Restore(d)
    BY <1>1, RestoreAdvances, PassStep
  <1>2. CASE RestoreThrows(d)
    <2>1. End(d, "rollbackFailed") /\ link' = link /\ link \in AcceptedTargets
      BY <1>2 DEF RestoreThrows, Conclude, AcceptedTargets
    <2> QED
      BY <2>1, EndAdvances, PassStep
  <1> QED
    BY <1>1, <1>2

LEMMA ProgressPasses ==
    ASSUME IInv, PassInv, NEW d \in DeploymentIds, Progress(d)
    PROVE  PassInv'
  <1>0. /\ CallsTypeOK /\ dep[d] \in Deployment
        /\ dep[d].step \in 1 .. 4
        /\ link \in AcceptedTargets /\ last_good_link \in AcceptedTargets
        /\ dep[d].passed => d \in AcceptedTargets
    BY DEF IInv, CallsTypeOK, Deployment, AcceptedTargets
  <1>a. /\ Activated \subseteq AfterPreflight /\ RollingBack \subseteq AfterPreflight
        /\ {"probe", "reload", "canary", "endpoints", "rbReload", "rbCanary", "rbEndpoints"}
             \subseteq AfterPreflight
    BY DEF AfterPreflight, Activated, RollingBack
  <1>b. dep[d].pc \in AfterPreflight => dep[d].passed
    BY DEF PassInv
  <1> DEFINE Moves == \A e \in DeploymentIds :
                          /\ dep'[e].passed = dep[e].passed
                          /\ dep'[e].previous = dep[e].previous
                          /\ e # d => dep'[e].pc = dep[e].pc
  <1>1. CASE PreflightPasses(d)
    <2>1. \A e \in DeploymentIds :
            /\ dep'[e].passed = (dep[e].passed \/ e = d)
            /\ dep'[e].previous = dep[e].previous
            /\ e # d => dep'[e].pc = dep[e].pc
      BY <1>0, <1>1 DEF PreflightPasses, CallsTypeOK, Deployment
    <2>2. CallsAdvance
      BY <2>1 DEF CallsAdvance, PassInv, AcceptedTargets
    <2> QED
      BY <1>0, <1>1, <2>2, PassStep DEF PreflightPasses, fileVars
  <1>2. CASE FailBeforeActivation(d) \/ RollbackSucceeds(d)
    BY <1>0, <1>2, EndAdvances, PassStep DEF FailBeforeActivation, RollbackSucceeds, Conclude, fileVars
  <1>3. CASE Activate(d)
    <2>1. \A e \in DeploymentIds :
            /\ dep'[e].passed = dep[e].passed
            /\ dep'[e].previous = IF e = d THEN link ELSE dep[e].previous
            /\ e # d => dep'[e].pc = dep[e].pc
      BY <1>0, <1>3 DEF Activate, CallsTypeOK, Deployment
    <2>2. dep[d].passed /\ link' = d /\ UNCHANGED <<last_good_link, runtime>>
      BY <1>3, <1>a, <1>b DEF Activate
    <2>3. CallsAdvance
      BY <2>1, <2>2 DEF CallsAdvance, PassInv, AcceptedTargets
    <2> QED
      BY <1>0, <2>2, <2>3, PassStep
  <1>4. CASE ReloadStep(d)
    <2>1. Moves
      BY <1>0, <1>4 DEF ReloadStep, CallsTypeOK, Deployment
    <2>2. /\ UNCHANGED <<link, last_good_link>>
          /\ \A m \in Modules : runtime'[m] \in {runtime[m], link}
      BY <1>0, <1>4, ReloadModule, ReloadTyped DEF ReloadStep, Load, fileVars, CallsTypeOK
    <2> QED
      BY <1>0, <1>4, <1>a, <1>b, <2>1, <2>2, MoveAdvances, PassStep DEF ReloadStep
  <1>5. CASE CanarySeen(d)
    <2>1. Moves
      BY <1>0, <1>5 DEF CanarySeen, CallsTypeOK, Deployment
    <2> QED
      BY <1>0, <1>5, <1>a, <1>b, <2>1, MoveAdvances, PassStep DEF CanarySeen, fileVars
  <1>6. CASE Commit(d)
    <2>1. d \in AcceptedTargets
      BY <1>0, <1>6, <1>a, <1>b DEF Commit, Verified
    <2> QED
      BY <1>0, <1>6, <2>1, EndAdvances, PassStep DEF Commit, Conclude
  <1>7. CASE ReloadStepFails(d)
    <2>1. \A m \in Modules : runtime'[m] \in {runtime[m], link, link'}
      <3>1. runtime' = runtime \/ runtime' = [runtime EXCEPT ![Reloads[dep[d].step]] = link]
        BY <1>0, <1>7, ReloadModule, ReloadTyped DEF ReloadStepFails, Load
      <3> QED
        BY <1>0, <3>1 DEF CallsTypeOK
    <2>2. dep[d].pc \in AfterPreflight /\ RollBack(d) /\ last_good_link' = last_good_link
      BY <1>7, <1>a DEF ReloadStepFails
    <2> QED
      BY <1>0, <2>1, <2>2, RollBackPasses DEF RollBack
  <1>8. CASE Unhealthy(d) \/ CommitThrows(d)
    <2>1. /\ dep[d].pc \in AfterPreflight /\ UNCHANGED runtime
          /\ Restore(d) \/ RestoreThrows(d)
      BY <1>8, <1>a DEF Unhealthy, CommitThrows, Verified, RollBack
    <2>2. last_good_link' \in AcceptedTargets
      BY <1>0, <1>8, <1>b, <2>1 DEF Unhealthy, CommitThrows
    <2> QED
      BY <1>0, <2>1, <2>2, RollBackPasses
  <1>9. CASE RollbackReloadStep(d) \/ RollbackFails(d)
    <2>1. /\ UNCHANGED <<link, last_good_link>>
          /\ \A m \in Modules : runtime'[m] \in {runtime[m], link}
      <3>1. runtime' = runtime \/ runtime' = [runtime EXCEPT ![Reloads[dep[d].step]] = link]
        BY <1>0, <1>9, ReloadModule, ReloadTyped DEF RollbackReloadStep, RollbackFails, Load
      <3>2. UNCHANGED <<link, last_good_link>>
        BY <1>9 DEF RollbackReloadStep, RollbackFails, fileVars
      <3> QED
        BY <1>0, <3>1, <3>2 DEF CallsTypeOK
    <2>2. CallsAdvance
      <3>1. CASE \E answer : End(d, answer)
        BY <1>0, <3>1, EndAdvances
      <3>2. CASE RollbackReloadStep(d) /\ ~(\E answer : End(d, answer))
        <4>1. Moves
          BY <1>0, <3>2 DEF RollbackReloadStep, Conclude, CallsTypeOK, Deployment
        <4> QED
          BY <1>0, <1>a, <1>b, <3>2, <4>1, MoveAdvances DEF RollbackReloadStep
      <3> QED
        BY <1>9, <3>1, <3>2 DEF RollbackFails, Conclude
    <2> QED
      BY <1>0, <2>1, <2>2, PassStep
  <1>10. CASE RollbackCanarySeen(d)
    <2>1. Moves
      BY <1>0, <1>10 DEF RollbackCanarySeen, CallsTypeOK, Deployment
    <2> QED
      BY <1>0, <1>10, <1>a, <1>b, <2>1, MoveAdvances, PassStep DEF RollbackCanarySeen, fileVars
  <1> QED
    BY <1>1, <1>2, <1>3, <1>4, <1>5, <1>6, <1>7, <1>8, <1>9, <1>10 DEF Progress

LEMMA BeginPasses ==
    ASSUME IInv, PassInv, NEW d \in DeploymentIds, Begin(d)
    PROVE  PassInv'
  <1>1. \A e \in DeploymentIds :
            /\ dep'[e].passed = dep[e].passed
            /\ dep'[e].previous = dep[e].previous
            /\ dep'[e].pc \in {dep[e].pc, "preflight", "over"}
    BY DEF Begin, IInv, CallsTypeOK, Deployment
  <1>2. "preflight" \notin AfterPreflight /\ "over" \notin AfterPreflight
    BY DEF AfterPreflight, Activated, RollingBack
  <1>3. CallsAdvance
    BY <1>1, <1>2 DEF CallsAdvance, PassInv, AcceptedTargets
  <1> QED
    BY <1>3, PassStep DEF IInv, Begin, fileVars, AcceptedTargets

LEMMA EnvironmentPasses ==
    ASSUME IInv, PassInv, Environment
    PROVE  PassInv'
  <1>0. /\ CallsTypeOK
        /\ link \in AcceptedTargets /\ last_good_link \in AcceptedTargets
        /\ UNCHANGED dep => CallsAdvance
    BY DEF IInv, AcceptedTargets, CallsAdvance, PassInv
  <1>1. ASSUME NEW m \in Modules, LateReload(m) PROVE PassInv'
    <2>1. \A n \in Modules : runtime'[n] \in {runtime[n], link}
      BY <1>0, <1>1 DEF LateReload, Load, CallsTypeOK
    <2> QED
      BY <1>0, <1>1, <2>1, PassStep DEF LateReload, fileVars, deployVars
  <1>2. CASE AsteriskRestart
    BY <1>0, <1>2, PassStep DEF AsteriskRestart, AcceptedTargets
  <1>3. CASE BackendCrash
    <2>1. \A e \in DeploymentIds :
            /\ dep'[e].passed = dep[e].passed
            /\ dep'[e].previous \in {dep[e].previous, NoTarget}
            /\ dep'[e].pc \in {dep[e].pc, "over"}
      BY <1>0, <1>3 DEF BackendCrash, CallsTypeOK, Deployment, Ended
    <2>2. "over" \notin AfterPreflight /\ "endpoints" \in AfterPreflight
      BY DEF AfterPreflight, Activated, RollingBack
    <2>3. CallsAdvance
      BY <2>1, <2>2 DEF CallsAdvance, PassInv, AcceptedTargets
    <2>4. last_good_link' \in AcceptedTargets
      BY <1>0, <1>3, <2>2 DEF BackendCrash, Verified, PassInv, AcceptedTargets, Running
    <2> QED
      BY <1>0, <1>3, <2>3, <2>4, PassStep DEF BackendCrash
  <1>4. CASE UNCHANGED <<fileVars, runtime, late, deployVars>>
    BY <1>0, <1>4, PassStep DEF fileVars, deployVars
  <1> QED
    BY <1>1, <1>2, <1>3, <1>4 DEF Environment, SaveDuringDeploy, ChangeSecretDuringDeploy

-----------------------------------------------------------------------------
LEMMA Preserved == IInv /\ PassInv /\ [Next]_vars => (IInv /\ PassInv)'
  <1> SUFFICES ASSUME IInv, PassInv, [Next]_vars PROVE IInv' /\ PassInv'
    OBVIOUS
  <1>1. ASSUME NEW d \in DeploymentIds, Begin(d) PROVE IInv' /\ PassInv'
    BY <1>1, BeginDb, BeginTyped, BeginPasses DEF IInv
  <1>2. ASSUME NEW d \in DeploymentIds, Progress(d) PROVE IInv' /\ PassInv'
    BY <1>2, ProgressDb, ProgressTyped, ProgressPasses DEF IInv
  <1>3. CASE Environment
    BY <1>3, EnvironmentDb, EnvironmentTyped, EnvironmentPasses DEF IInv
  <1>4. CASE UNCHANGED vars
    <2>1. DbInv'
      BY <1>4, StutterInv DEF IInv, vars
    <2> QED
      BY <1>4, <2>1 DEF vars, fileVars, deployVars, IInv, CallsTypeOK, PassInv,
                        OnlyPreflightedTargets, PreflightedOrInitial
  <1> QED
    BY <1>1, <1>2, <1>3, <1>4 DEF Next

LEMMA Invariant == Spec => [](IInv /\ PassInv)
  BY InitHolds, Preserved, PTL DEF Spec

\* Every variable of a deployment, the links and the runtime keep their type.
THEOREM DeployTypeCorrect == Spec => []TypeOK
  <1>1. IInv => TypeOK
    BY DEF IInv, DbInv, CallsTypeOK, TypeOK
  <1> QED
    BY <1>1, Invariant, PTL

\* However many deployments overlap, fail or die while editors go on saving,
\* the pointers and the deployment log refer to revisions that exist.
THEOREM DeployPointersExist == Spec => []PointersExist
  <1>1. IInv => PointersExist
    BY DEF IInv, DbInv
  <1> QED
    BY <1>1, Invariant, PTL

\* Nothing reaches a link or the running Asterisk that a separate Asterisk
\* did not load first, whatever overlaps, fails or dies.
THEOREM OnlyPreflightedEverActive == Spec => []OnlyPreflightedTargets
  <1>1. PassInv => OnlyPreflightedTargets
    BY DEF PassInv
  <1> QED
    BY <1>1, Invariant, PTL

-----------------------------------------------------------------------------
(***************************************************************************)
(* The contract.  Everything below is about deployments that do not        *)
(* overlap, in a backend that neither dies nor loses its database; AMI     *)
(* commands may still fail, time out or do nothing, and any revision may   *)
(* be pruned while it is being deployed.                                   *)
(***************************************************************************)
Sequential == MaxInFlight = 1 /\ MaxLocalFaults = 0 /\ MaxCrashes = 0

\* With one call at a time the link follows it: it names the call that
\* activated it, and what that call replaced from the moment it is given up.
\* A call that has answered is over.
SeqInv ==
    /\ budget.crashes = 0 /\ budget.localFaults = 0
    /\ \A d, e \in Running : d = e
    /\ \A d \in DeploymentIds :
        /\ dep[d].pc \in Activated => link = d
        /\ dep[d].pc \in RollingBack => link = dep[d].previous
        /\ dep[d].answer # "none" => dep[d].pc = "over"

\* Serving, seen from the only call that may be under way.
View(d) == IF dep[d].pc \in Activated THEN dep[d].previous ELSE link

\* What one call can do to the rest: it leaves the other calls alone and
\* keeps its revision, its own link is right, and either it succeeds or what
\* the system counts as serving stays the same.
CallStep(d) ==
    /\ dep[d].pc \in InFlight
    /\ \A e \in DeploymentIds \ {d} : dep'[e] = dep[e]
    /\ dep'[d].revision = dep[d].revision
    /\ dep'[d].pc \in InFlight \cup {"over"}
    /\ dep'[d].pc # "over" => dep'[d].answer = dep[d].answer
    /\ dep'[d].pc \in Activated => link' = d
    /\ dep'[d].pc \in RollingBack => link' = dep'[d].previous
    /\ budget'.crashes = budget.crashes /\ budget'.localFaults = budget.localFaults
    /\ \/ /\ dep'[d].pc = "over" /\ dep'[d].answer = "deployed"
          /\ View(d)' = d /\ active_revision' = dep[d].revision
       \/ /\ dep'[d].pc = "over" => dep'[d].answer # "deployed"
          /\ View(d)' = View(d) /\ active_revision' = active_revision

LEMMA PcSets ==
    /\ "over" \notin InFlight /\ "new" \notin InFlight
    /\ BeforeActivation \subseteq InFlight /\ Activated \subseteq InFlight /\ RollingBack \subseteq InFlight
    /\ Activated \cap RollingBack = {} /\ BeforeActivation \cap (Activated \cup RollingBack) = {}
    /\ Activated = {"reload", "canary", "endpoints"}
    /\ RollingBack = {"rbReload", "rbCanary", "rbEndpoints"}
    /\ BeforeActivation = {"preflight", "probe"}
  BY DEF InFlight, BeforeActivation, Activated, RollingBack

\* A command takes at most an AMI fault from the budget.
LEMMA CommandBudget ==
    ASSUME CallsTypeOK, NEW d, CommandFails(d) \/ UNCHANGED budget
    PROVE  budget'.crashes = budget.crashes /\ budget'.localFaults = budget.localFaults
  BY DEF CallsTypeOK, CommandFails

LEMMA ReloadBudget ==
    ASSUME CallsTypeOK, NEW d, NEW m, ReloadAnswers(d, m) \/ ReloadFails(d, m)
    PROVE  budget'.crashes = budget.crashes /\ budget'.localFaults = budget.localFaults
  BY CommandBudget DEF CallsTypeOK, ReloadAnswers, ReloadFails

\* The end of a call, seen from the outside.
LEMMA EndShape ==
    ASSUME CallsTypeOK, NEW d \in DeploymentIds, NEW answer \in Answers, End(d, answer)
    PROVE  /\ \A e \in DeploymentIds \ {d} : dep'[e] = dep[e]
           /\ dep'[d].revision = dep[d].revision
           /\ dep'[d].pc = "over" /\ dep'[d].answer = answer
  BY DEF CallsTypeOK, Deployment, End, Ended

\* Giving up: the link goes back to what the call had found.
LEMMA RestoreShape ==
    ASSUME CallsTypeOK, NEW d \in DeploymentIds, Restore(d)
    PROVE  /\ \A e \in DeploymentIds \ {d} : dep'[e] = dep[e]
           /\ dep'[d].revision = dep[d].revision
           /\ dep'[d].pc = "rbReload" /\ dep'[d].previous = dep[d].previous
           /\ dep'[d].answer = dep[d].answer
           /\ link' = dep[d].previous
  BY DEF CallsTypeOK, Deployment, Restore

LEMMA RestoreIsCallStep ==
    ASSUME CallsTypeOK, NEW d \in DeploymentIds, Restore(d), dep[d].pc \in Activated,
           budget'.crashes = budget.crashes, budget'.localFaults = budget.localFaults,
           active_revision' = active_revision
    PROVE  CallStep(d)
  BY RestoreShape, PcSets DEF CallStep, View

LEMMA EndIsCallStep ==
    ASSUME CallsTypeOK, NEW d \in DeploymentIds,
           NEW answer \in Answers \ {"deployed"}, End(d, answer),
           dep[d].pc \in BeforeActivation \cup RollingBack, link' = link,
           budget'.crashes = budget.crashes, budget'.localFaults = budget.localFaults,
           active_revision' = active_revision
    PROVE  CallStep(d)
  BY EndShape, PcSets DEF CallStep, View

\* A call moves on between two awaits of the same phase.
LEMMA MoveIsCallStep ==
    ASSUME CallsTypeOK, SeqInv, NEW d \in DeploymentIds,
           NEW phase \in {BeforeActivation, Activated, RollingBack},
           dep[d].pc \in phase, dep'[d].pc \in phase,
           \A e \in DeploymentIds \ {d} : dep'[e] = dep[e],
           dep'[d].revision = dep[d].revision, dep'[d].previous = dep[d].previous,
           dep'[d].answer = dep[d].answer,
           link' = link,
           budget'.crashes = budget.crashes, budget'.localFaults = budget.localFaults,
           active_revision' = active_revision
    PROVE  CallStep(d)
  BY PcSets DEF CallStep, View, SeqInv

LEMMA ProgressIsCallStep ==
    ASSUME IInv, SeqInv, NEW d \in DeploymentIds, Progress(d)
    PROVE  CallStep(d)
  <1>0. /\ CallsTypeOK /\ dep[d] \in Deployment /\ dep[d].step \in 1 .. 4
        /\ budget.localFaults = 0
    BY DEF IInv, CallsTypeOK, Deployment, SeqInv
  <1>a. Answers = {"none", "deployed", "notActivated", "rolledBack", "rollbackFailed"}
    BY DEF Answers
  <1> DEFINE Same == /\ link' = link /\ active_revision' = active_revision
                     /\ \A e \in DeploymentIds \ {d} : dep'[e] = dep[e]
                     /\ dep'[d].revision = dep[d].revision
                     /\ dep'[d].previous = dep[d].previous
                     /\ dep'[d].answer = dep[d].answer
             Kept == budget'.crashes = budget.crashes /\ budget'.localFaults = budget.localFaults
  <1>1. CASE PreflightPasses(d)
    <2>1. Same /\ Kept /\ dep[d].pc \in BeforeActivation /\ dep'[d].pc \in BeforeActivation
      BY <1>0, <1>1, PcSets
         DEF PreflightPasses, CallsTypeOK, Deployment, dbVars, pointerVars, fileVars
    <2> QED
      BY <1>0, <2>1, MoveIsCallStep
  <1>2. CASE FailBeforeActivation(d)
    BY <1>0, <1>a, <1>2, EndIsCallStep DEF FailBeforeActivation, Conclude, pointerVars, fileVars
  <1>3. CASE Activate(d)
    <2>1. /\ \A e \in DeploymentIds \ {d} : dep'[e] = dep[e]
          /\ dep'[d].revision = dep[d].revision /\ dep'[d].previous = link
          /\ dep'[d].pc = "reload" /\ dep[d].pc = "probe" /\ link' = d
          /\ dep'[d].answer = dep[d].answer
          /\ Kept /\ active_revision' = active_revision
      BY <1>0, <1>3 DEF Activate, CallsTypeOK, Deployment, dbVars, pointerVars
    <2> QED
      BY <2>1, PcSets DEF CallStep, View
  <1>4. CASE ReloadStep(d)
    <2>1. Kept
      BY <1>0, <1>4, ReloadBudget DEF ReloadStep
    <2>2. Same /\ dep[d].pc \in Activated /\ dep'[d].pc \in Activated
      BY <1>0, <1>4, PcSets
         DEF ReloadStep, CallsTypeOK, Deployment, dbVars, pointerVars, fileVars
    <2> QED
      BY <1>0, <2>1, <2>2, MoveIsCallStep
  <1>5. CASE CanarySeen(d)
    <2>1. Same /\ Kept /\ dep[d].pc \in Activated /\ dep'[d].pc \in Activated
      BY <1>0, <1>5, PcSets
         DEF CanarySeen, CallsTypeOK, Deployment, dbVars, pointerVars, fileVars
    <2> QED
      BY <1>0, <2>1, MoveIsCallStep
  <1>6. CASE Commit(d)
    <2>1. /\ End(d, "deployed") /\ dep[d].pc = "endpoints" /\ link' = link /\ Kept
          /\ active_revision' = dep[d].revision
      BY <1>6 DEF Commit, Verified, Conclude, MarkDeploymentActive
    <2>2. link = d
      BY <2>1, PcSets DEF SeqInv
    <2> QED
      BY <1>0, <1>a, <2>1, <2>2, EndShape, PcSets DEF CallStep, View
  <1>7. CASE ReloadStepFails(d)
    <2>1. Kept
      BY <1>0, <1>7, ReloadBudget DEF ReloadStepFails
    <2>2. Restore(d) /\ dep[d].pc \in Activated /\ active_revision' = active_revision
      BY <1>0, <1>7, PcSets DEF ReloadStepFails, RollBack, RestoreThrows, pointerVars
    <2> QED
      BY <1>0, <2>1, <2>2, RestoreIsCallStep
  <1>8. CASE Unhealthy(d)
    <2>1. CommandFails(d) \/ UNCHANGED budget
      BY <1>8 DEF Unhealthy
    <2>2. Kept
      BY <1>0, <2>1, CommandBudget
    <2>3. Restore(d) /\ dep[d].pc \in Activated /\ active_revision' = active_revision
      BY <1>0, <1>8, PcSets DEF Unhealthy, RollBack, RestoreThrows, pointerVars
    <2> QED
      BY <1>0, <2>2, <2>3, RestoreIsCallStep
  <1>9. CASE CommitThrows(d)
    <2>1. Restore(d) /\ dep[d].pc \in Activated /\ active_revision' = active_revision /\ Kept
      BY <1>0, <1>9, PcSets DEF CommitThrows, Verified, pointerVars
    <2> QED
      BY <1>0, <2>1, RestoreIsCallStep
  <1>10. CASE RollbackReloadStep(d)
    <2>1. Kept
      BY <1>0, <1>10, ReloadBudget DEF RollbackReloadStep
    <2>2. link' = link /\ active_revision' = active_revision /\ dep[d].pc \in RollingBack
      BY <1>10, PcSets DEF RollbackReloadStep, pointerVars, fileVars
    <2>3. CASE End(d, "rolledBack") \/ End(d, "rollbackFailed")
      BY <1>0, <1>a, <2>1, <2>2, <2>3, EndIsCallStep
    <2>4. CASE ~(End(d, "rolledBack") \/ End(d, "rollbackFailed"))
      <3>1. Same /\ dep'[d].pc \in RollingBack
        BY <1>0, <1>10, <2>2, <2>4, PcSets
           DEF RollbackReloadStep, Conclude, CallsTypeOK, Deployment
      <3> QED
        BY <1>0, <2>1, <2>2, <3>1, MoveIsCallStep
    <2> QED
      BY <2>3, <2>4
  <1>11. CASE RollbackCanarySeen(d)
    <2>1. Same /\ Kept /\ dep[d].pc \in RollingBack /\ dep'[d].pc \in RollingBack
      BY <1>0, <1>11, PcSets
         DEF RollbackCanarySeen, CallsTypeOK, Deployment, dbVars, pointerVars, fileVars
    <2> QED
      BY <1>0, <2>1, MoveIsCallStep
  <1>12. CASE RollbackSucceeds(d)
    <2>1. dep[d].pc \in RollingBack
      BY <1>12, PcSets DEF RollbackSucceeds
    <2> QED
      BY <1>0, <1>a, <1>12, <2>1, EndIsCallStep DEF RollbackSucceeds, Conclude, pointerVars, fileVars
  <1>13. CASE RollbackFails(d)
    <2>1. /\ End(d, "rollbackFailed") /\ link' = link /\ active_revision' = active_revision
          /\ dep[d].pc \in RollingBack
      BY <1>13, PcSets DEF RollbackFails, Conclude, pointerVars, fileVars
    <2>2. Kept
      BY <1>0, <1>13, ReloadBudget, CommandBudget DEF RollbackFails
    <2> QED
      BY <1>0, <1>a, <2>1, <2>2, EndIsCallStep
  <1> QED
    BY <1>1, <1>2, <1>3, <1>4, <1>5, <1>6, <1>7, <1>8, <1>9, <1>10, <1>11, <1>12, <1>13 DEF Progress

\* A call begins only while no other is under way.
LEMMA BeginsAlone ==
    ASSUME Sequential, SeqInv, NEW d \in DeploymentIds, Begin(d)
    PROVE  Running = {}
  <1>1. SUFFICES ASSUME NEW e \in Running PROVE FALSE
    OBVIOUS
  <1>2. Running = {e}
    BY DEF SeqInv
  <1>3. Cardinality({e}) = 1
    BY FS_Singleton
  <1> QED
    BY <1>2, <1>3 DEF Begin, Sequential

\* A request is accepted or has failed already; nothing else has changed.
LEMMA BeginShape ==
    ASSUME IInv, NEW d \in DeploymentIds, Begin(d)
    PROVE  /\ dep[d].pc = "new"
           /\ \A e \in DeploymentIds \ {d} : dep'[e] = dep[e]
           /\ dep'[d].revision = current_revision
           /\ \/ dep'[d].pc = "preflight" /\ dep'[d].answer = dep[d].answer
              \/ dep'[d].pc = "over" /\ dep'[d].answer = "notActivated"
           /\ dep'[d].answer \in {dep[d].answer, "notActivated"}
           /\ UNCHANGED <<link, runtime, budget, active_revision>>
  BY DEF Begin, IInv, CallsTypeOK, Deployment, pointerVars, fileVars

\* Without crashes the environment leaves the calls and the link alone.
LEMMA EnvironmentShape ==
    ASSUME IInv, SeqInv, Environment
    PROVE  /\ UNCHANGED <<dep, link, budget, active_revision>>
           /\ runtime'["dialplan"] \in {runtime["dialplan"], link}
  <1>1. CallsTypeOK /\ ~(budget.crashes > 0) /\ "dialplan" \in Modules
    BY DEF IInv, SeqInv, Modules
  <1>2. ASSUME NEW m \in Modules, LateReload(m)
        PROVE  /\ UNCHANGED <<dep, link, budget, active_revision>>
               /\ runtime'["dialplan"] \in {runtime["dialplan"], link}
    BY <1>1, <1>2 DEF LateReload, Load, CallsTypeOK, dbVars, pointerVars, fileVars, deployVars
  <1>3. ASSUME NEW design, SaveDuringDeploy(design)
        PROVE  UNCHANGED <<dep, link, budget, active_revision, runtime>>
    BY <1>3 DEF SaveDuringDeploy, SaveTopology, pointerVars, fileVars, deployVars
  <1>4. ASSUME NEW ext, ChangeSecretDuringDeploy(ext)
        PROVE  UNCHANGED <<dep, link, budget, active_revision, runtime>>
    BY <1>4 DEF ChangeSecretDuringDeploy, UpdateSipSecret, SaveTopology, pointerVars, fileVars,
                deployVars
  <1> QED
    BY <1>1, <1>2, <1>3, <1>4 DEF Environment, AsteriskRestart, BackendCrash

LEMMA SeqInit == ASSUME Sequential PROVE Init => SeqInv
  BY PcSets DEF Sequential, Init, Rested, NewDeployment, SeqInv, Running

LEMMA SeqPreserved ==
    ASSUME Sequential, IInv, SeqInv, [Next]_vars
    PROVE  SeqInv'
  <1>1. ASSUME NEW d \in DeploymentIds, Begin(d) PROVE SeqInv'
    <2>1. \A e \in DeploymentIds : dep[e].pc \notin InFlight
      BY <1>1, BeginsAlone DEF Running
    <2>2. /\ \A e \in DeploymentIds \ {d} : dep'[e] = dep[e]
          /\ dep'[d].pc \in {"preflight", "over"}
          /\ dep'[d].pc # "over" => dep'[d].answer = dep[d].answer
          /\ dep[d].pc = "new" /\ budget' = budget
      BY <1>1, BeginShape
    <2>3. \A e \in DeploymentIds : dep'[e].pc \in InFlight => e = d
      BY <2>1, <2>2
    <2>4. \A e \in DeploymentIds : dep'[e].pc \notin Activated \cup RollingBack
      BY <2>1, <2>2, PcSets
    <2>5. \A e \in DeploymentIds : dep'[e].answer # "none" => dep'[e].pc = "over"
      BY <2>2 DEF SeqInv
    <2> QED
      BY <2>2, <2>3, <2>4, <2>5 DEF SeqInv, Running
  <1>2. ASSUME NEW d \in DeploymentIds, Progress(d) PROVE SeqInv'
    <2>1. CallStep(d)
      BY <1>2, ProgressIsCallStep
    <2>2. \A e \in DeploymentIds \ {d} : dep[e].pc \notin InFlight /\ dep'[e] = dep[e]
      BY <2>1 DEF CallStep, SeqInv, Running
    <2>3. \A e \in DeploymentIds : dep'[e].pc \in InFlight => e = d
      BY <2>2
    <2>4. \A e \in DeploymentIds : dep'[e].pc \in Activated \cup RollingBack => e = d
      BY <2>3, PcSets
    <2>5. \A e \in DeploymentIds : dep'[e].answer # "none" => dep'[e].pc = "over"
      BY <2>1, <2>2, PcSets DEF CallStep, SeqInv
    <2> QED
      BY <2>1, <2>3, <2>4, <2>5 DEF CallStep, SeqInv, Running
  <1>3. CASE Environment \/ UNCHANGED vars
    <2>1. UNCHANGED <<dep, link, budget>>
      BY <1>3, EnvironmentShape DEF vars, fileVars, deployVars
    <2> QED
      BY <2>1 DEF SeqInv, Running
  <1> QED
    BY <1>1, <1>2, <1>3 DEF Next

LEMMA SequentialInvariant == ASSUME Sequential PROVE Spec => [](IInv /\ SeqInv)
  <1>1. Init => SeqInv
    BY SeqInit
  <1>2. IInv /\ SeqInv /\ [Next]_vars => SeqInv'
    BY SeqPreserved
  <1> QED
    BY <1>1, <1>2, Invariant, PTL DEF Spec

-----------------------------------------------------------------------------
\* Where a call is that has switched the link and has not seen the canary yet.
Unchecked == {"reload", "canary", "rbReload", "rbCanary"}

\* RuntimeServesLink made inductive: outside of those awaits the canary has
\* been seen since the link was switched last.
ServedInv ==
    (/\ link \in DeploymentIds
     /\ \A d \in DeploymentIds : dep[d].answer # "rollbackFailed" /\ dep[d].pc \notin Unchecked)
    => runtime["dialplan"] = link

LEMMA ServedProgress ==
    ASSUME IInv, SeqInv, ServedInv, NEW d \in DeploymentIds, Progress(d)
    PROVE  ServedInv'
  <1>0. /\ CallsTypeOK /\ dep[d] \in Deployment /\ NoTarget \notin DeploymentIds
        /\ CallStep(d)
    BY ProgressIsCallStep, DeployAssumption DEF IInv, CallsTypeOK
  <1>a. Answers = {"none", "deployed", "notActivated", "rolledBack", "rollbackFailed"}
    BY DEF Answers
  <1>1. CASE dep'[d].pc \in Unchecked \/ dep'[d].answer = "rollbackFailed"
    BY <1>1 DEF ServedInv
  <1>2. /\ \A e \in DeploymentIds \ {d} : dep'[e] = dep[e] /\ dep[e].pc \notin Unchecked
        /\ dep[d].answer # "rollbackFailed"
    <2>1. dep[d].pc \in InFlight /\ \A e \in DeploymentIds \ {d} : dep'[e] = dep[e]
      BY <1>0 DEF CallStep
    <2>2. \A e \in DeploymentIds \ {d} : dep[e].pc \notin InFlight
      BY <2>1 DEF SeqInv, Running
    <2>3. Unchecked \subseteq InFlight
      BY PcSets DEF Unchecked
    <2> QED
      BY <2>1, <2>2, <2>3, PcSets DEF SeqInv
  <1>3. ASSUME UNCHANGED <<link, runtime>>, dep[d].pc \notin Unchecked
        PROVE  ServedInv'
    BY <1>2, <1>3 DEF ServedInv
  <1>4. CASE PreflightPasses(d) \/ FailBeforeActivation(d)
    <2>1. UNCHANGED <<link, runtime>> /\ dep[d].pc \notin Unchecked
      BY <1>4 DEF PreflightPasses, FailBeforeActivation, fileVars, BeforeActivation, Unchecked
    <2> QED
      BY <1>3, <2>1
  <1>5. CASE Activate(d) \/ ReloadStep(d)
    <2>1. dep'[d].pc \in Unchecked
      BY <1>0, <1>5 DEF Activate, ReloadStep, CallsTypeOK, Deployment, Unchecked
    <2> QED
      BY <1>1, <2>1
  <1>6. CASE ReloadStepFails(d) \/ Unhealthy(d) \/ CommitThrows(d)
    <2>1. Restore(d)
      BY <1>6 DEF ReloadStepFails, Unhealthy, CommitThrows, RollBack, RestoreThrows, SeqInv
    <2> QED
      BY <1>0, <1>1, <2>1, RestoreShape DEF Unchecked
  <1>7. CASE CanarySeen(d)
    <2>1. link = d /\ runtime["dialplan"] = d /\ UNCHANGED <<link, runtime>>
      BY <1>7, PcSets DEF CanarySeen, DialplanHealthy, SeqInv, fileVars
    <2> QED
      BY <2>1 DEF ServedInv
  <1>8. CASE Commit(d) \/ RollbackSucceeds(d)
    <2>1. UNCHANGED <<link, runtime>> /\ dep[d].pc \notin Unchecked
      BY <1>8 DEF Commit, Verified, RollbackSucceeds, fileVars, Unchecked
    <2> QED
      BY <1>3, <2>1
  <1>9. CASE RollbackReloadStep(d)
    <2>1. CASE End(d, "rolledBack") /\ dep[d].previous = NoTarget
      <3>1. link' = NoTarget
        BY <1>9, <2>1, PcSets DEF RollbackReloadStep, SeqInv, fileVars
      <3> QED
        BY <1>0, <3>1 DEF ServedInv
    <2>2. CASE End(d, "rollbackFailed")
      BY <1>0, <1>1, <1>a, <2>2, EndShape
    <2>3. CASE /\ ~(End(d, "rolledBack") /\ dep[d].previous = NoTarget)
               /\ ~End(d, "rollbackFailed")
      <3>1. dep'[d].pc \in {"rbReload", "rbCanary"}
        BY <1>0, <1>9, <2>3 DEF RollbackReloadStep, Conclude, CallsTypeOK, Deployment
      <3> QED
        BY <1>1, <3>1 DEF Unchecked
    <2> QED
      BY <2>1, <2>2, <2>3
  <1>10. CASE RollbackCanarySeen(d)
    <2>1. /\ link = dep[d].previous /\ UNCHANGED <<link, runtime>>
          /\ dep[d].previous \in DeploymentIds => runtime["dialplan"] = dep[d].previous
      BY <1>10, PcSets DEF RollbackCanarySeen, DialplanHealthy, SeqInv, fileVars
    <2> QED
      BY <2>1 DEF ServedInv
  <1>11. CASE RollbackFails(d)
    BY <1>0, <1>1, <1>a, <1>11, EndShape DEF RollbackFails, Conclude
  <1> QED
    BY <1>4, <1>5, <1>6, <1>7, <1>8, <1>9, <1>10, <1>11 DEF Progress

LEMMA ServedInit == Init => ServedInv
  BY DeployAssumption DEF Init, Rested, ServedInv

LEMMA ServedPreserved ==
    ASSUME Sequential, IInv, SeqInv, ServedInv, [Next]_vars
    PROVE  ServedInv'
  <1>1. ASSUME NEW d \in DeploymentIds, Begin(d) PROVE ServedInv'
    <2>1. \A e \in DeploymentIds : dep[e].pc \notin InFlight \/ dep[e].answer = "rollbackFailed"
      BY <1>1, BeginsAlone DEF Running
    <2>2. Unchecked \subseteq InFlight
      BY PcSets DEF Unchecked
    <2>3. /\ \A e \in DeploymentIds \ {d} : dep'[e] = dep[e]
          /\ dep'[d].answer \in {dep[d].answer, "notActivated"}
          /\ dep[d].answer = "none"
          /\ UNCHANGED <<link, runtime>>
      BY <1>1, BeginShape DEF SeqInv
    <2> QED
      BY <2>1, <2>2, <2>3 DEF ServedInv
  <1>2. ASSUME NEW d \in DeploymentIds, Progress(d) PROVE ServedInv'
    BY <1>2, ServedProgress
  <1>3. CASE Environment \/ UNCHANGED vars
    <2>1. UNCHANGED <<dep, link>> /\ runtime'["dialplan"] \in {runtime["dialplan"], link}
      BY <1>3, EnvironmentShape DEF vars, fileVars, deployVars
    <2> QED
      BY <2>1 DEF ServedInv
  <1> QED
    BY <1>1, <1>2, <1>3 DEF Next

\* While deployments do not overlap and the backend does not die, Asterisk
\* runs the dialplan the link names whenever no deployment is under way and
\* no rollback so far has failed: whichever commands were lost, late or
\* without effect, and whatever editors saved meanwhile.
THEOREM DialplanIsTheLinks ==
    ASSUME Sequential PROVE Spec => []RuntimeServesLink
  <1>1. Init => ServedInv
    BY ServedInit
  <1>2. IInv /\ SeqInv /\ ServedInv /\ [Next]_vars => ServedInv'
    BY ServedPreserved
  <1>3. ServedInv => RuntimeServesLink
    <2>1. Unchecked \subseteq InFlight
      BY PcSets DEF Unchecked
    <2> QED
      BY <2>1 DEF ServedInv, RuntimeServesLink, Running
  <1> QED
    BY <1>1, <1>2, <1>3, SequentialInvariant, PTL DEF Spec

-----------------------------------------------------------------------------
\* The refinement.  Serving chooses the activated call, if there is one; when
\* no call but d may be, that is d.
LEMMA OneChosen ==
    ASSUME NEW calls, NEW target, NEW d \in DeploymentIds,
           \A e \in DeploymentIds \ {d} : calls[e].pc \notin Activated
    PROVE  (IF \E x \in DeploymentIds : calls[x].pc \in Activated
            THEN calls[CHOOSE x \in DeploymentIds : calls[x].pc \in Activated].previous
            ELSE target)
           = IF calls[d].pc \in Activated THEN calls[d].previous ELSE target
  <1>1. CASE calls[d].pc \in Activated
    <2>1. (CHOOSE x \in DeploymentIds : calls[x].pc \in Activated) = d
      BY <1>1
    <2> QED
      BY <1>1, <2>1
  <1>2. CASE calls[d].pc \notin Activated
    BY <1>2
  <1> QED
    BY <1>1, <1>2

LEMMA ServingIsView ==
    ASSUME NEW d \in DeploymentIds, CallStep(d), SeqInv
    PROVE  Serving = View(d) /\ Serving' = View(d)'
  <1>1. \A e \in DeploymentIds \ {d} : dep'[e] = dep[e] /\ dep[e].pc \notin Activated
    BY PcSets DEF CallStep, SeqInv, Running
  <1>2. \A e \in DeploymentIds \ {d} : dep'[e].pc \notin Activated
    BY <1>1
  <1>3. Serving = View(d)
    BY <1>1, OneChosen DEF Serving, View
  <1>4. Serving' = View(d)'
    BY <1>2, OneChosen DEF Serving, View
  <1> QED
    BY <1>3, <1>4

LEMMA ContractUnchanged ==
    ASSUME UNCHANGED <<dep, link, active_revision>>
    PROVE  UNCHANGED Contract!vars
  BY DEF Contract!vars, Serving, Outcome

LEMMA ProgressRefines ==
    ASSUME IInv, SeqInv, NEW d \in DeploymentIds, Progress(d)
    PROVE  [Contract!Next]_Contract!vars
  <1>1. CallStep(d)
    BY ProgressIsCallStep
  <1>2. Serving = View(d) /\ Serving' = View(d)'
    BY <1>1, ServingIsView
  <1> DEFINE revisions == [e \in DeploymentIds |-> dep[e].revision]
             outcomes == [e \in DeploymentIds |-> Outcome(e)]
  <1>3. \A e \in DeploymentIds \ {d} : Outcome(e)' = Outcome(e)
    BY <1>1 DEF CallStep, Outcome
  <1>4. revisions' = revisions
    BY <1>1 DEF CallStep
  <1>5. Outcome(d) = "open"
    BY <1>1, PcSets DEF CallStep, Outcome
  <1>6. ASSUME NEW o, Outcome(d)' = o
        PROVE  outcomes' = [outcomes EXCEPT ![d] = o]
    BY <1>3, <1>6
  <1>7. CASE dep'[d].pc = "over" /\ dep'[d].answer = "deployed"
    <2>1. View(d)' = d /\ active_revision' = dep[d].revision
      BY <1>1, <1>7 DEF CallStep
    <2>2. Outcome(d)' = "success"
      BY <1>7, PcSets DEF Outcome
    <2>3. Contract!Succeed(d)
      BY <1>2, <1>4, <1>5, <1>6, <2>1, <2>2 DEF Contract!Succeed
    <2> QED
      BY <2>3 DEF Contract!Next
  <1>8. CASE dep'[d].pc = "over" /\ dep'[d].answer # "deployed"
    <2>1. View(d)' = View(d) /\ active_revision' = active_revision
      BY <1>1, <1>8 DEF CallStep
    <2>2. Outcome(d)' = "failed"
      BY <1>8, PcSets DEF Outcome
    <2>3. Contract!Fail(d)
      BY <1>2, <1>4, <1>5, <1>6, <2>1, <2>2 DEF Contract!Fail
    <2> QED
      BY <2>3 DEF Contract!Next
  <1>9. CASE dep'[d].pc # "over"
    <2>1. View(d)' = View(d) /\ active_revision' = active_revision /\ dep'[d].pc \in InFlight
      BY <1>1, <1>9 DEF CallStep
    <2>2. Outcome(d)' = "open"
      BY <2>1, PcSets DEF Outcome
    <2>3. outcomes' = outcomes
      BY <1>3, <1>5, <2>2
    <2> QED
      BY <1>2, <1>4, <2>1, <2>3 DEF Contract!vars
  <1> QED
    BY <1>7, <1>8, <1>9

LEMMA BeginRefines ==
    ASSUME Sequential, IInv, SeqInv, NEW d \in DeploymentIds, Begin(d)
    PROVE  Contract!Next
  <1>1. \A e \in DeploymentIds : dep[e].pc \notin InFlight
    BY BeginsAlone DEF Running
  <1>2. /\ dep[d].pc = "new"
        /\ \A e \in DeploymentIds \ {d} : dep'[e] = dep[e]
        /\ dep'[d].revision = current_revision
        /\ \/ dep'[d].pc = "preflight"
           \/ dep'[d].pc = "over" /\ dep'[d].answer = "notActivated"
        /\ UNCHANGED <<link, active_revision>>
    BY BeginShape
  <1>3. current_revision \in 1 .. MaxRevision
    BY DEF IInv, DbInv, DbTypeOK
  <1>4. UNCHANGED Serving
    <2>1. \A e \in DeploymentIds : dep[e].pc \notin Activated /\ dep'[e].pc \notin Activated
      BY <1>1, <1>2, PcSets
    <2> QED
      BY <1>2, <2>1 DEF Serving
  <1> DEFINE revisions == [e \in DeploymentIds |-> dep[e].revision]
             outcomes == [e \in DeploymentIds |-> Outcome(e)]
  <1>5. \A e \in DeploymentIds : Outcome(e) # "open"
    BY <1>1 DEF Outcome
  <1>6. Outcome(d) = "none"
    BY <1>2 DEF Outcome
  <1>7. \A e \in DeploymentIds \ {d} : Outcome(e)' = Outcome(e)
    BY <1>2 DEF Outcome
  <1>8. Outcome(d)' \in {"open", "failed"}
    BY <1>2, PcSets DEF Outcome
  <1>9. revisions' = [revisions EXCEPT ![d] = current_revision]
    BY <1>2
  <1>10. outcomes' = [outcomes EXCEPT ![d] = Outcome(d)']
    BY <1>7
  <1>11. Contract!Begin(d)
    BY <1>2, <1>3, <1>4, <1>5, <1>6, <1>8, <1>9, <1>10 DEF Contract!Begin
  <1> QED
    BY <1>11 DEF Contract!Next

LEMMA InitRefines == Init => Contract!Init
  <1> SUFFICES ASSUME Init PROVE Contract!Init
    OBVIOUS
  <1>1. /\ \A d \in DeploymentIds : dep[d].pc = "new" /\ dep[d].revision = NoRevision
        /\ link = InitialTarget /\ active_revision = NoRevision
    BY DEF Init, Rested, NewDeployment, InsertInitialTopology
  <1>2. Serving = InitialTarget
    BY <1>1, PcSets DEF Serving
  <1> QED
    BY <1>1, <1>2 DEF Contract!Init, Outcome

\* Deployments that do not overlap, in a backend that does not die, take
\* effect as a whole or not at all: every step of deployTopology is a step
\* of the contract or invisible to it.
THEOREM DeploymentIsAllOrNothing ==
    ASSUME Sequential PROVE Spec => ImplementsContract
  <1>1. IInv /\ SeqInv /\ [Next]_vars => [Contract!Next]_Contract!vars
    <2> SUFFICES ASSUME IInv, SeqInv, [Next]_vars PROVE [Contract!Next]_Contract!vars
      OBVIOUS
    <2>1. ASSUME NEW d \in DeploymentIds, Begin(d) PROVE [Contract!Next]_Contract!vars
      BY <2>1, BeginRefines
    <2>2. ASSUME NEW d \in DeploymentIds, Progress(d) PROVE [Contract!Next]_Contract!vars
      BY <2>2, ProgressRefines
    <2>3. CASE Environment \/ UNCHANGED vars
      <3>1. UNCHANGED <<dep, link, active_revision>>
        BY <2>3, EnvironmentShape DEF vars, dbVars, pointerVars, fileVars, deployVars
      <3> QED
        BY <3>1, ContractUnchanged
    <2> QED
      BY <2>1, <2>2, <2>3 DEF Next
  <1>2. Init => Contract!Init
    BY InitRefines
  <1> QED
    BY <1>1, <1>2, SequentialInvariant, PTL DEF Spec, ImplementsContract, Contract!Spec
=============================================================================
