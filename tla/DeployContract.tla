--------------------------- MODULE DeployContract ---------------------------
(***************************************************************************)
(* What architecture.md promises of a deployment: it takes effect as a     *)
(* whole or not at all.  The system serves one configuration; a deployment *)
(* replaces it and moves the active revision in one step, when and only    *)
(* when it succeeds.  Deploy implements this as long as deployments do not *)
(* overlap and nothing dies between two of its steps.                      *)
(***************************************************************************)
CONSTANTS DeploymentIds, Revisions, InitialTarget, NoRevision

VARIABLES
    serving,   \* the configuration the telephone system is meant to run
    active,    \* the revision recorded as active
    revision,  \* per deployment, the revision it deploys
    outcome    \* per deployment, how it stands

vars == <<serving, active, revision, outcome>>

Init ==
    /\ serving = InitialTarget
    /\ active = NoRevision
    /\ revision = [d \in DeploymentIds |-> NoRevision]
    /\ outcome = [d \in DeploymentIds |-> "none"]

\* A request is accepted, or fails before there is anything to wait for.
Begin(d) ==
    /\ outcome[d] = "none"
    /\ \A other \in DeploymentIds : outcome[other] # "open"
    /\ \E r \in Revisions : revision' = [revision EXCEPT ![d] = r]
    /\ \E o \in {"open", "failed"} : outcome' = [outcome EXCEPT ![d] = o]
    /\ UNCHANGED <<serving, active>>

Succeed(d) ==
    /\ outcome[d] = "open"
    /\ serving' = d
    /\ active' = revision[d]
    /\ outcome' = [outcome EXCEPT ![d] = "success"]
    /\ UNCHANGED revision

Fail(d) ==
    /\ outcome[d] = "open"
    /\ outcome' = [outcome EXCEPT ![d] = "failed"]
    /\ UNCHANGED <<serving, active, revision>>

Next == \E d \in DeploymentIds : Begin(d) \/ Succeed(d) \/ Fail(d)

Spec == Init /\ [][Next]_vars
=============================================================================
