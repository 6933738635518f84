------------------------------- MODULE Preflight -------------------------------
(***************************************************************************)
(* The file handshake by which a deployment has its candidate loaded by an *)
(* isolated Asterisk: validateStagedWithAsterisk in                        *)
(* src/backend/src/asterisk/deploy.ts publishes a request and polls for a  *)
(* result until a deadline; src/asterisk/preflight-worker.sh, one loop in  *)
(* the other container, takes the requests one after the other.            *)
(*                                                                         *)
(* Time is counted in ticks.  Whoever has something to do does it before   *)
(* the next tick (the loops poll every 100 and 200 ms); the isolated       *)
(* Asterisk takes up to WorkerLimit ticks (600 attempts).  A deployment    *)
(* has an id of its own, which names its files.                            *)
(***************************************************************************)
EXTENDS Integers, FiniteSets

CONSTANTS
    Deployments,    \* deployment ids
    Good,           \* those whose candidate Asterisk loads without an error
    Deadline,       \* ASTERISK_PREFLIGHT_TIMEOUT_MS
    WorkerLimit,    \* how long the worker waits for its Asterisk, shorter
    MaxFaults       \* bound on deaths of the worker, the backend or the container

VARIABLES
    phase,          \* of each deployment
    elapsed,        \* ticks since its request was published
    requests,       \* the request files
    results,        \* the result files, deployment to verdict
    worker,         \* what the worker does
    faults

vars == <<phase, elapsed, requests, results, worker, faults>>

Verdicts == {"ok", "error"}
Phases == {"new", "waiting", "ok", "error", "timeout", "gone"}
Looking == [at |-> "loop"]
Dead == [at |-> "dead"]
Working == [at : {"validating", "written"}, id : Deployments, spent : 0 .. WorkerLimit]

Verdict(d) == IF d \in Good THEN "ok" ELSE "error"
Busy == worker \notin {Looking, Dead}

-----------------------------------------------------------------------------
(* The backend *)

\* The request appears under its name complete: it is written and renamed.
\* docker-compose.yml configures its directory; without one nobody is asked.
Publish(d) ==
    /\ phase[d] = "new"
    /\ phase' = [phase EXCEPT ![d] = "waiting"]
    /\ requests' = requests \cup {d}
    /\ UNCHANGED <<elapsed, results, worker, faults>>

\* finally: both files go, whether or not the worker is still at it.
Cleanup(d) ==
    /\ requests' = requests \ {d}
    /\ results' = [r \in DOMAIN results \ {d} |-> results[r]]

\* Mutant: whatever result there is will do.
PollAny(d) ==
    /\ phase[d] = "waiting" /\ elapsed[d] < Deadline /\ DOMAIN results # {}
    /\ \E r \in DOMAIN results : phase' = [phase EXCEPT ![d] = results[r]]
    /\ Cleanup(d) /\ UNCHANGED <<elapsed, worker, faults>>
Poll(d) ==
    /\ phase[d] = "waiting" /\ elapsed[d] < Deadline /\ d \in DOMAIN results
    /\ phase' = [phase EXCEPT ![d] = results[d]]
    /\ Cleanup(d) /\ UNCHANGED <<elapsed, worker, faults>>

\* The deadline is looked at before the result is.
\* Mutant: there is none.
GiveUpNever(d) == phase[d] = "none" /\ UNCHANGED vars
GiveUp(d) ==
    /\ phase[d] = "waiting" /\ elapsed[d] = Deadline
    /\ phase' = [phase EXCEPT ![d] = "timeout"]
    /\ Cleanup(d) /\ UNCHANGED <<elapsed, worker, faults>>

-----------------------------------------------------------------------------
(* The worker *)

Take ==
    /\ worker = Looking
    /\ \E d \in requests : worker' = [at |-> "validating", id |-> d, spent |-> 0]
    /\ UNCHANGED <<phase, elapsed, requests, results, faults>>

\* The isolated Asterisk has loaded the candidate or has not become ready in
\* time; the result is renamed into place even if nobody waits any more.
Answer ==
    /\ worker.at = "validating"
    /\ \E v \in {Verdict(worker.id)} \cup (IF worker.spent = WorkerLimit THEN {"error"} ELSE {}) :
         results' = [d \in DOMAIN results \cup {worker.id} |->
                        IF d = worker.id THEN v ELSE results[d]]
    /\ worker' = [worker EXCEPT !.at = "written"]
    /\ UNCHANGED <<phase, elapsed, requests, faults>>

Done ==
    /\ worker.at = "written"
    /\ requests' = requests \ {worker.id}
    /\ worker' = Looking
    /\ UNCHANGED <<phase, elapsed, results, faults>>

-----------------------------------------------------------------------------
(* Faults and time *)

\* Under set -e the worker dies of the first command that fails, like a copy
\* of /etc/asterisk in which another deployment's file has just been renamed;
\* nothing but a start of the container starts it again.
WorkerDies ==
    /\ Busy /\ faults < MaxFaults
    /\ worker' = Dead /\ faults' = faults + 1
    /\ UNCHANGED <<phase, elapsed, requests, results>>

ContainerRestarts ==
    /\ faults < MaxFaults
    /\ worker' = Looking /\ faults' = faults + 1
    /\ UNCHANGED <<phase, elapsed, requests, results>>

\* Who waits is gone, the files stay.
BackendDies ==
    /\ faults < MaxFaults
    /\ phase' = [d \in Deployments |-> IF phase[d] = "waiting" THEN "gone" ELSE phase[d]]
    /\ faults' = faults + 1
    /\ UNCHANGED <<elapsed, requests, results, worker>>

Prompt ==
    /\ worker = Looking => requests = {}
    /\ Busy => worker.at = "validating" /\ worker.spent < WorkerLimit
    /\ \A d \in Deployments :
         phase[d] = "waiting" => elapsed[d] < Deadline /\ d \notin DOMAIN results

Tick ==
    /\ Prompt
    /\ Busy \/ \E d \in Deployments : phase[d] = "waiting"
    /\ elapsed' = [d \in Deployments |->
                      IF phase[d] = "waiting" THEN elapsed[d] + 1 ELSE elapsed[d]]
    /\ worker' = IF Busy THEN [worker EXCEPT !.spent = @ + 1] ELSE worker
    /\ UNCHANGED <<phase, requests, results, faults>>

-----------------------------------------------------------------------------
Init ==
    /\ phase = [d \in Deployments |-> "new"]
    /\ elapsed = [d \in Deployments |-> 0]
    /\ requests = {} /\ results = [d \in {} |-> "ok"]
    /\ worker = Looking /\ faults = 0

Steps(d) == Publish(d) \/ Poll(d) \/ GiveUp(d)

Next ==
    \/ \E d \in Deployments : Steps(d)
    \/ Take \/ Answer \/ Done \/ Tick
    \/ WorkerDies \/ ContainerRestarts \/ BackendDies

\* The backend's timers run, and so does time; the worker need not.
Spec ==
    /\ Init /\ [][Next]_vars
    /\ WF_vars(Tick) /\ WF_vars(Take \/ Answer \/ Done)
    /\ \A d \in Deployments : WF_vars(Poll(d) \/ GiveUp(d))

-----------------------------------------------------------------------------
\* Everything has its type, and what a deployment still waiting has published
\* is there unless the worker is done with it.
TypeOK ==
    /\ phase \in [Deployments -> Phases] /\ elapsed \in [Deployments -> 0 .. Deadline]
    /\ requests \subseteq Deployments
    /\ DOMAIN results \subseteq Deployments
    /\ \A d \in DOMAIN results : results[d] \in Verdicts
    /\ worker \in Working \cup {Looking, Dead} /\ faults \in 0 .. MaxFaults
    /\ \A d \in Deployments : phase[d] = "waiting" => d \in requests \cup DOMAIN results

\* A deployment goes on only if its own candidate was loaded without an error,
\* with results left by others, repeated validations and late answers.
OwnVerdict == \A d \in Deployments : phase[d] = "ok" => d \in Good

\* Every preflight ends, with a worker that has died for good.
AllEnd == \A d \in Deployments : phase[d] = "waiting" ~> phase[d] # "waiting"
===============================================================================
