------------------------------ MODULE MCDeploy ------------------------------
(***************************************************************************)
(* Deploy on small sets; deployment ids and extensions are interchangeable *)
(* in the runs that check no liveness.                                     *)
(***************************************************************************)
EXTENDS Deploy, TLC

Symmetry == Permutations(DeploymentIds) \cup Permutations(Extensions)

\* One fault of any kind, whichever it will be.
OneFaultInit ==
    /\ Rested
    /\ budget \in [faults : 0 .. 1, localFaults : 0 .. 1, crashes : 0 .. 1]
    /\ budget.faults + budget.localFaults + budget.crashes = 1

OneFaultSpec == OneFaultInit /\ [][Next]_vars /\ Progressing
=============================================================================
