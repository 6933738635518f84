------------------------------ MODULE MCComponents ------------------------------
(***************************************************************************)
(* The components around the topology store, which share no state with it  *)
(* or with each other: calls and opening hours (MCCalls), the processes    *)
(* between backend and Asterisk (MCRuntime), what an operator does with    *)
(* the data (MCOperations).  The initial state chooses which of them a     *)
(* behaviour shows, and the others rest in an initial state of theirs.     *)
(***************************************************************************)
EXTENDS MCCalls, MCRuntime, MCOperations

VARIABLE component

allVars == <<callsVars, runtimeVars, operationsVars, component>>

MCInit ==
    /\ component \in {"calls", "runtime", "operations"}
    /\ component = "calls" \/ (scene = "hours" /\ schedule = [windows |-> {}, holidays |-> {}])
    /\ component = "runtime" \/ part = "client"
    /\ component = "operations" \/ (task = "rotation" /\ source = (CHOOSE k \in Keys : TRUE) /\ writesStopped = TRUE)
    /\ OperationsInit /\ RuntimeInit /\ CallsInit

MCNext ==
    /\ \/ component = "calls" /\ CallsNext /\ UNCHANGED <<runtimeVars, operationsVars>>
       \/ component = "runtime" /\ RuntimeNext /\ UNCHANGED <<callsVars, operationsVars>>
       \/ component = "operations" /\ OperationsNext /\ UNCHANGED <<callsVars, runtimeVars>>
    /\ UNCHANGED component

\* The fairness of each component, which is about none of its resting states.
MCSpec == MCInit /\ [][MCNext]_allVars /\ CallsFairness /\ RuntimeFairness /\ OperationsFairness

-----------------------------------------------------------------------------
\* The variables of all components are what they are meant to be.
TypesOK == CallsTypesOK /\ RuntimeTypesOK /\ OperationsTypesOK
=============================================================================
