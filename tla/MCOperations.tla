----------------------------- MODULE MCOperations -----------------------------
(***************************************************************************)
(* What an operator does with the data of an installation, on small sets:  *)
(* rotate the master key (SecretRotation), restore a backup (Restore),     *)
(* start the first time with a topology.json (LegacyMigration).  One of    *)
(* them is done in a behaviour, the initial state chooses which; the       *)
(* others rest in an initial state of theirs.                              *)
(***************************************************************************)
EXTENDS SecretRotation

CONSTANTS Prompts, Versions, MaxRuns
CONSTANTS Processes, Contents, Valid, MaxCrashes, MaxEdits

\* Another process's file has a name of its own.
ASSUME RestoreAssumption ==
    /\ "other" \notin Prompts \cup Versions
    /\ MaxRuns \in Nat \ {0}

\* What a topology.json holds is neither a state of the file nor the example.
ASSUME MigrationAssumption ==
    /\ Valid \subseteq Contents
    /\ {"absent", "partial", "seed", "none"} \cap Contents = {}
    /\ {MaxCrashes, MaxEdits} \subseteq Nat

VARIABLES below, before, others, mode, entries, archive, sessions, found, written, pc, step, runs
VARIABLES legacy, backup, first, migrated, place, topology, provided, crashes, edits
VARIABLE task   \* what is done

Recovery == INSTANCE Restore
Migration == INSTANCE LegacyMigration WITH pc <- place

restoreVars == <<below, before, others, mode, entries, archive, sessions, found, written, pc, step, runs>>
migrationVars == <<legacy, backup, first, migrated, place, topology, provided, crashes, edits>>
operationsVars == <<rotationVars, restoreVars, migrationVars, task>>

OperationsInit ==
    /\ task \in {"rotation", "restore", "migration"}
    /\ RotationInit /\ Recovery!Init /\ Migration!Init
    /\ task # "rotation" =>
         source = (CHOOSE k \in Keys : TRUE) /\ writesStopped
    /\ task # "restore" =>
         below = {} /\ archive = "good" /\ \A t \in DOMAIN before : before[t] = "absent"
    /\ task # "migration" => legacy = "absent"

OperationsNext ==
    /\ \/ task = "rotation" /\ RotationNext /\ UNCHANGED <<restoreVars, migrationVars>>
       \/ task = "restore" /\ Recovery!Next /\ UNCHANGED <<rotationVars, migrationVars>>
       \/ task = "migration" /\ Migration!Next /\ UNCHANGED <<rotationVars, restoreVars>>
    /\ UNCHANGED task

\* The fairness of the migration, while it is on.
OperationsFairness ==
    \A p \in Processes : WF_migrationVars(task = "migration" /\ Migration!Step(p))

OperationsSpec == OperationsInit /\ [][OperationsNext]_operationsVars /\ OperationsFairness

-----------------------------------------------------------------------------
\* The variables of all three are what they are meant to be.
OperationsTypesOK == RotationTypeOK /\ Recovery!TypeOK /\ Migration!TypeOK

\* Those of Restore.
FailureLeavesTargets == Recovery!FailureLeavesTargets
RestoredIsWhole == Recovery!RestoredIsWhole

\* Those of LegacyMigration.
LegacyBeatsSeed == Migration!LegacyBeatsSeed
SourceGoesAfterCommit == Migration!SourceGoesAfterCommit
Migrates == task = "migration" => Migration!Migrates
=============================================================================
