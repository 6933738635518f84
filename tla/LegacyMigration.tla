---------------------------- MODULE LegacyMigration ----------------------------
(***************************************************************************)
(* What the first start makes of a topology.json: initializeTopology of    *)
(* src/backend/src/model/database.ts.  Every process that opens the        *)
(* database goes through it, the server as well as a command started at    *)
(* the same moment, and each may die between any two calls; whoever starts *)
(* next finds what was left of the two files and the database.             *)
(***************************************************************************)
EXTENDS Naturals

CONSTANTS
    Processes,      \* the server and the commands
    Contents,       \* what may be in topology.json
    Valid,          \* the contents JSON.parse and prepareSecrets accept
    MaxCrashes,     \* bound on deaths
    MaxEdits        \* bound on what the operator does to the files

VARIABLES
    legacy,         \* topology.json
    backup,         \* topology.json.pre-sqlite-migration
    first,          \* what the first revision was made of
    migrated,       \* metadata: legacy_topology_migrated
    pc, topology,   \* of each process: where it is, and what it will insert
    provided,       \* whether there was a topology.json before the first revision
    crashes, edits

vars == <<legacy, backup, first, migrated, pc, topology, provided, crashes, edits>>

Places == {"down", "look", "backup", "copying", "insert", "remove", "up"}

Goto(p, place) == pc' = [pc EXCEPT ![p] = place]
Refuse(p) == Goto(p, "down")
Outside == UNCHANGED <<provided, crashes, edits>>

-----------------------------------------------------------------------------
Open(p) ==
    /\ pc[p] = "down" /\ Outside
    /\ Goto(p, IF first = "none" THEN "look" ELSE IF migrated THEN "remove" ELSE "up")
    /\ UNCHANGED <<legacy, backup, first, migrated, topology>>

Look(p) ==
    /\ pc[p] = "look" /\ Outside
    /\ topology' = [topology EXCEPT ![p] = IF legacy = "absent" THEN "seed" ELSE legacy]
    /\ Goto(p, IF legacy = "absent" THEN "insert" ELSE "backup")
    /\ UNCHANGED <<legacy, backup, first, migrated>>

\* A file from an earlier attempt must be identical; a new one is created
\* exclusively and filled afterwards.
\* Mutant: a file from an earlier attempt is not expected.
MakeBackupOnce(p) ==
    /\ pc[p] = "backup" /\ Outside
    /\ IF backup = "absent" THEN backup' = "partial" /\ Goto(p, "copying")
       ELSE Refuse(p) /\ UNCHANGED backup
    /\ UNCHANGED <<legacy, first, migrated, topology>>
MakeBackup(p) ==
    /\ pc[p] = "backup" /\ Outside
    /\ \/ backup = "absent" /\ backup' = "partial" /\ Goto(p, "copying")
       \/ backup = topology[p] /\ Goto(p, "insert") /\ UNCHANGED backup
       \/ backup \notin {"absent", topology[p]} /\ Refuse(p) /\ UNCHANGED backup
    /\ UNCHANGED <<legacy, first, migrated, topology>>

CopyEnds(p) ==
    /\ pc[p] = "copying" /\ Outside
    /\ backup' = topology[p] /\ Goto(p, "insert")
    /\ UNCHANGED <<legacy, first, migrated, topology>>

\* One transaction: the secrets, the revision, the only row of topology_state
\* and the flag.
\* Mutant: it replaces what another process has inserted meanwhile.
InsertAnyway == TRUE
MayInsert == first = "none"
Insert(p) ==
    /\ pc[p] = "insert" /\ Outside
    /\ IF MayInsert /\ topology[p] \in Valid \cup {"seed"}
       THEN /\ first' = topology[p]
            /\ migrated' = (topology[p] # "seed")
            /\ Goto(p, IF topology[p] = "seed" THEN "up" ELSE "remove")
       ELSE Refuse(p) /\ UNCHANGED <<first, migrated>>
    /\ UNCHANGED <<legacy, backup, topology>>

\* Mutant: the file goes whatever is in it.
RemoveAnyway(p) ==
    /\ pc[p] = "remove" /\ Outside
    /\ legacy' = "absent" /\ Goto(p, "up")
    /\ UNCHANGED <<backup, first, migrated, topology>>
RemoveSource(p) ==
    /\ pc[p] = "remove" /\ Outside
    /\ IF legacy \in {"absent", backup}
       THEN legacy' = "absent" /\ Goto(p, "up")
       ELSE Refuse(p) /\ UNCHANGED legacy
    /\ UNCHANGED <<backup, first, migrated, topology>>

-----------------------------------------------------------------------------
Crash(p) ==
    /\ pc[p] # "down" /\ crashes < MaxCrashes
    /\ Goto(p, "down") /\ crashes' = crashes + 1
    /\ UNCHANGED <<legacy, backup, first, migrated, topology, provided, edits>>

\* The operator works on the files while nothing runs: an older installation
\* is copied in, a topology changed, or the sensitive backup removed.
OperatorEdits ==
    /\ \A p \in Processes : pc[p] = "down"
    /\ edits < MaxEdits /\ edits' = edits + 1
    /\ \/ /\ legacy' \in Contents \ {legacy}
          /\ provided' = (provided \/ first = "none")
          /\ UNCHANGED backup
       \/ /\ first # "none" /\ backup # "absent"
          /\ backup' = "absent" /\ UNCHANGED <<legacy, provided>>
    /\ UNCHANGED <<first, migrated, pc, topology, crashes>>

Init ==
    /\ legacy \in Contents \cup {"absent"}
    /\ backup = "absent" /\ first = "none" /\ migrated = FALSE
    /\ pc = [p \in Processes |-> "down"]
    /\ topology = [p \in Processes |-> "seed"]
    /\ provided = (legacy # "absent")
    /\ crashes = 0 /\ edits = 0

Step(p) ==
    \/ Open(p) \/ Look(p) \/ MakeBackup(p) \/ CopyEnds(p) \/ Insert(p) \/ RemoveSource(p)

Next == OperatorEdits \/ \E p \in Processes : Step(p) \/ Crash(p)

\* A start goes on, and one that failed is repeated: docker-compose.yml
\* restarts the server unless it was stopped.
Spec == Init /\ [][Next]_vars /\ \A p \in Processes : WF_vars(Step(p))

-----------------------------------------------------------------------------
\* Types, and the flag is set exactly when the first revision is an import.
TypeOK ==
    /\ legacy \in Contents \cup {"absent"}
    /\ backup \in Contents \cup {"absent", "partial"}
    /\ first \in Valid \cup {"none", "seed"}
    /\ migrated = (first \in Valid)
    /\ pc \in [Processes -> Places] /\ topology \in [Processes -> Contents \cup {"seed"}]
    /\ provided \in BOOLEAN /\ crashes \in 0 .. MaxCrashes /\ edits \in 0 .. MaxEdits

\* "the original plaintext source is removed only after the SQLite transaction
\* commits": what goes has been imported and is in the backup, byte for byte.
SourceGoesAfterCommit ==
    [][legacy # "absent" /\ legacy' = "absent" => first = legacy /\ backup = legacy]_vars

\* A topology.json that is there is what the first revision is made of, and
\* never the example; starts at the same time do not import it twice.
LegacyBeatsSeed == first = "seed" => ~provided

\* Starts repeated long enough give a first revision, and leave no plaintext
\* source of one that was imported, unless the file is refused for what is in
\* it or differs from the backup.
Stuck ==
    /\ legacy # "absent"
    /\ \/ ~migrated /\ legacy \notin Valid
       \/ backup # legacy /\ (migrated \/ backup # "absent")
Migrates == <>[]((first # "none" /\ (migrated => legacy = "absent")) \/ Stuck)
================================================================================
