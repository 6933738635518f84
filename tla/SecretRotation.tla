----------------------------- MODULE SecretRotation -----------------------------
(***************************************************************************)
(* Rotating the master key: rotateSecrets of src/backend/src/model/        *)
(* database.ts, run by the command of src/backend/src/cli/                 *)
(* rotateMasterKey.ts in a process of its own, and a server that goes on   *)
(* with the key it was started with (src/backend/src/security/crypto.ts).  *)
(*                                                                         *)
(* The operator's procedure (docs/security.md, Master-key lifecycle) stops *)
(* the writes, rotates, updates the key source and restarts; the command   *)
(* may be interrupted anywhere, and its answer may be lost.                *)
(***************************************************************************)
EXTENDS Naturals

CONSTANTS
    Extensions,     \* those with a SIP secret
    Keys,           \* master keys
    MaxWrites,      \* bound on the changes of a secret
    MaxInterruptions \* bound on interruptions and wrong keys

ASSUME RotationAssumption ==
    /\ Extensions # {} /\ "none" \notin Keys
    /\ MaxWrites \in Nat /\ MaxInterruptions \in Nat

VARIABLES
    writesStopped,  \* whether the operator does stop the writes
    rows,           \* sip_secrets: the key a row names and the plaintext in it
    accepted,       \* the plaintext of the last change the server confirmed
    server,         \* the key of the running server
    source,         \* the key in the runtime secret source
    target,         \* the new key of the procedure
    stage,          \* where the operator is in it
    cli,            \* the transaction of the command
    interruptions

rotationVars == <<writesStopped, rows, accepted, server, source, target, stage, cli, interruptions>>

Row == [key : Keys, value : 0 .. MaxWrites]
Idle == [at |-> "idle"]
Stages == {"normal", "stopped", "rotated", "unclear", "updated"}

\* decrypt refuses a row that names another key.
Opens(key, row) == row.key = key

\* Another process cannot write while the command's transaction does.
WriteLock == cli.at = "updating"

-----------------------------------------------------------------------------
(* The server *)

\* getDatabase checks the length of the key; nobody looks at the rows.
StartServer ==
    /\ server = "none" /\ server' = source
    /\ stage' = IF stage = "updated" THEN "normal" ELSE stage
    /\ UNCHANGED <<rows, accepted, source, target, cli, interruptions>>

StopServer ==
    /\ server # "none" /\ server' = "none"
    /\ UNCHANGED <<rows, accepted, source, target, stage, cli, interruptions>>

\* updateSipSecret encrypts with the server's key and never decrypts.
UpdateSipSecret(e) ==
    /\ server # "none" /\ ~WriteLock
    /\ writesStopped => stage = "normal"
    /\ accepted[e] < MaxWrites
    /\ accepted' = [accepted EXCEPT ![e] = @ + 1]
    /\ rows' = [rows EXCEPT ![e] = [key |-> server, value |-> accepted[e] + 1]]
    /\ UNCHANGED <<server, source, target, stage, cli, interruptions>>

-----------------------------------------------------------------------------
(* The command *)

\* The first SELECT fixes the snapshot.
Begin ==
    /\ stage = "stopped" /\ cli = Idle
    /\ \A e \in Extensions : Opens(source, rows[e])
    /\ cli' = [at |-> "reading", snapshot |-> rows]
    /\ UNCHANGED <<rows, accepted, server, source, target, stage, interruptions>>

\* A row under another key: nothing is written, and the operator knows that
\* the rotation before this one was committed, if it was to the same key.
Refused ==
    /\ stage = "stopped" /\ cli = Idle
    /\ \E e \in Extensions : ~Opens(source, rows[e])
    /\ stage' = IF \A e \in Extensions : Opens(target, rows[e]) THEN "rotated" ELSE stage
    /\ UNCHANGED <<rows, accepted, server, source, target, cli, interruptions>>

\* The first UPDATE takes the write lock, unless another transaction has
\* committed since the snapshot (SQLITE_BUSY_SNAPSHOT).
\* Mutant: without a transaction.
SnapshotIgnored == TRUE
SnapshotIsCurrent == cli.snapshot = rows
FirstUpdate ==
    /\ cli.at = "reading"
    /\ IF SnapshotIsCurrent
       THEN /\ \E e \in Extensions :
                 cli' = [at |-> "updating", snapshot |-> cli.snapshot, done |-> {e}]
       ELSE cli' = Idle
    /\ UNCHANGED <<rows, accepted, server, source, target, stage, interruptions>>

NextUpdate ==
    /\ cli.at = "updating"
    /\ \E e \in Extensions \ cli.done : cli' = [cli EXCEPT !.done = @ \cup {e}]
    /\ UNCHANGED <<rows, accepted, server, source, target, stage, interruptions>>

\* What a commit would write, or what SQLite keeps if there is none.
Rotated(e) == [key |-> target, value |-> cli.snapshot[e].value]

\* The audit event is part of the transaction; the answer may be lost after it.
Commit ==
    /\ cli.at = "updating" /\ cli.done = Extensions
    /\ rows' = [e \in Extensions |-> Rotated(e)]
    /\ cli' = Idle
    /\ \/ stage' = "rotated" /\ interruptions' = interruptions
       \/ stage' = "unclear" /\ interruptions < MaxInterruptions /\ interruptions' = interruptions + 1
    /\ UNCHANGED <<accepted, server, source, target>>

\* Mutant: every row is committed by itself.
RolledBackPartly == rows' = [e \in Extensions |->
                               IF cli.at = "updating" /\ e \in cli.done THEN Rotated(e) ELSE rows[e]]
RolledBack == UNCHANGED rows
Interrupted ==
    /\ cli # Idle /\ interruptions < MaxInterruptions
    /\ RolledBack
    /\ cli' = Idle /\ interruptions' = interruptions + 1
    /\ stage' = "unclear"
    /\ UNCHANGED <<accepted, server, source, target>>

-----------------------------------------------------------------------------
(* The operator *)

StopWrites ==
    /\ stage = "normal" /\ stage' = "stopped"
    /\ target' \in Keys \ {source}
    /\ UNCHANGED <<rows, accepted, server, source, cli, interruptions>>

\* An unclear end is followed by another try.
TryAgain ==
    /\ stage = "unclear" /\ stage' = "stopped"
    /\ UNCHANGED <<rows, accepted, server, source, target, cli, interruptions>>

\* Mutant: the server is not restarted.
UpdateSourceOnly ==
    /\ stage = "rotated" /\ stage' = "normal" /\ source' = target
    /\ UNCHANGED <<rows, accepted, server, target, cli, interruptions>>
UpdateSource ==
    /\ stage = "rotated" /\ server = "none"
    /\ stage' = "updated" /\ source' = target
    /\ UNCHANGED <<rows, accepted, server, target, cli, interruptions>>

\* The source gets a key that is not the one of the database.
WrongKey ==
    /\ stage = "normal" /\ server = "none" /\ interruptions < MaxInterruptions
    /\ ~writesStopped
    /\ source' \in Keys \ {source} /\ interruptions' = interruptions + 1
    /\ UNCHANGED <<rows, accepted, server, target, stage, cli>>

-----------------------------------------------------------------------------
RotationInit ==
    /\ \E k \in Keys :
         /\ rows = [e \in Extensions |-> [key |-> k, value |-> 0]]
         /\ source = k /\ target = k
    /\ accepted = [e \in Extensions |-> 0]
    /\ server = "none" /\ stage = "normal" /\ cli = Idle
    /\ interruptions = 0 /\ writesStopped \in BOOLEAN

Command == Begin \/ Refused \/ FirstUpdate \/ NextUpdate \/ Commit \/ Interrupted
Operator == StopWrites \/ TryAgain \/ UpdateSource \/ WrongKey
RotationNext ==
    /\ \/ StartServer \/ StopServer \/ \E e \in Extensions : UpdateSipSecret(e)
       \/ Command \/ Operator
    /\ UNCHANGED writesStopped

RotationSpec == RotationInit /\ [][RotationNext]_rotationVars

-----------------------------------------------------------------------------
\* Types, and what a rotation is about to write is what is in the table.
RotationTypeOK ==
    /\ writesStopped \in BOOLEAN
    /\ rows \in [Extensions -> Row] /\ accepted \in [Extensions -> 0 .. MaxWrites]
    /\ server \in Keys \cup {"none"} /\ source \in Keys /\ target \in Keys
    /\ stage \in Stages /\ interruptions \in 0 .. MaxInterruptions
    /\ \/ cli = Idle
       \/ cli \in [at : {"reading"}, snapshot : [Extensions -> Row]]
       \/ /\ cli \in [at : {"updating"}, snapshot : [Extensions -> Row], done : SUBSET Extensions]
          /\ cli.snapshot = rows
    /\ cli # Idle => stage = "stopped"

\* A rotation beside a server that goes on changing secrets loses none of the
\* changes, whatever it is interrupted by (rotateSecrets).
ValuesSurvive == \A e \in Extensions : rows[e].value = accepted[e]

\* "no mixed key set is committed" (MASTER_KEY_RECOVERY.md): with the writes
\* stopped all rows are under one key, and it is the old or the new one.
OneKey ==
    writesStopped =>
        \/ \A e \in Extensions : rows[e].key = source
        \/ \A e \in Extensions : rows[e].key = target

\* After the procedure the server reads what was accepted before and since.
ServerReads ==
    writesStopped /\ stage = "normal" /\ server # "none" =>
        \A e \in Extensions : Opens(server, rows[e]) /\ rows[e].value = accepted[e]

\* MASTER_KEY_RECOVERY.md: "Backend startup, restore, and credential
\* materialisation fail closed for a missing, malformed, wrong, or tampered
\* key."  A server that comes up reads every secret.
StartupFailsClosed ==
    [][ server = "none" /\ server' # "none" =>
            \A e \in Extensions : Opens(server', rows[e]) ]_rotationVars
================================================================================
