-------------------------------- MODULE Restore --------------------------------
(***************************************************************************)
(* Restoring a backup into empty directories: restoreBackup of             *)
(* src/backend/src/backup/archive.ts, called by src/backend/src/cli/       *)
(* restore.ts and called again after a failure.                            *)
(*                                                                         *)
(* The archive is unpacked and verified in a staging directory; then three *)
(* targets are populated, and each file system call may fail.  What was    *)
(* written is rolled back by the same process; its death is outside the    *)
(* contract (docs/operations/MASTER_KEY_RECOVERY.md, Limits), and so is a  *)
(* failure of the rollback itself.                                         *)
(***************************************************************************)
EXTENDS Naturals, Sequences

CONSTANTS
    Prompts,    \* what the archive has at the top of its sounds
    Versions,   \* and of the generated configuration
    MaxRuns     \* bound on the runs of the command

Targets == {"data", "sounds", "config"}
Content(t) == CASE t = "data" -> {"db"} [] t = "sounds" -> Prompts [] OTHER -> Versions
Files == {"db", "other"} \cup Prompts \cup Versions

VARIABLES
    below,      \* the targets that lie in the data directory, as by default
    before,     \* the modes of the targets before the first run
    others,     \* the targets into which another process has put a file
    mode,       \* of each target: its permissions, or that it is absent
    entries,    \* of each target: the state of every file in it
    archive,    \* the archive of this run, and the key it is restored with
    sessions,   \* whether the staged database still has sessions
    found,      \* inspectRestoreTarget: the modes
    written,    \* writtenEntries: what the rollback removes
    pc, step, runs

vars == <<below, before, others, mode, entries, archive, sessions, found, written, pc, step, runs>>
disk == <<mode, entries>>
noted == <<found, written>>

Archives == {"good", "damaged", "foreign"}
Modes == {"absent", "original", "default", "0700", "0750", "0750_reader"}
EntryStates == {"none", "partial", "copied", "0600", "0640_reader"}
Nothing == [n \in Files |-> "none"]

Exists(t) == mode[t] # "absent"
Names(t) == {n \in Files : entries[t][n] # "none"}
\* readdirSync: a target in the data directory is an entry of it, too.
IsEmpty(t) == Names(t) = {} /\ (t = "data" => \A c \in below : ~Exists(c))
AllEmpty == \A t \in Targets : IsEmpty(t)

Fail == pc' = "failed" /\ UNCHANGED <<disk, sessions, noted, step>>
Go(where) == pc' = where /\ UNCHANGED <<disk, sessions, step>>
Fixed == UNCHANGED <<below, before, others, archive, runs>>

-----------------------------------------------------------------------------
(* Before anything is written *)

Inspect ==
    /\ pc = "inspect" /\ Fixed
    /\ \/ ~AllEmpty /\ Fail
       \/ /\ AllEmpty /\ Go("verify")
          /\ found' = mode /\ written' = [t \in Targets |-> {}]

\* Paths, product, checksums and file list, then the database: opening it,
\* decrypting every secret of its current topology, and deleting its sessions.
Acceptable == archive = "good"
Verify ==
    /\ pc = "verify" /\ Fixed
    /\ \/ Fail
       \/ /\ Acceptable
          /\ sessions' = FALSE /\ pc' = "recheck" /\ UNCHANGED <<disk, noted, step>>

Recheck ==
    /\ pc = "recheck" /\ Fixed
    /\ IF AllEmpty THEN Go("populate") /\ UNCHANGED noted ELSE Fail

-----------------------------------------------------------------------------
(* Populating the targets *)

\* Mutant: permissions are set in staging only.
StepsWithoutOwner ==
    <<<<"make", "data">>, <<"mode", "data">>, <<"copy", "data">>, <<"seal", "data">>,
      <<"make", "sounds">>, <<"mode", "sounds">>, <<"copy", "sounds">>,
      <<"make", "config">>, <<"copy", "config">>, <<"open", "sounds">>>>
Steps ==
    <<<<"make", "data">>, <<"mode", "data">>, <<"copy", "data">>, <<"seal", "data">>,
      <<"make", "sounds">>, <<"mode", "sounds">>, <<"copy", "sounds">>, <<"seal", "sounds">>,
      <<"make", "config">>, <<"copy", "config">>, <<"open", "sounds">>>>

Doing(op, t) == pc = "populate" /\ Steps[step] = <<op, t>> /\ UNCHANGED sessions /\ Fixed
StepDone ==
    /\ step' = IF step = Len(Steps) THEN step ELSE step + 1
    /\ pc' = IF step = Len(Steps) THEN "restored" ELSE pc
SetMode(t, m) == mode' = [mode EXCEPT ![t] = m] /\ UNCHANGED entries
SetEntry(t, n, state) == entries' = [entries EXCEPT ![t][n] = state] /\ UNCHANGED mode

\* mkdirSync with "recursive" leaves a directory that exists as it is.
Make(t) ==
    /\ Doing("make", t) /\ StepDone /\ UNCHANGED noted
    /\ SetMode(t, IF Exists(t) THEN mode[t] ELSE "default")

ChangeMode(t) ==
    /\ Doing("mode", t) /\ StepDone /\ UNCHANGED noted
    /\ SetMode(t, IF t = "data" THEN "0700" ELSE "0750")

\* The name is noted before the copy begins.
Note(t, n) == written' = [written EXCEPT ![t] = @ \cup {n}]

Unfinished(t) == {n \in Names(t) : entries[t][n] = "partial"}
CopyBegins(t) ==
    /\ Doing("copy", t) /\ Unfinished(t) = {}
    /\ \E n \in Content(t) \ Names(t) : SetEntry(t, n, "partial") /\ Note(t, n)
    /\ UNCHANGED <<found, pc, step>>
CopyEnds(t) ==
    /\ Doing("copy", t)
    /\ \E n \in Unfinished(t) : SetEntry(t, n, "copied")
    /\ UNCHANGED <<noted, pc, step>>
CopyDone(t) ==
    /\ Doing("copy", t) /\ Content(t) \subseteq Names(t) /\ Unfinished(t) = {}
    /\ StepDone /\ UNCHANGED <<disk, noted>>

\* Mode and group of what has been copied; others' files in it get them, too.
Seal(t) ==
    /\ Doing("seal", t) /\ StepDone /\ UNCHANGED noted
    /\ entries' = [entries EXCEPT ![t] =
                      [n \in Files |-> IF n \notin Names(t) THEN "none"
                                      ELSE IF t = "sounds" THEN "0640_reader"
                                      ELSE IF n = "db" THEN "0600" ELSE @[n]]]
    /\ UNCHANGED mode

Open(t) ==
    /\ Doing("open", t) /\ StepDone /\ UNCHANGED noted
    /\ SetMode(t, "0750_reader")

PopulateFails ==
    /\ pc = "populate" /\ Fixed
    /\ pc' = "rollback" /\ step' = 1
    /\ UNCHANGED <<disk, sessions, noted>>

\* Mutant: the targets in the order in which they were populated.
InOrder == <<"data", "sounds", "config">>
Reversed == <<"config", "sounds", "data">>

\* A directory with something in it is not removed (ENOTEMPTY).
RollBackTarget ==
    /\ pc = "rollback" /\ Fixed
    /\ LET t == Reversed[step]
           kept == Names(t) \ written[t]
           occupied == kept # {} \/ (t = "data" /\ \E c \in below : Exists(c))
       IN  /\ entries' = [entries EXCEPT ![t] =
                             [n \in Files |-> IF n \in kept THEN @[n] ELSE "none"]]
           /\ mode' = [mode EXCEPT ![t] =
                          CASE ~Exists(t) -> "absent"
                            [] Exists(t) /\ found[t] # "absent" -> found[t]
                            [] OTHER -> IF occupied THEN mode[t] ELSE "absent"]
    /\ step' = IF step = 3 THEN 1 ELSE step + 1
    /\ pc' = IF step = 3 THEN "failed" ELSE pc
    /\ UNCHANGED <<sessions, noted>>

-----------------------------------------------------------------------------
(* The rest of the world *)

\* Another process writes a file of its own.
Intrude(t) ==
    /\ pc \notin {"restored", "failed"} /\ t \notin others
    /\ others' = others \cup {t}
    /\ mode' = [d \in Targets |->
                  IF ~Exists(d) /\ (d = t \/ (d = "data" /\ t \in below)) THEN "default" ELSE mode[d]]
    /\ entries' = [entries EXCEPT ![t]["other"] = "copied"]
    /\ UNCHANGED <<below, before, archive, sessions, noted, pc, step, runs>>

RunAgain ==
    /\ pc = "failed" /\ runs < MaxRuns
    /\ runs' = runs + 1 /\ pc' = "inspect" /\ step' = 1 /\ sessions' = TRUE
    /\ archive' \in Archives
    /\ UNCHANGED <<below, before, others, disk, noted>>

Init ==
    /\ below \in SUBSET {"sounds", "config"}
    /\ \E there \in SUBSET Targets :
         /\ there \cap below # {} => "data" \in there
         /\ before = [t \in Targets |-> IF t \in there THEN "original" ELSE "absent"]
    /\ others = {}
    /\ mode = before /\ entries = [t \in Targets |-> Nothing]
    /\ archive \in Archives
    /\ sessions = TRUE
    /\ found = [t \in Targets |-> "absent"] /\ written = [t \in Targets |-> {}]
    /\ pc = "inspect" /\ step = 1 /\ runs = 1

Populate(t) ==
    Make(t) \/ ChangeMode(t) \/ CopyBegins(t) \/ CopyEnds(t) \/ CopyDone(t) \/ Seal(t) \/ Open(t)

Next ==
    \/ Inspect \/ Verify \/ Recheck
    \/ \E t \in Targets : Populate(t) \/ Intrude(t)
    \/ PopulateFails \/ RollBackTarget \/ RunAgain

Spec == Init /\ [][Next]_vars

-----------------------------------------------------------------------------
\* Types, and what is in a target is another's or noted for the rollback,
\* while there may still be one.
TypeOK ==
    /\ below \subseteq Targets /\ others \subseteq Targets
    /\ before \in [Targets -> {"absent", "original"}]
    /\ archive \in Archives /\ sessions \in BOOLEAN
    /\ step \in 1 .. Len(Steps) /\ runs \in 1 .. MaxRuns
    /\ pc \in {"inspect", "verify", "recheck", "populate", "rollback", "restored", "failed"}
    /\ mode \in [Targets -> Modes] /\ found \in [Targets -> Modes]
    /\ entries \in [Targets -> [Files -> EntryStates]]
    /\ written \in [Targets -> SUBSET Files]
    /\ \A t \in Targets :
         /\ Names(t) \subseteq Content(t) \cup {"other"}
         /\ pc \in {"populate", "rollback"} => Names(t) \subseteq written[t] \cup {"other"}

\* "A corrupt archive, wrong key, invalid reader group, or non-empty
\* destination leaves the target untouched" and a failure while populating
\* removes what was written and nothing else (docs/backup-restore.md): with
\* targets in each other, beside another process and in repeated runs.
AsBefore(t) ==
    /\ Names(t) = IF t \in others THEN {"other"} ELSE {}
    /\ before[t] = "original" => mode[t] = "original"
    /\ Exists(t) => \/ before[t] = "original"
                    \/ t \in others
                    \/ t = "data" /\ \E c \in below : Exists(c)
FailureLeavesTargets == pc = "failed" => \A t \in Targets : AsBefore(t)

\* A restore that reports success is complete, with the modes and the group
\* the documents promise before the first start, and without sessions.
RestoredIsWhole ==
    pc = "restored" =>
        /\ \A t \in Targets : Content(t) \subseteq Names(t)
        /\ entries["data"]["db"] = "0600" /\ mode["data"] = "0700"
        /\ \A n \in Prompts : entries["sounds"][n] = "0640_reader"
        /\ \A n \in Versions : entries["config"][n] = "copied"
        /\ mode["sounds"] = "0750_reader" /\ ~sessions
=============================================================================
