--------------------------- MODULE Operations_proofs ---------------------------
(***************************************************************************)
(* What an operator does with the data, for any extensions, keys, archives *)
(* and numbers of interruptions.  A rotation loses no change of a secret; a       *)
(* restore that fails leaves nothing behind and one that succeeds is       *)
(* whole; the first start imports topology.json and never the example      *)
(* instead of it.                                                          *)
(***************************************************************************)
EXTENDS MCOperations, Sequences, TLAPS

USE RotationAssumption, RestoreAssumption

-----------------------------------------------------------------------------
(* Rotating the master key: SecretRotation *)

\* Where the operator's procedure is says under which key the rows are, and a
\* server runs with the key of the source.
UnderSource == \A e \in Extensions : rows[e].key = source
UnderTarget == \A e \in Extensions : rows[e].key = target
Procedure ==
    writesStopped =>
        /\ server \in {"none", source}
        /\ stage = "normal" => UnderSource
        /\ stage \in {"stopped", "unclear"} => UnderSource \/ UnderTarget
        /\ stage \in {"rotated", "updated"} => UnderTarget
        /\ stage = "updated" => source = target
        /\ cli # Idle => cli.snapshot = rows

RotationInv == RotationTypeOK /\ ValuesSurvive /\ Procedure

LEMMA RotationInitHolds == RotationInit => RotationInv
<1> SUFFICES ASSUME RotationInit PROVE RotationInv
    OBVIOUS
<1>1. PICK k \in Keys : /\ rows = [e \in Extensions |-> [key |-> k, value |-> 0]]
                        /\ source = k /\ target = k
    BY DEF RotationInit
<1>2. RotationTypeOK
  <2>1. rows \in [Extensions -> Row] /\ accepted \in [Extensions -> 0 .. MaxWrites]
      BY <1>1 DEF RotationInit, Row
  <2> QED BY <1>1, <2>1 DEF RotationInit, RotationTypeOK, Stages
<1>3. ValuesSurvive /\ Procedure
    BY <1>1 DEF RotationInit, ValuesSurvive, Procedure, UnderSource, Idle
<1> QED BY <1>2, <1>3 DEF RotationInv

LEMMA RotationStep == RotationInv /\ [RotationNext]_rotationVars => RotationInv'
<1> SUFFICES ASSUME RotationTypeOK, ValuesSurvive, Procedure, [RotationNext]_rotationVars PROVE RotationInv'
    BY DEF RotationInv
<1>0. writesStopped' = writesStopped
    BY DEF RotationNext, rotationVars
<1> USE <1>0 DEF Idle
<1>1. CASE UNCHANGED rotationVars
    BY <1>1 DEF rotationVars, RotationInv, RotationTypeOK, ValuesSurvive, Procedure, UnderSource, UnderTarget
<1>2. CASE StartServer
  <2>1. RotationTypeOK' BY <1>2 DEF StartServer, RotationTypeOK, Stages
  <2>2. ValuesSurvive' BY <1>2 DEF StartServer, ValuesSurvive
  <2>3. Procedure' BY <1>2 DEF StartServer, Procedure, UnderSource, UnderTarget
  <2> QED BY <2>1, <2>2, <2>3 DEF RotationInv
<1>3. CASE StopServer
    BY <1>3 DEF StopServer, RotationInv, RotationTypeOK, ValuesSurvive, Procedure, UnderSource, UnderTarget
<1>4. ASSUME NEW e \in Extensions, UpdateSipSecret(e) PROVE RotationInv'
  <2>1. accepted[e] + 1 \in 0 .. MaxWrites
    BY <1>4 DEF UpdateSipSecret, RotationTypeOK
  <2>2. server \in Keys
    BY <1>4 DEF UpdateSipSecret, RotationTypeOK
  <2>3. rows' \in [Extensions -> Row] /\ accepted' \in [Extensions -> 0 .. MaxWrites]
    BY <1>4, <2>1, <2>2 DEF UpdateSipSecret, RotationTypeOK, Row
  <2>4. cli' = cli /\ cli.at # "updating"
    BY <1>4 DEF UpdateSipSecret, WriteLock
  <2>5. RotationTypeOK'
    BY <1>4, <2>3, <2>4 DEF UpdateSipSecret, RotationTypeOK
  <2>6. ValuesSurvive'
    BY <1>4 DEF UpdateSipSecret, ValuesSurvive, RotationTypeOK
  <2>7. Procedure'
    <3> SUFFICES ASSUME writesStopped PROVE Procedure'
        BY DEF Procedure
    <3>1. stage = "normal" /\ server = source /\ UnderSource
        BY <1>4 DEF UpdateSipSecret, Procedure
    <3>2. UnderSource'
        BY <1>4, <3>1 DEF UpdateSipSecret, UnderSource, RotationTypeOK
    <3>3. cli = Idle
        BY <3>1 DEF RotationTypeOK
    <3> QED BY <1>4, <3>1, <3>2, <3>3 DEF UpdateSipSecret, Procedure
  <2> QED BY <2>5, <2>6, <2>7 DEF RotationInv
<1>5. CASE Begin
  <2>1. RotationTypeOK' BY <1>5 DEF Begin, RotationTypeOK
  <2> QED BY <1>5, <2>1 DEF Begin, RotationInv, ValuesSurvive, Procedure, UnderSource, UnderTarget
<1>6. CASE Refused
  <2>1. RotationTypeOK' BY <1>6 DEF Refused, RotationTypeOK, Stages
  <2>2. Procedure'
    BY <1>6 DEF Refused, Opens, Procedure, UnderSource, UnderTarget
  <2> QED BY <1>6, <2>1, <2>2 DEF Refused, RotationInv, ValuesSurvive
<1>7. CASE FirstUpdate
  <2>1. cli \in [at : {"reading"}, snapshot : [Extensions -> Row]]
    BY <1>7 DEF FirstUpdate, RotationTypeOK
  <2>2. RotationTypeOK' BY <1>7, <2>1 DEF FirstUpdate, SnapshotIsCurrent, RotationTypeOK
  <2>3. Procedure'
    BY <1>7 DEF FirstUpdate, SnapshotIsCurrent, Procedure, UnderSource, UnderTarget
  <2> QED BY <1>7, <2>2, <2>3 DEF FirstUpdate, RotationInv, ValuesSurvive
<1>8. CASE NextUpdate
  <2>1. /\ cli \in [at : {"updating"}, snapshot : [Extensions -> Row], done : SUBSET Extensions]
        /\ cli.snapshot = rows
    BY <1>8 DEF NextUpdate, RotationTypeOK
  <2>2. RotationTypeOK' /\ cli'.snapshot = cli.snapshot BY <1>8, <2>1 DEF NextUpdate, RotationTypeOK
  <2>3. Procedure'
    BY <1>8, <2>1, <2>2 DEF NextUpdate, Procedure, UnderSource, UnderTarget
  <2> QED BY <1>8, <2>2, <2>3 DEF NextUpdate, RotationInv, ValuesSurvive
<1>9. CASE Commit
  <2>1. cli.snapshot = rows /\ stage = "stopped"
    BY <1>9 DEF Commit, RotationTypeOK
  <2>2. \A e \in Extensions : rows'[e] = [key |-> target, value |-> rows[e].value]
    BY <1>9, <2>1 DEF Commit, Rotated
  <2>3. RotationTypeOK'
    BY <1>9, <2>1 DEF Commit, Rotated, RotationTypeOK, Row, Stages
  <2>4. ValuesSurvive'
    BY <1>9, <2>2 DEF Commit, ValuesSurvive
  <2>5. UnderTarget'
    BY <1>9, <2>2 DEF Commit, UnderTarget
  <2>6. Procedure'
    BY <1>9, <2>5 DEF Commit, Procedure
  <2> QED BY <2>3, <2>4, <2>6 DEF RotationInv
<1>10. CASE Interrupted
  <2>1. RotationTypeOK' BY <1>10 DEF Interrupted, RolledBack, RotationTypeOK, Stages
  <2>2. stage = "stopped" BY <1>10 DEF Interrupted, RotationTypeOK
  <2>3. Procedure'
    BY <1>10, <2>2 DEF Interrupted, RolledBack, Procedure, UnderSource, UnderTarget
  <2> QED BY <1>10, <2>1, <2>3 DEF Interrupted, RolledBack, RotationInv, ValuesSurvive
<1>11. CASE StopWrites
  <2>1. RotationTypeOK' BY <1>11 DEF StopWrites, RotationTypeOK, Stages
  <2>2. Procedure'
    BY <1>11 DEF StopWrites, Procedure, UnderSource
  <2> QED BY <1>11, <2>1, <2>2 DEF StopWrites, RotationInv, ValuesSurvive
<1>12. CASE TryAgain
  <2>1. RotationTypeOK' BY <1>12 DEF TryAgain, RotationTypeOK, Stages
  <2>2. Procedure' BY <1>12 DEF TryAgain, Procedure, UnderSource, UnderTarget
  <2> QED BY <1>12, <2>1, <2>2 DEF TryAgain, RotationInv, ValuesSurvive
<1>13. CASE UpdateSource
  <2>1. RotationTypeOK' BY <1>13 DEF UpdateSource, RotationTypeOK, Stages
  <2>2. Procedure' BY <1>13 DEF UpdateSource, Procedure, UnderSource, UnderTarget, RotationTypeOK
  <2> QED BY <1>13, <2>1, <2>2 DEF UpdateSource, RotationInv, ValuesSurvive
<1>14. CASE WrongKey
  <2>1. RotationTypeOK' BY <1>14 DEF WrongKey, RotationTypeOK
  <2>2. Procedure' BY <1>14 DEF WrongKey, Procedure
  <2> QED BY <1>14, <2>1, <2>2 DEF WrongKey, RotationInv, ValuesSurvive
<1> QED
    BY <1>1, <1>2, <1>3, <1>4, <1>5, <1>6, <1>7, <1>8, <1>9, <1>10, <1>11,
       <1>12, <1>13, <1>14 DEF RotationNext, Command, Operator

LEMMA RotationInductive == RotationSpec => []RotationInv
<1> QED BY RotationInitHolds, RotationStep, PTL DEF RotationSpec

\* Type correctness; what a rotation is about to write is what is in the table.
THEOREM RotationTypeCorrect == RotationSpec => []RotationTypeOK
<1>1. RotationInv => RotationTypeOK BY DEF RotationInv
<1> QED BY <1>1, RotationInductive, PTL

\* A rotation never undoes a change of a secret the server has confirmed, and
\* never overwrites one with an older value (rotateSecrets).
THEOREM RotationLosesNoSecret == RotationSpec => []ValuesSurvive
<1>1. RotationInv => ValuesSurvive BY DEF RotationInv
<1> QED BY <1>1, RotationInductive, PTL

\* With the writes stopped no mixed key set is ever committed.
THEOREM NoMixedKeySet == RotationSpec => []OneKey
<1>1. RotationInv => OneKey
    BY DEF RotationInv, RotationTypeOK, Stages, Procedure, UnderSource, UnderTarget, OneKey
<1> QED BY <1>1, RotationInductive, PTL

\* After the documented procedure the server reads every secret.
THEOREM ServerAlwaysReads == RotationSpec => []ServerReads
<1>1. RotationInv => ServerReads
    BY DEF RotationInv, ValuesSurvive, Procedure, UnderSource, Opens, ServerReads
<1> QED BY <1>1, RotationInductive, PTL

-----------------------------------------------------------------------------
(* Restoring a backup: Restore *)

\* A target in the data directory is there only with it.
Layout ==
    /\ below \subseteq {"sounds", "config"}
    /\ \A c \in below : before[c] = "original" => before["data"] = "original"

\* Only another process has files of its own in a target, and what the
\* rollback removes is ours.
Ours ==
    \A t \in Recovery!Targets :
        /\ "other" \in Recovery!Names(t) <=> t \in others
        /\ before[t] = "original" => Recovery!Exists(t)
        /\ written[t] \subseteq Recovery!Content(t)

\* While nothing has been written every target is as it was, but for the files
\* of others; the rollback, which knows how it was, restores that target by target.
Kept ==
    /\ pc \in {"inspect", "verify", "recheck", "failed"} =>
          \A t \in Recovery!Targets : Recovery!AsBefore(t)
    /\ pc \in {"verify", "recheck", "populate", "rollback"} => found = before
    /\ pc = "rollback" => step \in 1 .. 3
    /\ pc = "rollback" /\ step > 1 => Recovery!AsBefore("config")
    /\ pc = "rollback" /\ step > 2 => Recovery!AsBefore("sounds")

\* What is behind the step the restore is at has its effect.
Past(s) == pc = "restored" \/ (pc = "populate" /\ step > s)
Populated ==
    /\ Past(2) => mode["data"] = "0700"
    /\ Past(3) => "db" \in Recovery!Names("data")
    /\ Past(4) => entries["data"]["db"] = "0600"
    /\ Past(7) => Prompts \subseteq Recovery!Names("sounds")
    /\ Past(8) => \A n \in Prompts : entries["sounds"][n] = "0640_reader"
    /\ Past(10) => \A n \in Versions : entries["config"][n] = "copied"
    /\ \A n \in Recovery!Files : entries["config"][n] \in {"none", "partial", "copied"}
    /\ pc = "restored" => mode["sounds"] = "0750_reader"
    /\ pc \in {"recheck", "populate", "rollback", "restored"} => sessions = FALSE
    /\ pc \in {"inspect", "verify", "recheck"} => step = 1

RestoreInv == Recovery!TypeOK /\ Layout /\ Ours /\ Kept /\ Populated

LEMMA StepsAre ==
    /\ Len(Recovery!Steps) = 11
    /\ Recovery!Steps[1] = <<"make", "data">> /\ Recovery!Steps[2] = <<"mode", "data">>
    /\ Recovery!Steps[3] = <<"copy", "data">> /\ Recovery!Steps[4] = <<"seal", "data">>
    /\ Recovery!Steps[5] = <<"make", "sounds">> /\ Recovery!Steps[6] = <<"mode", "sounds">>
    /\ Recovery!Steps[7] = <<"copy", "sounds">> /\ Recovery!Steps[8] = <<"seal", "sounds">>
    /\ Recovery!Steps[9] = <<"make", "config">> /\ Recovery!Steps[10] = <<"copy", "config">>
    /\ Recovery!Steps[11] = <<"open", "sounds">>
BY DEF Recovery!Steps

LEMMA RestoreInit == Recovery!Init => RestoreInv
<1> SUFFICES ASSUME Recovery!Init PROVE RestoreInv
    OBVIOUS
<1>1. PICK there \in SUBSET Recovery!Targets :
        /\ there \cap below # {} => "data" \in there
        /\ before = [t \in Recovery!Targets |-> IF t \in there THEN "original" ELSE "absent"]
    BY DEF Recovery!Init
<1>2. \A t \in Recovery!Targets : Recovery!Names(t) = {} /\ mode[t] = before[t]
    BY DEF Recovery!Init, Recovery!Names, Recovery!Nothing
<1>3. Recovery!TypeOK
  <2>1. before \in [Recovery!Targets -> {"absent", "original"}]
    BY <1>1
  <2>2. step \in 1 .. Len(Recovery!Steps) /\ runs \in 1 .. MaxRuns
    BY StepsAre DEF Recovery!Init
  <2>3. mode \in [Recovery!Targets -> Recovery!Modes] /\ found \in [Recovery!Targets -> Recovery!Modes]
    BY <2>1 DEF Recovery!Init, Recovery!Modes
  <2>4. /\ entries \in [Recovery!Targets -> [Recovery!Files -> Recovery!EntryStates]]
        /\ written \in [Recovery!Targets -> SUBSET Recovery!Files]
    BY DEF Recovery!Init, Recovery!Nothing, Recovery!EntryStates
  <2> QED BY <1>2, <2>1, <2>2, <2>3, <2>4 DEF Recovery!Init, Recovery!TypeOK, Recovery!Targets
<1>5. Layout
    BY <1>1 DEF Recovery!Init, Layout, Recovery!Targets
<1>6. Ours /\ Kept
    BY <1>1, <1>2 DEF Recovery!Init, Ours, Kept, Recovery!AsBefore, Recovery!Exists,
       Recovery!Targets
<1>7. Populated
    BY <1>2 DEF Recovery!Init, Populated, Past, Recovery!Targets, Recovery!Nothing
<1> QED BY <1>3, <1>5, <1>6, <1>7 DEF RestoreInv

\* The steps up to the one that is done are behind the restore.
LEMMA Passing ==
    ASSUME pc = "populate", step \in 1 .. 11, Recovery!StepDone
    PROVE  /\ \A s \in 1 .. 10 : Past(s)' <=> step >= s
           /\ step < 11 => pc' = "populate" /\ step' = step + 1
           /\ step = 11 => pc' = "restored" /\ step' = 11
BY StepsAre DEF Past, Recovery!StepDone

\* Which step it is.
LEMMA StepIs ==
    ASSUME step \in 1 .. 11, NEW op, NEW t, Recovery!Steps[step] = <<op, t>>
    PROVE  \/ (step = 1 /\ op = "make" /\ t = "data")
           \/ (step = 2 /\ op = "mode" /\ t = "data")
           \/ (step = 3 /\ op = "copy" /\ t = "data")
           \/ (step = 4 /\ op = "seal" /\ t = "data")
           \/ (step = 5 /\ op = "make" /\ t = "sounds")
           \/ (step = 6 /\ op = "mode" /\ t = "sounds")
           \/ (step = 7 /\ op = "copy" /\ t = "sounds")
           \/ (step = 8 /\ op = "seal" /\ t = "sounds")
           \/ (step = 9 /\ op = "make" /\ t = "config")
           \/ (step = 10 /\ op = "copy" /\ t = "config")
           \/ (step = 11 /\ op = "open" /\ t = "sounds")
<1>1. CASE step \in 1 .. 4
    BY <1>1, StepsAre
<1>2. CASE step \in 5 .. 8
    BY <1>2, StepsAre
<1>3. CASE step \in 9 .. 11
    BY <1>3, StepsAre
<1> QED BY <1>1, <1>2, <1>3

\* While the disk stays as it is, so does what it says of the targets.
LEMMA Untouched ==
    ASSUME UNCHANGED <<mode, entries, below, before, others>>
    PROVE  /\ \A t \in Recovery!Targets : /\ Recovery!Names(t)' = Recovery!Names(t)
                                          /\ Recovery!Exists(t)' <=> Recovery!Exists(t)
           /\ \A t \in Recovery!Targets : Recovery!AsBefore(t)' <=> Recovery!AsBefore(t)
           /\ Ours /\ (\A t \in Recovery!Targets : written'[t] \subseteq Recovery!Content(t)) => Ours'
<1>1. \A t \in Recovery!Targets : /\ Recovery!Names(t)' = Recovery!Names(t)
                                  /\ Recovery!Exists(t)' <=> Recovery!Exists(t)
    BY DEF Recovery!Names, Recovery!Exists
<1>2. \A t \in Recovery!Targets : Recovery!AsBefore(t)' <=> Recovery!AsBefore(t)
    BY DEF Recovery!Names, Recovery!Exists, Recovery!AsBefore
<1>3. Ours /\ (\A t \in Recovery!Targets : written'[t] \subseteq Recovery!Content(t)) => Ours'
    BY <1>1 DEF Ours
<1> QED BY <1>1, <1>2, <1>3

LEMMA OursStay ==
    ASSUME Ours, UNCHANGED <<mode, entries, below, before, others, written>>
    PROVE  Ours'
BY Untouched DEF Ours

LEMMA RestoreStep == RestoreInv /\ [Recovery!Next]_Recovery!vars => RestoreInv'
<1> SUFFICES ASSUME Recovery!TypeOK, Layout, Ours, Kept, Populated, [Recovery!Next]_Recovery!vars
             PROVE  Recovery!TypeOK' /\ Layout' /\ Ours' /\ Kept' /\ Populated'
    BY DEF RestoreInv
<1>0. step \in 1 .. 11
    BY StepsAre DEF Recovery!TypeOK
<1>1. CASE UNCHANGED Recovery!vars
  <2> USE <1>1 DEF Recovery!vars
  <2>1. Recovery!TypeOK' BY Untouched DEF Recovery!TypeOK
  <2>2. Layout' BY DEF Layout
  <2>3. Ours' /\ Kept' BY Untouched, OursStay DEF Kept, Recovery!Targets
  <2>4. Populated' BY DEF Populated, Past, Recovery!Names
  <2> QED BY <2>1, <2>2, <2>3, <2>4
<1>2. ASSUME UNCHANGED Recovery!disk, Recovery!Fixed, Recovery!Fail,
             pc \in {"inspect", "verify", "recheck"}
      PROVE  Recovery!TypeOK' /\ Layout' /\ Ours' /\ Kept' /\ Populated'
  <2>1. /\ UNCHANGED <<below, before, others, archive, runs, mode, entries, sessions, found,
                       written, step>>
        /\ pc' = "failed"
    BY <1>2 DEF Recovery!Fixed, Recovery!Fail, Recovery!disk, Recovery!noted
  <2>2. Recovery!TypeOK' BY <2>1 DEF Recovery!TypeOK, Recovery!Names
  <2>3. Ours' /\ Kept' BY <1>2, <2>1, Untouched, OursStay DEF Kept
  <2>4. Layout' /\ Populated' BY <2>1 DEF Layout, Populated, Past, Recovery!Names
  <2> QED BY <2>2, <2>3, <2>4
<1>3. CASE Recovery!Inspect
  <2>1. CASE Recovery!AllEmpty /\ Recovery!Go("verify")
            /\ found' = mode /\ written' = [t \in Recovery!Targets |-> {}]
    <3>0. /\ UNCHANGED <<below, before, others, archive, runs, mode, entries, sessions, step>>
          /\ pc = "inspect" /\ pc' = "verify"
      BY <1>3, <2>1 DEF Recovery!Inspect, Recovery!Fixed, Recovery!Go, Recovery!disk
    <3>1. Recovery!TypeOK'
      BY <3>0, <2>1 DEF Recovery!TypeOK, Recovery!Names
    <3>2. others = {}
      BY <2>1 DEF Recovery!AllEmpty, Recovery!IsEmpty, Ours, Recovery!TypeOK
    <3>3. \A t \in Recovery!Targets : mode[t] = before[t]
      BY <2>1, <3>0, <3>2 DEF Recovery!AllEmpty, Recovery!IsEmpty, Kept, Recovery!AsBefore,
         Recovery!TypeOK, Recovery!Exists
    <3>4. Kept'
      BY <2>1, <3>0, <3>3, Untouched DEF Kept, Recovery!TypeOK
    <3>6. Ours'
      BY <2>1, <3>0, Untouched
    <3>5. Layout' /\ Populated'
      BY <3>0 DEF Layout, Populated, Past, Recovery!Names
    <3> QED BY <3>1, <3>4, <3>5, <3>6
  <2> QED BY <1>2, <1>3, <2>1 DEF Recovery!Inspect, Recovery!Fail, Recovery!disk
<1>4. CASE Recovery!Verify
  <2>1. CASE /\ pc = "verify" /\ Recovery!Fixed
             /\ sessions' = FALSE /\ pc' = "recheck" /\ UNCHANGED <<Recovery!disk, Recovery!noted, step>>
    <3>0. UNCHANGED <<below, before, others, archive, runs, mode, entries, found, written, step>>
      BY <2>1 DEF Recovery!Fixed, Recovery!disk, Recovery!noted
    <3>1. Recovery!TypeOK'
      BY <2>1, <3>0 DEF Recovery!TypeOK, Recovery!Names
    <3>2. Ours' /\ Kept'
      BY <2>1, <3>0, Untouched, OursStay DEF Kept
    <3>3. Layout' /\ Populated'
      BY <2>1, <3>0 DEF Layout, Populated, Past, Recovery!Names
    <3> QED BY <3>1, <3>2, <3>3
  <2> QED BY <1>2, <1>4, <2>1 DEF Recovery!Verify, Recovery!Fail, Recovery!disk
<1>5. CASE Recovery!Recheck
  <2>1. CASE /\ Recovery!AllEmpty /\ Recovery!Go("populate") /\ UNCHANGED Recovery!noted
             /\ Recovery!Fixed /\ pc = "recheck"
    <3>0. /\ UNCHANGED <<below, before, others, archive, runs, mode, entries, sessions, found,
                         written, step>>
          /\ pc' = "populate"
      BY <2>1 DEF Recovery!Fixed, Recovery!disk, Recovery!noted, Recovery!Go
    <3>1. Recovery!TypeOK'
      BY <2>1, <3>0, Untouched DEF Recovery!TypeOK, Recovery!AllEmpty, Recovery!IsEmpty
    <3>2. Ours' /\ Kept'
      BY <2>1, <3>0, Untouched, OursStay DEF Kept
    <3>3. step' = 1
      BY <2>1, <3>0 DEF Populated
    <3>4. \A s \in 1 .. 10 : ~Past(s)'
      BY <3>0, <3>3 DEF Past
    <3>5. Layout'
      BY <3>0 DEF Layout
    <3>6. Populated'
      BY <2>1, <3>0, <3>4 DEF Populated
    <3> QED BY <3>1, <3>2, <3>5, <3>6
  <2> QED BY <1>2, <1>5, <2>1 DEF Recovery!Recheck, Recovery!Fail, Recovery!disk
<1>6. CASE Recovery!RunAgain
  <2>0. UNCHANGED <<below, before, others, mode, entries, found, written>> /\ pc = "failed"
        /\ runs < MaxRuns /\ runs' = runs + 1 /\ pc' = "inspect" /\ step' = 1 /\ sessions' = TRUE
        /\ archive' \in Recovery!Archives
    BY <1>6 DEF Recovery!RunAgain, Recovery!disk, Recovery!noted
  <2>1. Recovery!TypeOK'
    BY <2>0, Untouched, StepsAre DEF Recovery!TypeOK
  <2>2. Ours' /\ Kept'
    BY <2>0, Untouched, OursStay DEF Kept
  <2>3. Layout' /\ Populated'
    BY <2>0 DEF Layout, Populated, Past
  <2> QED BY <2>1, <2>2, <2>3
<1>7. CASE Recovery!PopulateFails
  <2>0. /\ UNCHANGED <<below, before, others, archive, runs, mode, entries, sessions, found, written>>
        /\ pc = "populate" /\ pc' = "rollback" /\ step' = 1
    BY <1>7 DEF Recovery!PopulateFails, Recovery!Fixed, Recovery!disk, Recovery!noted
  <2>1. Recovery!TypeOK'
    <3>1. step' \in 1 .. Len(Recovery!Steps)
      BY <2>0, StepsAre
    <3>2. \A t \in Recovery!Targets : /\ Recovery!Names(t)' \subseteq Recovery!Content(t) \cup {"other"}
                                      /\ Recovery!Names(t)' \subseteq written'[t] \cup {"other"}
      BY <2>0, Untouched DEF Recovery!TypeOK
    <3> QED BY <2>0, <3>1, <3>2 DEF Recovery!TypeOK
  <2>2. Ours'
    BY <2>0, OursStay
  <2>3. Kept'
    BY <2>0 DEF Kept
  <2>4. Layout' /\ Populated'
    BY <2>0 DEF Layout, Populated, Past
  <2> QED BY <2>1, <2>2, <2>3, <2>4
<1>8. ASSUME NEW t \in Recovery!Targets, Recovery!Make(t) \/ Recovery!ChangeMode(t) \/ Recovery!Open(t)
      PROVE  Recovery!TypeOK' /\ Layout' /\ Ours' /\ Kept' /\ Populated'
  <2>1. /\ pc = "populate" /\ Recovery!StepDone
        /\ UNCHANGED <<below, before, others, archive, runs, sessions, found, written>>
    BY <1>8 DEF Recovery!Make, Recovery!ChangeMode, Recovery!Open, Recovery!Doing,
       Recovery!Fixed, Recovery!noted
  <2>2. PICK m \in Recovery!Modes \ {"absent"} :
          /\ Recovery!SetMode(t, m)
          /\ \/ /\ Recovery!Steps[step] = <<"make", t>>
                /\ Recovery!Exists(t) => m = mode[t]
             \/ /\ Recovery!Steps[step] = <<"mode", t>>
                /\ m = IF t = "data" THEN "0700" ELSE "0750"
             \/ /\ Recovery!Steps[step] = <<"open", t>>
                /\ m = "0750_reader"
    BY <1>8 DEF Recovery!Make, Recovery!ChangeMode, Recovery!Open, Recovery!Doing,
       Recovery!Modes, Recovery!TypeOK, Recovery!Exists
  <2>3. /\ mode' = [mode EXCEPT ![t] = m] /\ entries' = entries
        /\ \A d \in Recovery!Targets : /\ Recovery!Names(d)' = Recovery!Names(d)
                                       /\ Recovery!Exists(d) => Recovery!Exists(d)'
    BY <2>2 DEF Recovery!SetMode, Recovery!Names, Recovery!Exists, Recovery!TypeOK
  <2>4. pc' \in {"populate", "restored"} /\ step' \in 1 .. 11
    BY <1>0, <2>1, Passing
  <2>5. Recovery!TypeOK'
    BY <2>1, <2>2, <2>3, <2>4, StepsAre DEF Recovery!TypeOK
  <2>6. Ours' /\ Kept'
    BY <2>1, <2>3, <2>4 DEF Ours, Kept
  <2>7. /\ step = 2 => m = "0700" /\ t = "data"
        /\ step = 11 => m = "0750_reader" /\ t = "sounds"
        /\ t = "data" => step \in {1, 2}
        /\ step \notin {3, 4, 7, 8, 10}
    <3>1. Recovery!Steps[step] = <<"make", t>> =>
            (step = 1 /\ t = "data") \/ (step = 5 /\ t = "sounds") \/ (step = 9 /\ t = "config")
      BY <1>0, StepIs
    <3>2. Recovery!Steps[step] = <<"mode", t>> => (step = 2 /\ t = "data") \/ (step = 6 /\ t = "sounds")
      BY <1>0, StepIs
    <3>3. Recovery!Steps[step] = <<"open", t>> => step = 11 /\ t = "sounds"
      BY <1>0, StepIs
    <3> QED BY <2>2, <3>1, <3>2, <3>3
  <2>8. ASSUME NEW s \in {3, 4, 7, 8, 10}, Past(s)' PROVE Past(s)
    <3>1. step >= s
      BY <1>0, <2>1, <2>8, Passing
    <3> QED BY <1>0, <2>1, <2>7, <3>1 DEF Past
  <2>9. Past(2)' => mode'["data"] = "0700"
    <3>1. Past(2)' => step >= 2
      BY <1>0, <2>1, Passing
    <3>2. step > 2 => mode["data"] = "0700"
      BY <2>1 DEF Populated, Past
    <3>3. CASE step = 2
      BY <2>3, <2>7, <3>3 DEF Recovery!TypeOK, Recovery!Targets
    <3>4. CASE step > 2
      BY <2>3, <2>7, <3>2, <3>4 DEF Recovery!TypeOK, Recovery!Targets
    <3> QED BY <1>0, <3>1, <3>3, <3>4
  <2>10. pc' = "restored" => mode'["sounds"] = "0750_reader"
    <3>1. pc' = "restored" => step = 11
      BY <1>0, <2>1, Passing
    <3> QED BY <2>3, <2>7, <3>1 DEF Recovery!TypeOK, Recovery!Targets
  <2>11. Populated'
    BY <2>1, <2>3, <2>4, <2>8, <2>9, <2>10 DEF Populated, Recovery!Targets
  <2> QED BY <2>1, <2>5, <2>6, <2>11 DEF Layout
<1>9. ASSUME NEW t \in Recovery!Targets, Recovery!CopyBegins(t)
      PROVE  Recovery!TypeOK' /\ Layout' /\ Ours' /\ Kept' /\ Populated'
  <2>1. /\ pc = "populate" /\ Recovery!Steps[step] = <<"copy", t>>
        /\ UNCHANGED <<below, before, others, archive, runs, mode, sessions, found, pc, step>>
    BY <1>9 DEF Recovery!CopyBegins, Recovery!Doing, Recovery!Fixed, Recovery!SetEntry
  <2>2. PICK n \in Recovery!Content(t) \ Recovery!Names(t) :
          /\ entries' = [entries EXCEPT ![t][n] = "partial"]
          /\ written' = [written EXCEPT ![t] = @ \cup {n}]
    BY <1>9 DEF Recovery!CopyBegins, Recovery!SetEntry, Recovery!Note
  <2>3. n \in Recovery!Files /\ n # "other"
    BY <2>2 DEF Recovery!Content, Recovery!Targets, Recovery!Files
  <2>4. /\ \A d \in Recovery!Targets :
             Recovery!Names(d)' = Recovery!Names(d) \cup (IF d = t THEN {n} ELSE {})
        /\ \A d \in Recovery!Targets : Recovery!Exists(d)' <=> Recovery!Exists(d)
    BY <2>1, <2>2, <2>3 DEF Recovery!Names, Recovery!TypeOK, Recovery!Exists
  <2>5. Recovery!TypeOK'
    <3>1. /\ entries' \in [Recovery!Targets -> [Recovery!Files -> Recovery!EntryStates]]
          /\ written' \in [Recovery!Targets -> SUBSET Recovery!Files]
      BY <2>2, <2>3 DEF Recovery!TypeOK, Recovery!EntryStates
    <3>2. \A d \in Recovery!Targets : /\ Recovery!Names(d)' \subseteq Recovery!Content(d) \cup {"other"}
                                      /\ Recovery!Names(d)' \subseteq written'[d] \cup {"other"}
      BY <2>1, <2>2, <2>4 DEF Recovery!TypeOK
    <3> QED BY <2>1, <3>1, <3>2 DEF Recovery!TypeOK
  <2>7. /\ t = "data" => step = 3
        /\ t = "sounds" => step = 7
        /\ t = "config" => step = 10
    BY <1>0, <2>1, StepIs
  <2>6. Ours' /\ Kept'
    <3>1. \A d \in Recovery!Targets : written'[d] \subseteq Recovery!Content(d)
      BY <2>2 DEF Ours, Recovery!TypeOK
    <3>3. Ours'
      BY <2>1, <2>3, <2>4, <3>1 DEF Ours
    <3> QED BY <2>1, <3>3 DEF Kept
  <2>8. \A d \in Recovery!Targets, f \in Recovery!Files :
          entries'[d][f] = IF d = t /\ f = n THEN "partial" ELSE entries[d][f]
    BY <2>2, <2>3 DEF Recovery!TypeOK
  <2>9. \A s \in 1 .. 10 : Past(s)' <=> Past(s)
    BY <2>1 DEF Past
  <2>10. /\ t = "data" => ~Past(3) /\ ~Past(4)
         /\ t = "sounds" => ~Past(7) /\ ~Past(8)
         /\ t = "config" => ~Past(10)
    BY <2>1, <2>7 DEF Past
  <2>11. Populated'
    <3>1. Prompts \cup Versions \cup {"db"} \subseteq Recovery!Files
      BY DEF Recovery!Files
    <3> QED BY <2>1, <2>4, <2>8, <2>9, <2>10, <3>1 DEF Populated, Recovery!Targets
  <2> QED BY <2>1, <2>5, <2>6, <2>11 DEF Layout
<1>10. ASSUME NEW t \in Recovery!Targets, Recovery!CopyEnds(t)
       PROVE  Recovery!TypeOK' /\ Layout' /\ Ours' /\ Kept' /\ Populated'
  <2>1. /\ pc = "populate" /\ Recovery!Steps[step] = <<"copy", t>>
        /\ UNCHANGED <<below, before, others, archive, runs, mode, sessions, found, written, pc, step>>
    BY <1>10 DEF Recovery!CopyEnds, Recovery!Doing, Recovery!Fixed, Recovery!SetEntry,
       Recovery!noted
  <2>2. PICK n \in Recovery!Names(t) : entries' = [entries EXCEPT ![t][n] = "copied"]
    BY <1>10 DEF Recovery!CopyEnds, Recovery!Unfinished, Recovery!SetEntry
  <2>3. /\ \A d \in Recovery!Targets : Recovery!Names(d)' = Recovery!Names(d)
        /\ \A d \in Recovery!Targets : Recovery!Exists(d)' <=> Recovery!Exists(d)
    BY <2>1, <2>2 DEF Recovery!Names, Recovery!TypeOK, Recovery!Exists
  <2>4. Recovery!TypeOK'
    <3>1. entries' \in [Recovery!Targets -> [Recovery!Files -> Recovery!EntryStates]]
      BY <2>2 DEF Recovery!TypeOK, Recovery!EntryStates, Recovery!Names
    <3> QED BY <2>1, <2>3, <3>1 DEF Recovery!TypeOK
  <2>5. Ours' /\ Kept'
    BY <2>1, <2>3 DEF Ours, Kept
  <2>6. /\ t = "data" => step = 3
        /\ t = "sounds" => step = 7
        /\ t = "config" => step = 10
    BY <1>0, <2>1, StepIs
  <2>7. \A d \in Recovery!Targets, f \in Recovery!Files :
          entries'[d][f] = IF d = t /\ f = n THEN "copied" ELSE entries[d][f]
    BY <2>2 DEF Recovery!TypeOK, Recovery!Names
  <2>8. \A s \in 1 .. 10 : Past(s)' <=> Past(s)
    BY <2>1 DEF Past
  <2>9. /\ t = "data" => ~Past(3) /\ ~Past(4)
        /\ t = "sounds" => ~Past(7) /\ ~Past(8)
        /\ t = "config" => ~Past(10)
    BY <2>1, <2>6 DEF Past
  <2>10. Populated'
    <3>1. Prompts \cup Versions \cup {"db"} \subseteq Recovery!Files
      BY DEF Recovery!Files
    <3> QED BY <2>1, <2>3, <2>7, <2>8, <2>9, <3>1 DEF Populated, Recovery!Targets
  <2> QED BY <2>1, <2>4, <2>5, <2>10 DEF Layout
<1>11. ASSUME NEW t \in Recovery!Targets, Recovery!CopyDone(t)
       PROVE  Recovery!TypeOK' /\ Layout' /\ Ours' /\ Kept' /\ Populated'
  <2>1. /\ pc = "populate" /\ Recovery!StepDone /\ Recovery!Steps[step] = <<"copy", t>>
        /\ Recovery!Content(t) \subseteq Recovery!Names(t) /\ Recovery!Unfinished(t) = {}
        /\ UNCHANGED <<below, before, others, archive, runs, mode, entries, sessions, found, written>>
    BY <1>11 DEF Recovery!CopyDone, Recovery!Doing, Recovery!Fixed, Recovery!disk, Recovery!noted
  <2>2. \/ step = 3 /\ t = "data"
        \/ step = 7 /\ t = "sounds"
        \/ step = 10 /\ t = "config"
    BY <1>0, <2>1, StepIs
  <2>3. pc' = "populate" /\ step' = step + 1
    BY <1>0, <2>1, <2>2, Passing
  <2>4. Recovery!TypeOK'
    BY <2>1, <2>2, <2>3, StepsAre, Untouched DEF Recovery!TypeOK
  <2>5. Ours' /\ Kept'
    BY <2>1, <2>3, OursStay DEF Kept
  <2>6. Populated'
    <3>1. \A s \in 1 .. 10 : Past(s)' => s = step \/ Past(s)
      BY <1>0, <2>1, <2>3 DEF Past
    <3>2. step = 3 => "db" \in Recovery!Names("data")
      BY <2>1, <2>2 DEF Recovery!Content
    <3>3. step = 7 => Prompts \subseteq Recovery!Names("sounds")
      BY <2>1, <2>2 DEF Recovery!Content
    <3>4. step = 10 => \A n \in Versions : entries["config"][n] = "copied"
      BY <2>1, <2>2 DEF Recovery!Content, Recovery!Unfinished, Populated, Recovery!Names
    <3> QED BY <2>1, <2>2, <2>3, <3>1, <3>2, <3>3, <3>4, Untouched DEF Populated, Recovery!Targets
  <2> QED BY <2>1, <2>4, <2>5, <2>6 DEF Layout
<1>12. ASSUME NEW t \in Recovery!Targets, Recovery!Seal(t)
       PROVE  Recovery!TypeOK' /\ Layout' /\ Ours' /\ Kept' /\ Populated'
  <2>1. /\ pc = "populate" /\ Recovery!StepDone /\ Recovery!Steps[step] = <<"seal", t>>
        /\ UNCHANGED <<below, before, others, archive, runs, mode, sessions, found, written>>
    BY <1>12 DEF Recovery!Seal, Recovery!Doing, Recovery!Fixed, Recovery!noted
  <2>2. \/ step = 4 /\ t = "data"
        \/ step = 8 /\ t = "sounds"
    BY <1>0, <2>1, StepIs
  <2>3. pc' = "populate" /\ step' = step + 1
    BY <1>0, <2>1, <2>2, Passing
  <2>4. \A d \in Recovery!Targets, f \in Recovery!Files :
          entries'[d][f] = IF d # t \/ f \notin Recovery!Names(t) THEN entries[d][f]
                           ELSE IF t = "sounds" THEN "0640_reader"
                           ELSE IF f = "db" THEN "0600" ELSE entries[d][f]
    BY <1>12 DEF Recovery!Seal, Recovery!Names, Recovery!TypeOK
  <2>5. /\ \A d \in Recovery!Targets : Recovery!Names(d)' = Recovery!Names(d)
        /\ \A d \in Recovery!Targets : Recovery!Exists(d)' <=> Recovery!Exists(d)
    BY <2>1, <2>4 DEF Recovery!Names, Recovery!Exists
  <2>6. Recovery!TypeOK'
    <3>1. entries' \in [Recovery!Targets -> [Recovery!Files -> Recovery!EntryStates]]
      BY <1>12 DEF Recovery!Seal, Recovery!TypeOK, Recovery!EntryStates
    <3> QED BY <2>1, <2>2, <2>3, <2>5, <3>1, StepsAre DEF Recovery!TypeOK
  <2>7. Ours' /\ Kept'
    BY <2>1, <2>3, <2>5 DEF Ours, Kept
  <2>8. Populated'
    <3>1. \A s \in 1 .. 10 : Past(s)' => s = step \/ Past(s)
      BY <1>0, <2>1, <2>3 DEF Past
    <3>2. step = 4 => "db" \in Recovery!Names("data")
      BY <2>1 DEF Populated, Past
    <3>3. step = 8 => Prompts \subseteq Recovery!Names("sounds")
      BY <2>1 DEF Populated, Past
    <3>4. Prompts \cup Versions \cup {"db"} \subseteq Recovery!Files
      BY DEF Recovery!Files
    <3>5. Past(4)' => entries'["data"]["db"] = "0600"
      BY <2>2, <2>4, <3>1, <3>2, <3>4 DEF Populated, Recovery!Targets
    <3>6. Past(8)' => \A n \in Prompts : entries'["sounds"][n] = "0640_reader"
      BY <2>2, <2>4, <3>1, <3>3, <3>4 DEF Populated, Recovery!Targets
    <3> QED BY <2>1, <2>2, <2>3, <2>4, <2>5, <3>1, <3>4, <3>5, <3>6 DEF Populated, Recovery!Targets
  <2> QED BY <2>1, <2>6, <2>7, <2>8 DEF Layout
<1>13. ASSUME NEW t \in Recovery!Targets, Recovery!Intrude(t)
       PROVE  Recovery!TypeOK' /\ Layout' /\ Ours' /\ Kept' /\ Populated'
  <2>1. /\ pc \notin {"restored", "failed"} /\ t \notin others /\ others' = others \cup {t}
        /\ entries' = [entries EXCEPT ![t]["other"] = "copied"]
        /\ mode' = [d \in Recovery!Targets |->
                     IF ~Recovery!Exists(d) /\ (d = t \/ (d = "data" /\ t \in below)) THEN "default"
                     ELSE mode[d]]
        /\ UNCHANGED <<below, before, archive, sessions, found, written, pc, step, runs>>
    BY <1>13 DEF Recovery!Intrude, Recovery!noted
  <2>2. \A d \in Recovery!Targets, f \in Recovery!Files :
          entries'[d][f] = IF d = t /\ f = "other" THEN "copied" ELSE entries[d][f]
    BY <2>1 DEF Recovery!TypeOK
  <2>3. \A d \in Recovery!Targets :
          Recovery!Names(d)' = Recovery!Names(d) \cup (IF d = t THEN {"other"} ELSE {})
    BY <2>2 DEF Recovery!Names, Recovery!Files
  <2>4. \A d \in Recovery!Targets : Recovery!Exists(d) => Recovery!Exists(d)' /\ mode'[d] = mode[d]
    BY <2>1 DEF Recovery!Exists
  <2>5. Recovery!TypeOK'
    <3>1. entries' \in [Recovery!Targets -> [Recovery!Files -> Recovery!EntryStates]]
      BY <2>1 DEF Recovery!TypeOK, Recovery!EntryStates
    <3>2. mode' \in [Recovery!Targets -> Recovery!Modes]
      BY <2>1 DEF Recovery!TypeOK, Recovery!Modes
    <3> QED BY <2>1, <2>3, <3>1, <3>2 DEF Recovery!TypeOK
  <2>6. ASSUME NEW d \in Recovery!Targets, Recovery!AsBefore(d) PROVE Recovery!AsBefore(d)'
    <3>1. Recovery!Names(d)' = IF d \in others' THEN {"other"} ELSE {}
      BY <2>1, <2>3, <2>6 DEF Recovery!AsBefore
    <3>2. before'[d] = "original" => mode'[d] = "original"
      BY <2>1, <2>4, <2>6 DEF Recovery!AsBefore, Recovery!Exists
    <3>3. Recovery!Exists(d)' => \/ before'[d] = "original"
                                 \/ d \in others'
                                 \/ d = "data" /\ \E c \in below' : Recovery!Exists(c)'
      <4>1. CASE Recovery!Exists(d)
        BY <4>1, <2>1, <2>4, <2>6 DEF Recovery!AsBefore, Layout, Recovery!Targets
      <4>2. CASE d = t
        BY <4>2, <2>1
      <4>3. CASE ~Recovery!Exists(d) /\ d # t
        BY <4>3, <2>1 DEF Recovery!Exists
      <4> QED BY <4>1, <4>2, <4>3
    <3> QED BY <3>1, <3>2, <3>3 DEF Recovery!AsBefore
  <2>7. Ours'
    BY <2>1, <2>3, <2>4 DEF Ours
  <2>8. Kept'
    <3>1. \A d \in Recovery!Targets : Recovery!AsBefore(d) => Recovery!AsBefore(d)'
      BY <2>6
    <3>2. Recovery!AsBefore("config") => Recovery!AsBefore("config")'
      BY <3>1 DEF Recovery!Targets
    <3>3. Recovery!AsBefore("sounds") => Recovery!AsBefore("sounds")'
      BY <3>1 DEF Recovery!Targets
    <3> QED BY <2>1, <3>1, <3>2, <3>3 DEF Kept
  <2>9. Populated'
    <3>1. \A s \in 1 .. 10 : Past(s)' <=> Past(s)
      BY <2>1 DEF Past
    <3>2. Prompts \cup Versions \cup {"db"} \subseteq Recovery!Files \ {"other"}
      BY DEF Recovery!Files
    <3>3. Past(2) => mode'["data"] = "0700"
      BY <2>4 DEF Populated, Recovery!Exists, Recovery!Targets
    <3> QED BY <2>1, <2>2, <2>3, <3>1, <3>2, <3>3 DEF Populated, Recovery!Targets
  <2> QED BY <2>1, <2>5, <2>7, <2>8, <2>9 DEF Layout
<1>14. ASSUME Recovery!RollBackTarget, NEW t \in Recovery!Targets, t = Recovery!Reversed[step]
       PROVE  Recovery!TypeOK' /\ Layout' /\ Ours' /\ Kept' /\ Populated'
  <2> DEFINE kept == Recovery!Names(t) \ written[t]
  <2>1. /\ pc = "rollback"
        /\ UNCHANGED <<below, before, others, archive, runs, sessions, found, written>>
        /\ step' = IF step = 3 THEN 1 ELSE step + 1
        /\ pc' = IF step = 3 THEN "failed" ELSE pc
    BY <1>14 DEF Recovery!RollBackTarget, Recovery!Fixed, Recovery!noted
  <2>2. /\ step \in 1 .. 3
        /\ step = 1 => t = "config"
        /\ step = 2 => t = "sounds"
        /\ step = 3 => t = "data"
    <3>1. step \in 1 .. 3
      BY <2>1 DEF Kept
    <3> QED BY <1>14, <3>1 DEF Recovery!Reversed
  <2>3. /\ \A d \in Recovery!Targets, f \in Recovery!Files :
             entries'[d][f] = IF d # t \/ f \in kept THEN entries[d][f] ELSE "none"
        /\ entries' \in [Recovery!Targets -> [Recovery!Files -> Recovery!EntryStates]]
    BY <1>14 DEF Recovery!RollBackTarget, Recovery!TypeOK, Recovery!EntryStates
  <2>4. /\ mode' = [mode EXCEPT ![t] = mode'[t]]
        /\ ~Recovery!Exists(t) => mode'[t] = "absent"
        /\ Recovery!Exists(t) /\ before[t] # "absent" => mode'[t] = before[t]
        /\ Recovery!Exists(t) /\ before[t] = "absent" =>
             mode'[t] = IF kept # {} \/ (t = "data" /\ \E c \in below : Recovery!Exists(c))
                        THEN mode[t] ELSE "absent"
    BY <1>14, <2>1 DEF Recovery!RollBackTarget, Kept, Recovery!TypeOK
  <2>5. /\ Recovery!Names(t)' = kept
        /\ \A d \in Recovery!Targets : d # t => Recovery!Names(d)' = Recovery!Names(d)
    BY <2>3 DEF Recovery!Names
  <2>6. \A d \in Recovery!Targets :
          d # t => mode'[d] = mode[d] /\ (Recovery!Exists(d)' <=> Recovery!Exists(d))
    BY <2>4 DEF Recovery!TypeOK, Recovery!Exists
  <2>7. kept = IF t \in others THEN {"other"} ELSE {}
    BY <2>1 DEF Recovery!TypeOK, Ours, Recovery!Content
  <2>8. Recovery!TypeOK'
    <3>1. mode' \in [Recovery!Targets -> Recovery!Modes]
      BY <2>4 DEF Recovery!TypeOK, Recovery!Modes
    <3>2. step' \in 1 .. Len(Recovery!Steps)
      BY <2>1, <2>2, StepsAre
    <3>3. \A d \in Recovery!Targets : Recovery!Names(d)' \subseteq Recovery!Names(d)
      BY <2>5
    <3> QED BY <2>1, <2>3, <3>1, <3>2, <3>3 DEF Recovery!TypeOK
  <2>9. Ours'
    <3>1. before[t] = "original" => Recovery!Exists(t)'
      BY <2>4 DEF Ours, Recovery!Exists
    <3>2. "other" \in Recovery!Names(t)' <=> t \in others
      BY <2>5, <2>7
    <3> QED BY <2>1, <2>5, <2>6, <3>1, <3>2 DEF Ours
  <2>10. Recovery!AsBefore(t)'
    <3>1. Recovery!Names(t)' = IF t \in others' THEN {"other"} ELSE {}
      BY <2>1, <2>5, <2>7
    <3>2. before'[t] = "original" => mode'[t] = "original"
      BY <2>1, <2>4 DEF Ours
    <3>3. ASSUME Recovery!Exists(t)', before[t] # "original", t \notin others
          PROVE  t = "data" /\ \E c \in below : Recovery!Exists(c)
      BY <2>4, <2>7, <3>3 DEF Recovery!TypeOK, Recovery!Exists
    <3>4. \A c \in below : Recovery!Exists(c) => Recovery!Exists(c)' \/ c = t
      BY <2>6 DEF Recovery!TypeOK
    <3>5. t = "data" => t \notin below
      BY DEF Layout
    <3> QED BY <2>1, <3>1, <3>2, <3>3, <3>4, <3>5 DEF Recovery!AsBefore
  <2>11. Kept'
    <3>1. ASSUME NEW d \in Recovery!Targets \ {"data"}, d # t, Recovery!AsBefore(d)
          PROVE  Recovery!AsBefore(d)'
      BY <2>1, <2>5, <2>6, <3>1 DEF Recovery!AsBefore
    <3>2. \A d \in Recovery!Targets \ {"data"} : d # t /\ Recovery!AsBefore(d) => Recovery!AsBefore(d)'
      BY <3>1
    <3>3. CASE step = 1
      BY <2>1, <2>2, <2>10, <3>3 DEF Kept
    <3>4. CASE step = 2
      BY <2>1, <2>2, <2>10, <3>2, <3>4 DEF Kept, Recovery!Targets
    <3>5. CASE step = 3
      <4>1. Recovery!AsBefore("config") /\ Recovery!AsBefore("sounds")
        BY <2>1, <3>5 DEF Kept
      <4>2. Recovery!AsBefore("config")' /\ Recovery!AsBefore("sounds")' /\ Recovery!AsBefore("data")'
        BY <2>2, <2>10, <3>2, <3>5, <4>1 DEF Recovery!Targets
      <4>3. \A d \in Recovery!Targets : Recovery!AsBefore(d)'
        BY <4>2 DEF Recovery!Targets
      <4> QED BY <2>1, <3>5, <4>3 DEF Kept
    <3> QED BY <2>2, <3>3, <3>4, <3>5
  <2>12. Layout' /\ Populated'
    <3>1. pc' \in {"rollback", "failed"}
      BY <2>1
    <3>2. \A f \in Recovery!Files : entries'["config"][f] \in {"none", "partial", "copied"}
      BY <2>3 DEF Populated, Recovery!Targets
    <3> QED BY <2>1, <3>1, <3>2 DEF Layout, Populated, Past
  <2> QED BY <2>8, <2>9, <2>11, <2>12
<1>15. Recovery!RollBackTarget => \E t \in Recovery!Targets : t = Recovery!Reversed[step]
  <2>1. Recovery!RollBackTarget => pc = "rollback"
    BY DEF Recovery!RollBackTarget
  <2>2. Recovery!RollBackTarget => step \in 1 .. 3
    BY <2>1 DEF Kept
  <2> QED BY <2>2 DEF Recovery!Reversed, Recovery!Targets
<1> QED
    BY <1>1, <1>3, <1>4, <1>5, <1>6, <1>7, <1>8, <1>9, <1>10, <1>11, <1>12, <1>13, <1>14, <1>15
    DEF Recovery!Next, Recovery!Populate

LEMMA RestoreInductive == Recovery!Spec => []RestoreInv
BY RestoreInit, RestoreStep, PTL DEF Recovery!Spec

\* A restore that fails, at whatever call, leaves every target as it was.
THEOREM FailureLeavesEveryTarget == Recovery!Spec => []FailureLeavesTargets
<1>1. RestoreInv => FailureLeavesTargets
    BY DEF RestoreInv, Kept, FailureLeavesTargets, Recovery!FailureLeavesTargets
<1> QED BY <1>1, RestoreInductive, PTL

\* One that reports success has restored everything, with the promised modes.
THEOREM SuccessIsWhole == Recovery!Spec => []RestoredIsWhole
<1>1. ASSUME RestoreInv, pc = "restored" PROVE Recovery!RestoredIsWhole
  <2>1. \A s \in 1 .. 10 : Past(s)
    BY <1>1 DEF Past
  <2>2. Versions \subseteq Recovery!Names("config")
    BY <2>1, <1>1 DEF RestoreInv, Populated, Recovery!Names, Recovery!Files
  <2> QED BY <1>1, <2>1, <2>2 DEF RestoreInv, Populated, Recovery!RestoredIsWhole,
      Recovery!Content, Recovery!Targets
<1>2. RestoreInv => RestoredIsWhole
    BY <1>1 DEF RestoredIsWhole, Recovery!RestoredIsWhole
<1> QED BY <1>2, RestoreInductive, PTL

-----------------------------------------------------------------------------
(* The first start: LegacyMigration *)

\* A process on its way to the first revision has what topology.json holds, or
\* held when the first revision was made of it; the backup is what goes in.
Underway(p) == place[p] \in {"look", "backup", "copying", "insert"}
Read(p) == place[p] \in {"backup", "copying", "insert"} /\ topology[p] # "seed"
OneSource ==
    /\ \A p \in Processes :
         /\ place[p] \in {"backup", "copying"} => topology[p] # "seed"
         /\ Read(p) => topology[p] = IF first = "none" THEN legacy ELSE first
         /\ Read(p) /\ place[p] = "insert" => backup = topology[p]
         /\ Underway(p) /\ first # "none" => legacy \in {"absent", first}
         /\ place[p] = "remove" => migrated
         /\ place[p] = "insert" /\ topology[p] = "seed" /\ first = "none" =>
                ~provided /\ legacy = "absent"
    /\ migrated => backup \in {"absent", "partial", first}
    /\ first = "none" /\ provided => legacy # "absent"

MigrationInv == Migration!TypeOK /\ OneSource /\ Migration!LegacyBeatsSeed

LEMMA MigrationInit == Migration!Init => MigrationInv
<1> SUFFICES ASSUME Migration!Init PROVE MigrationInv
    OBVIOUS
<1> USE MigrationAssumption DEF Migration!Init
<1>0. first \notin Valid
    OBVIOUS
<1>1. migrated = (first \in Valid)
  <2>1. migrated = FALSE /\ (first \in Valid) = FALSE
    BY <1>0
  <2> QED BY <2>1
<1>2. provided \in BOOLEAN
    OBVIOUS
<1>3. Migration!TypeOK
    BY <1>1, <1>2 DEF Migration!TypeOK, Migration!Places
<1>4. OneSource /\ Migration!LegacyBeatsSeed
    BY DEF OneSource, Underway, Read, Migration!LegacyBeatsSeed
<1> QED BY <1>3, <1>4 DEF MigrationInv

LEMMA MigrationStep == MigrationInv /\ [Migration!Next]_migrationVars => MigrationInv'
<1> SUFFICES ASSUME MigrationInv, [Migration!Next]_migrationVars PROVE MigrationInv'
    OBVIOUS
<1> USE MigrationAssumption
        DEF MigrationInv, Migration!TypeOK, Migration!LegacyBeatsSeed, OneSource, Underway, Read,
            Migration!Goto, Migration!Outside, Migration!Refuse, Migration!Places
<1>1. CASE UNCHANGED migrationVars
    BY <1>1 DEF migrationVars
<1>2. ASSUME NEW p \in Processes, Migration!Open(p) PROVE MigrationInv'
    BY <1>2 DEF Migration!Open
<1>3. ASSUME NEW p \in Processes, Migration!Look(p) PROVE MigrationInv'
    BY <1>3 DEF Migration!Look
<1>4. ASSUME NEW p \in Processes, Migration!MakeBackup(p) PROVE MigrationInv'
    BY <1>4 DEF Migration!MakeBackup
<1>5. ASSUME NEW p \in Processes, Migration!CopyEnds(p) PROVE MigrationInv'
    BY <1>5 DEF Migration!CopyEnds
<1>6. ASSUME NEW p \in Processes, Migration!Insert(p) PROVE MigrationInv'
  <2> USE <1>6 DEF Migration!Insert, Migration!MayInsert
  <2>1. CASE first = "none" /\ topology[p] \in Valid \cup {"seed"}
    <3>1. migrated' = (first' \in Valid) /\ Migration!TypeOK'
        BY <2>1
    <3>2. OneSource'
      <4>1. ASSUME NEW q \in Processes, Read(q)' PROVE Read(q) \/ q = p
        BY <2>1, <4>1
      <4>2. topology[p] # "seed" => /\ topology[p] = legacy /\ backup = topology[p]
                                   /\ first' = legacy /\ migrated'
        BY <2>1
      <4>3. topology[p] = "seed" => legacy = "absent" /\ ~migrated'
        BY <2>1
      <4> QED BY <2>1, <4>1, <4>2, <4>3
    <3>3. Migration!LegacyBeatsSeed'
        BY <2>1
    <3> QED BY <3>1, <3>2, <3>3
  <2>2. CASE ~(first = "none" /\ topology[p] \in Valid \cup {"seed"})
    BY <2>2
  <2> QED BY <2>1, <2>2
<1>7. ASSUME NEW p \in Processes, Migration!RemoveSource(p) PROVE MigrationInv'
    BY <1>7 DEF Migration!RemoveSource
<1>8. ASSUME NEW p \in Processes, Migration!Crash(p) PROVE MigrationInv'
    BY <1>8 DEF Migration!Crash
<1>9. CASE Migration!OperatorEdits
  <2> USE <1>9 DEF Migration!OperatorEdits
  <2>1. /\ \A p \in Processes : place'[p] = "down"
        /\ UNCHANGED <<first, migrated, place, topology, crashes>>
    OBVIOUS
  <2>2. provided' \in BOOLEAN /\ (first # "none" => provided' = provided)
    OBVIOUS
  <2>3. Migration!TypeOK'
    BY <2>1, <2>2
  <2>4. OneSource'
    BY <2>1
  <2>5. Migration!LegacyBeatsSeed'
    BY <2>1, <2>2
  <2> QED BY <2>3, <2>4, <2>5
<1> QED
    BY <1>1, <1>2, <1>3, <1>4, <1>5, <1>6, <1>7, <1>8, <1>9 DEF Migration!Next, Migration!Step

LEMMA MigrationInductive == Migration!Spec => []MigrationInv
<1>1. migrationVars = Migration!vars
    BY DEF migrationVars, Migration!vars
<1>2. MigrationInv /\ [Migration!Next]_Migration!vars => MigrationInv'
    BY MigrationStep DEF migrationVars, Migration!vars
<1> QED BY MigrationInit, <1>2, PTL DEF Migration!Spec

\* What goes in first is the topology.json that is there, never the example.
THEOREM LegacyAlwaysBeatsSeed == Migration!Spec => []LegacyBeatsSeed
<1>1. MigrationInv => LegacyBeatsSeed
    BY DEF MigrationInv, LegacyBeatsSeed
<1> QED BY <1>1, MigrationInductive, PTL

\* topology.json goes only when what it held is the first revision and the backup.
THEOREM SourceGoesOnlyAfterCommit == Migration!Spec => SourceGoesAfterCommit
<1>1. MigrationInv /\ [Migration!Next]_Migration!vars =>
        [legacy # "absent" /\ legacy' = "absent" => first = legacy /\ backup = legacy]_Migration!vars
  <2> SUFFICES ASSUME MigrationInv, Migration!Next, legacy # "absent", legacy' = "absent"
               PROVE first = legacy /\ backup = legacy
    BY DEF Migration!vars
  <2>1. PICK p \in Processes : Migration!RemoveSource(p)
    BY MigrationAssumption DEF Migration!Next, Migration!Step, Migration!Open, Migration!Look,
       Migration!MakeBackup, Migration!CopyEnds, Migration!Insert, Migration!Crash,
       Migration!OperatorEdits
  <2> QED
    BY <2>1, MigrationAssumption
    DEF Migration!RemoveSource, MigrationInv, OneSource, Migration!TypeOK, Migration!Refuse
<1> QED BY <1>1, MigrationInductive, PTL DEF Migration!Spec, SourceGoesAfterCommit,
    Migration!SourceGoesAfterCommit

-----------------------------------------------------------------------------
(* All three *)

OperationsInv == RotationInv /\ RestoreInv /\ MigrationInv

LEMMA OperationsStep == OperationsInv /\ [OperationsNext]_operationsVars => OperationsInv'
<1> SUFFICES ASSUME RotationInv, RestoreInv, MigrationInv, [OperationsNext]_operationsVars
             PROVE  RotationInv' /\ RestoreInv' /\ MigrationInv'
    BY DEF OperationsInv
<1>1. Recovery!vars = restoreVars /\ Recovery!vars' = restoreVars'
    BY DEF Recovery!vars, restoreVars
<1>2. [RotationNext]_rotationVars /\ [Recovery!Next]_Recovery!vars /\ [Migration!Next]_migrationVars
    BY <1>1 DEF OperationsNext, operationsVars
<1> QED BY <1>2, RotationStep, RestoreStep, MigrationStep

\* The variables of the three components have their types throughout.
THEOREM OperationsTypeCorrect == OperationsSpec => []OperationsTypesOK
<1>1. OperationsInit => OperationsInv
    BY RotationInitHolds, RestoreInit, MigrationInit DEF OperationsInit, OperationsInv
<1>2. OperationsInv => OperationsTypesOK
    BY DEF OperationsInv, RotationInv, RestoreInv, MigrationInv, OperationsTypesOK
<1> QED BY <1>1, OperationsStep, <1>2, PTL DEF OperationsSpec
===============================================================================
