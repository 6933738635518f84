---------------------------- MODULE PbxDatabase ----------------------------
(***************************************************************************)
(* The SQLite store of backend/src/model/database.ts: immutable topology   *)
(* revisions, the three pointers of topology_state, the encrypted SIP      *)
(* secrets and the deployment log.  Every operator that constrains a       *)
(* primed variable stands for one synchronous method, that is, for one     *)
(* SQLite transaction; modules that extend this one combine them into the  *)
(* request handlers that call them.                                        *)
(*                                                                         *)
(* A topology is reduced to what the store and its callers tell apart: the *)
(* extension nodes, the custom sounds its IVR nodes play, and the          *)
(* extensions whose sipSecret.configured flag is set.  Ciphertexts are     *)
(* reduced to the presence of a row in sip_secrets.                        *)
(***************************************************************************)
EXTENDS Naturals, FiniteSets, Functions

CONSTANTS
    Extensions,     \* node ids that may be extension nodes
    Sounds,         \* names of custom sounds
    DeploymentIds,  \* the UUIDs deployTopology may draw
    RevisionLimit,  \* options.revisionLimit, 100 in production
    MaxRevision     \* bound: the last revision number the model may issue

ASSUME StoreAssumption ==
    /\ RevisionLimit \in Nat \ {0}
    /\ MaxRevision \in Nat \ {0}

VARIABLES
    topology_revisions,  \* the rows: a function from live revision numbers
    sqlite_sequence,     \* last AUTOINCREMENT value of topology_revisions
    current_revision,
    active_revision,
    last_good_revision,
    sip_secrets,         \* the node ids that have a secret row
    deployments          \* the rows: a function from deployment ids

revisionVars == <<topology_revisions, sqlite_sequence, current_revision, sip_secrets>>
pointerVars == <<active_revision, last_good_revision>>
dbVars == <<revisionVars, pointerVars, deployments>>

-----------------------------------------------------------------------------
NoRevision == 0  \* SQL NULL in active_revision and last_good_revision

\* What an editor sends; a configured flag in it is ignored by the store.
Design == [exts : SUBSET Extensions, greetings : SUBSET Sounds]

\* What a row of topology_revisions holds.
Topology == [exts : SUBSET Extensions, greetings : SUBSET Sounds,
             configured : SUBSET Extensions]

Results == {"started", "success", "failed", "failed-rolled-back"}

DbTypeOK ==
    /\ sqlite_sequence \in 1 .. MaxRevision
    /\ DOMAIN topology_revisions \subseteq 1 .. sqlite_sequence
    /\ topology_revisions \in [DOMAIN topology_revisions -> Topology]
    /\ current_revision \in 1 .. MaxRevision
    /\ active_revision \in 0 .. MaxRevision
    /\ last_good_revision \in 0 .. MaxRevision
    /\ sip_secrets \subseteq Extensions
    /\ DOMAIN deployments \subseteq DeploymentIds
    /\ deployments \in [DOMAIN deployments ->
                          [revision : 1 .. MaxRevision, result : Results]]

-----------------------------------------------------------------------------
DesignOf(topology) == [exts |-> topology.exts, greetings |-> topology.greetings]

CurrentTopology == topology_revisions[current_revision]

\* A first start: the seed or the migrated legacy topology, whose plaintext
\* passwords (if any) become secret rows, is revision 1; nothing is active.
InsertInitialTopology(design, plaintext) ==
    /\ topology_revisions = [r \in {1} |->
            [exts |-> design.exts, greetings |-> design.greetings,
             configured |-> plaintext \cap design.exts]]
    /\ sqlite_sequence = 1
    /\ current_revision = 1
    /\ active_revision = NoRevision
    /\ last_good_revision = NoRevision
    /\ sip_secrets = plaintext \cap design.exts
    /\ deployments = [d \in {} |-> [revision |-> 1, result |-> "started"]]

\* The secret rows after prepareSecrets: plaintext passwords are stored, rows
\* of extensions the new topology no longer has are deleted.
\* Mutant: rows of extensions that went are left behind.
PrepareSecretsKeepsOrphans(exts, plaintext) == sip_secrets \cup (plaintext \cap exts)
PrepareSecrets(exts, plaintext) == (sip_secrets \cup plaintext) \cap exts

\* What is stored: the passwords are gone, a flag says which extension has a row.
Redacted(design, rows) ==
    [exts |-> design.exts, greetings |-> design.greetings, configured |-> rows \cap design.exts]

\* The rows that survive pruneRevisions: the RevisionLimit newest ones and
\* the ones the state row points at.
Newest(revisions, n) ==
    {r \in revisions : Cardinality({q \in revisions : q > r}) < n}
\* Mutant: pruning ignores the pointers.
RetainedOnlyNewest(revisions, current) == Newest(revisions, RevisionLimit)
\* Mutant: off by one, and last_good_revision is forgotten.
RetainedOneMore(revisions, current) ==
    Newest(revisions, RevisionLimit + 1) \cup ({current, active_revision} \cap revisions)
Retained(revisions, current) ==
    Newest(revisions, RevisionLimit)
    \cup ({current, active_revision, last_good_revision} \cap revisions)

\* Deployment rows go with the pruned revision they refer to.
\* Mutant: the log is pruned by age, not with its revision.
RetainedDeploymentsOfNewest(revisions) ==
    Restrict(deployments, {d \in DOMAIN deployments :
                deployments[d].revision \in Newest(revisions, RevisionLimit)})
RetainedDeployments(revisions) ==
    Restrict(deployments, {d \in DOMAIN deployments : deployments[d].revision \in revisions})

\* saveTopology without its effect on the deployment log: compare the
\* expected revision, store the redacted topology under the next number,
\* move current_revision, prune.
\* Mutant: the current row is overwritten.
SaveRevisionInPlace(design, expected, plaintext) ==
    LET rows == PrepareSecrets(design.exts, plaintext)
    IN  /\ current_revision = expected
        /\ topology_revisions' = [topology_revisions EXCEPT ![current_revision] =
                                      Redacted(design, rows)]
        /\ sip_secrets' = rows
        /\ UNCHANGED <<sqlite_sequence, current_revision>>
\* Mutant: the expected revision is not compared but trusted.
SaveRevisionUnchecked(design, expected, plaintext) ==
    LET next == expected + 1
        rows == PrepareSecrets(design.exts, plaintext)
        kept == Retained(DOMAIN topology_revisions \cup {next}, next)
    IN  /\ next <= MaxRevision
        /\ topology_revisions' = [r \in kept |->
               IF r = next THEN Redacted(design, rows) ELSE topology_revisions[r]]
        /\ sqlite_sequence' = IF next > sqlite_sequence THEN next ELSE sqlite_sequence
        /\ current_revision' = next
        /\ sip_secrets' = rows
SaveRevision(design, expected, plaintext) ==
    LET next == sqlite_sequence + 1
        rows == PrepareSecrets(design.exts, plaintext)
        kept == Retained(DOMAIN topology_revisions \cup {next}, next)
    IN  /\ current_revision = expected
        /\ next <= MaxRevision
        /\ topology_revisions' = [r \in kept |->
               IF r = next THEN Redacted(design, rows) ELSE topology_revisions[r]]
        /\ sqlite_sequence' = next
        /\ current_revision' = next
        /\ sip_secrets' = rows

SaveTopology(design, expected, plaintext) ==
    /\ SaveRevision(design, expected, plaintext)
    /\ deployments' = RetainedDeployments(DOMAIN topology_revisions')
    /\ UNCHANGED pointerVars

\* putSecret for an extension of the current topology, then saveTopology of
\* the current topology, in one transaction.
UpdateSipSecret(ext, expected) ==
    /\ ext \in CurrentTopology.exts
    /\ SaveTopology(DesignOf(CurrentTopology), expected, {ext})

\* An old revision is written forward; its flags follow today's secret rows.
RollbackTopology(target, expected) ==
    /\ target \in DOMAIN topology_revisions
    /\ SaveTopology(DesignOf(topology_revisions[target]), expected, {})

\* Every IVR that plays old plays new instead; a builtin prompt (not in
\* Sounds) leaves no custom reference behind.
Substitute(greetings, old, new) ==
    IF old \in greetings THEN (greetings \ {old}) \cup ({new} \cap Sounds) ELSE greetings
ReplaceSoundReference(old, new, expected) ==
    SaveTopology([exts |-> CurrentTopology.exts,
                  greetings |-> Substitute(CurrentTopology.greetings, old, new)],
                 expected, {})

\* materializedTopology(r) fails exactly when a configured extension of the
\* revision has no secret row.
Materializable(r) ==
    /\ r \in DOMAIN topology_revisions
    /\ topology_revisions[r].configured \subseteq sip_secrets

-----------------------------------------------------------------------------
\* The deployment log.  The references of topology_state and deployments to
\* topology_revisions are foreign keys: a statement that would break one
\* throws, so it has no successor state here.
DeploymentsWith(rows, id, revision) ==
    [d \in DOMAIN rows \cup {id} |->
        IF d = id THEN [revision |-> revision, result |-> "started"] ELSE rows[d]]

CreateDeployment(id, revision) ==
    deployments' = DeploymentsWith(deployments, id, revision)

FinishDeployment(id, result) ==
    deployments' = [d \in DOMAIN deployments |->
        IF d = id THEN [revision |-> deployments[d].revision, result |-> result]
                  ELSE deployments[d]]

MarkDeploymentActive(revision) ==
    /\ revision \in DOMAIN topology_revisions
    /\ active_revision' = revision
    /\ last_good_revision' = revision

-----------------------------------------------------------------------------
\* Type correctness aside, what every state of the store satisfies.

\* The pointers and the deployment log refer to rows that exist, however
\* many saves have pruned the history since (architecture.md: current, active
\* and last-known-good revisions are protected from retention pruning).
PointersExist ==
    /\ current_revision \in DOMAIN topology_revisions
    /\ {active_revision, last_good_revision} \subseteq {NoRevision} \cup DOMAIN topology_revisions
    /\ \A d \in DOMAIN deployments : deployments[d].revision \in DOMAIN topology_revisions

\* The secret rows are exactly the ones the current revision announces: no
\* configured flag without a row (materializedTopology of the current
\* revision cannot fail) and no row left behind for an extension that went.
SecretsMatchCurrent == CurrentTopology.configured = sip_secrets
=============================================================================
