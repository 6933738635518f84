------------------------- MODULE PbxDatabase_proofs -------------------------
(***************************************************************************)
(* What the transactions of PbxDatabase preserve, stated once for the      *)
(* modules whose steps are built from them.                                *)
(***************************************************************************)
EXTENDS PbxDatabase, FiniteSetTheorems, TLAPS

\* The store's invariant.  Type correctness, the foreign keys and the secret
\* rows need one another: a save keeps the current row well-formed because
\* it exists, and the protected rows exist because pruning spares them.
DbInv == DbTypeOK /\ PointersExist /\ SecretsMatchCurrent

\* What a save does to the history: one new row under the next number, all
\* other rows as they were or gone, exactly the retained ones still there,
\* the rows pointed at among them.
HistoryExtended ==
    /\ DOMAIN topology_revisions' =
          Retained(DOMAIN topology_revisions \cup {sqlite_sequence'}, sqlite_sequence')
    /\ sqlite_sequence' = sqlite_sequence + 1
    /\ sqlite_sequence' \in 1 .. MaxRevision
    /\ current_revision' = sqlite_sequence'
    /\ current_revision' \in DOMAIN topology_revisions'
    /\ \A r \in DOMAIN topology_revisions' \ {current_revision'} :
            r \in DOMAIN topology_revisions /\ topology_revisions'[r] = topology_revisions[r]
    /\ {active_revision, last_good_revision} \subseteq {NoRevision} \cup DOMAIN topology_revisions'

LEMMA RetainedSpares ==
    ASSUME NEW revisions \in SUBSET Nat, NEW current \in revisions
    PROVE  /\ Retained(revisions, current) \subseteq revisions
           /\ ({current, active_revision, last_good_revision} \cap revisions)
                \subseteq Retained(revisions, current)
  BY DEF Retained, Newest

\* The newest n rows are at most n: counting the newer rows tells them apart,
\* and each count is below n.
LEMMA NewestBound ==
    ASSUME NEW revisions \in SUBSET Nat, IsFiniteSet(revisions), NEW n \in Nat \ {0}
    PROVE  /\ IsFiniteSet(Newest(revisions, n))
           /\ Cardinality(Newest(revisions, n)) <= n
  <1> DEFINE Newer(r) == {q \in revisions : q > r}
             count == [r \in Newest(revisions, n) |-> Cardinality(Newer(r))]
  <1>1. \A r \in revisions : IsFiniteSet(Newer(r)) /\ Cardinality(Newer(r)) \in Nat
    <2> SUFFICES ASSUME NEW r \in revisions
                 PROVE  IsFiniteSet(Newer(r)) /\ Cardinality(Newer(r)) \in Nat
      OBVIOUS
    <2>1. IsFiniteSet(Newer(r))
      BY FS_Subset
    <2> QED
      BY <2>1, FS_CardinalityType
  <1>0. \A r \in revisions : r \in Nat
    OBVIOUS
  <1>2. count \in [Newest(revisions, n) -> 0 .. (n - 1)]
    <2>1. \A r \in Newest(revisions, n) : r \in revisions /\ Cardinality(Newer(r)) < n
      BY DEF Newest
    <2>2. \A c \in Nat : c < n => c \in 0 .. (n - 1)
      OBVIOUS
    <2> HIDE DEF Newer
    <2> QED
      BY <1>1, <2>1, <2>2
  <1>3. ASSUME NEW a \in revisions, NEW b \in revisions, a < b
        PROVE  Cardinality(Newer(a)) # Cardinality(Newer(b))
    <2>1. Newer(b) \in SUBSET Newer(a) /\ b \in Newer(a) /\ b \notin Newer(b)
      <3>1. \A q \in revisions : q > b => q > a
        BY <1>0, <1>3
      <3>2. b > a /\ ~(b > b)
        BY <1>0, <1>3
      <3> QED
        BY <3>1, <3>2
    <2>2. Cardinality(Newer(a)) = Cardinality(Newer(b)) => Newer(a) = Newer(b)
      BY <1>1, <2>1, FS_Subset
    <2> QED
      BY <2>1, <2>2
  <1>4. Newest(revisions, n) \subseteq revisions
    BY DEF Newest
  <1>5. ASSUME NEW a \in Newest(revisions, n), NEW b \in Newest(revisions, n), count[a] = count[b]
        PROVE  a = b
    <2>1. Cardinality(Newer(a)) = Cardinality(Newer(b))
      BY <1>5
    <2>2. a < b \/ b < a \/ a = b
      <3>1. \A x, y \in Nat : x < y \/ y < x \/ x = y
        OBVIOUS
      <3>2. a \in Nat /\ b \in Nat
        BY <1>0, <1>4
      <3> QED
        BY <3>1, <3>2
    <2> HIDE DEF Newer
    <2> QED
      BY <1>3, <1>4, <2>1, <2>2
  <1>6. count \in Injection(Newest(revisions, n), 0 .. (n - 1))
    <2> HIDE DEF count
    <2> QED
      BY <1>2, <1>5 DEF Injection, IsInjective
  <1>7. IsFiniteSet(0 .. (n - 1)) /\ Cardinality(0 .. (n - 1)) = n
    BY FS_Interval
  <1> HIDE DEF count
  <1> QED
    BY <1>6, <1>7, FS_Injection

\* What pruning leaves, when nothing newer than the current revision exists
\* and both other pointers are the same: the limit and at most one row more.
LEMMA RetainedBound ==
    ASSUME NEW revisions \in SUBSET Nat, IsFiniteSet(revisions),
           NEW current \in revisions, \A r \in revisions : r <= current,
           active_revision = last_good_revision
    PROVE  Cardinality(Retained(revisions, current)) <= RevisionLimit + 1
  <1> DEFINE newest == Newest(revisions, RevisionLimit)
  <1>1. IsFiniteSet(newest) /\ Cardinality(newest) <= RevisionLimit
    BY NewestBound, StoreAssumption
  <1>2. current \in newest
    <2>1. {q \in revisions : q > current} = {}
      <3>1. \A r \in revisions : r \in Nat
        OBVIOUS
      <3>2. \A r \in revisions : ~(r > current)
        BY <3>1
      <3> QED
        BY <3>2
    <2>2. 0 < RevisionLimit
      BY StoreAssumption
    <2> QED
      BY <2>1, <2>2, FS_EmptySet DEF Newest
  <1> HIDE DEF newest
  <1>3. Retained(revisions, current) \in SUBSET (newest \cup {active_revision})
    BY <1>2 DEF Retained, newest, Newest
  <1>4. /\ IsFiniteSet(newest \cup {active_revision})
        /\ Cardinality(newest \cup {active_revision}) <= Cardinality(newest) + 1
    <2>1. Cardinality(newest) \in Nat
      BY <1>1, FS_CardinalityType
    <2> QED
      <3>1. /\ IsFiniteSet(newest \cup {active_revision})
            /\ Cardinality(newest \cup {active_revision}) =
                 IF active_revision \in newest THEN Cardinality(newest) ELSE Cardinality(newest) + 1
        BY <1>1, FS_AddElement
      <3> QED
        BY <2>1, <3>1
  <1>5. /\ IsFiniteSet(Retained(revisions, current))
        /\ Cardinality(Retained(revisions, current)) <= Cardinality(newest \cup {active_revision})
    BY <1>3, <1>4, FS_Subset
  <1>6. /\ Cardinality(newest) \in Nat
        /\ Cardinality(newest \cup {active_revision}) \in Nat
        /\ Cardinality(Retained(revisions, current)) \in Nat
    BY <1>1, <1>4, <1>5, FS_CardinalityType
  <1> QED
    BY <1>1, <1>4, <1>5, <1>6, StoreAssumption

LEMMA SaveRevisionExtends ==
    ASSUME DbInv, NEW design \in Design, NEW expected, NEW plaintext \in SUBSET Extensions,
           SaveRevision(design, expected, plaintext)
    PROVE  /\ HistoryExtended
           /\ DOMAIN topology_revisions' \subseteq 1 .. sqlite_sequence'
           /\ topology_revisions' \in [DOMAIN topology_revisions' -> Topology]
           /\ sip_secrets' \subseteq Extensions
           /\ topology_revisions'[current_revision'].configured = sip_secrets'
  <1> DEFINE next == sqlite_sequence + 1
             rows == PrepareSecrets(design.exts, plaintext)
             kept == Retained(DOMAIN topology_revisions \cup {next}, next)
             saved == Redacted(design, rows)
  <1>1. /\ next <= MaxRevision
        /\ topology_revisions' = [r \in kept |-> IF r = next THEN saved ELSE topology_revisions[r]]
        /\ sqlite_sequence' = next
        /\ current_revision' = next
        /\ sip_secrets' = rows
    BY DEF SaveRevision
  <1>2. /\ sqlite_sequence \in Nat
        /\ next \in 1 .. MaxRevision
        /\ DOMAIN topology_revisions \subseteq 1 .. sqlite_sequence
        /\ next \notin DOMAIN topology_revisions
    BY <1>1, StoreAssumption DEF DbInv, DbTypeOK
  <1>3. DOMAIN topology_revisions \cup {next} \in SUBSET Nat
    BY <1>2
  <1>4. /\ kept \subseteq DOMAIN topology_revisions \cup {next}
        /\ next \in kept
        /\ {active_revision, last_good_revision} \subseteq {NoRevision} \cup kept
    BY <1>3, RetainedSpares DEF DbInv, PointersExist
  <1>5. DOMAIN topology_revisions' = kept
    BY <1>1
  <1>6. /\ rows \subseteq design.exts /\ design.exts \subseteq Extensions
        /\ saved \in Topology /\ saved.configured = rows
    BY DEF PrepareSecrets, Design, Topology, Redacted
  <1>7. \A r \in kept : topology_revisions'[r] = IF r = next THEN saved ELSE topology_revisions[r]
    BY <1>1
  <1>8. \A r \in kept \ {next} :
            r \in DOMAIN topology_revisions /\ topology_revisions'[r] = topology_revisions[r]
    BY <1>4, <1>7
  <1>9. \A r \in DOMAIN topology_revisions : topology_revisions[r] \in Topology
    BY DEF DbInv, DbTypeOK
  <1>10. \A r \in kept : (IF r = next THEN saved ELSE topology_revisions[r]) \in Topology
    BY <1>4, <1>6, <1>9
  <1>11. topology_revisions' \in [kept -> Topology]
    BY <1>1, <1>10
  <1>12. HistoryExtended
    BY <1>1, <1>2, <1>4, <1>5, <1>8 DEF HistoryExtended
  <1>13. kept \subseteq 1 .. sqlite_sequence'
    <2> HIDE DEF kept, saved
    <2> QED
      BY <1>1, <1>2, <1>4
  <1>14. topology_revisions'[current_revision'].configured = sip_secrets'
    BY <1>1, <1>4, <1>6, <1>7
  <1> QED
    BY <1>1, <1>5, <1>6, <1>11, <1>12, <1>13, <1>14

LEMMA RetainedDeploymentsTyped ==
    ASSUME DbTypeOK, NEW revisions
    PROVE  /\ DOMAIN RetainedDeployments(revisions) \subseteq DOMAIN deployments
           /\ \A d \in DOMAIN RetainedDeployments(revisions) :
                /\ RetainedDeployments(revisions)[d] = deployments[d]
                /\ deployments[d].revision \in revisions
           /\ RetainedDeployments(revisions) \in
                [DOMAIN RetainedDeployments(revisions) -> [revision : 1 .. MaxRevision, result : Results]]
  BY DEF DbTypeOK, RetainedDeployments, Restrict

LEMMA SaveTopologyInv ==
    ASSUME DbInv, NEW design \in Design, NEW expected, NEW plaintext \in SUBSET Extensions,
           SaveTopology(design, expected, plaintext)
    PROVE  DbInv' /\ HistoryExtended
  <1>1. /\ SaveRevision(design, expected, plaintext)
        /\ deployments' = RetainedDeployments(DOMAIN topology_revisions')
        /\ UNCHANGED <<active_revision, last_good_revision>>
    BY DEF SaveTopology, pointerVars
  <1>2. /\ HistoryExtended
        /\ DOMAIN topology_revisions' \subseteq 1 .. sqlite_sequence'
        /\ topology_revisions' \in [DOMAIN topology_revisions' -> Topology]
        /\ sip_secrets' \subseteq Extensions
        /\ topology_revisions'[current_revision'].configured = sip_secrets'
    BY <1>1, SaveRevisionExtends
  <1>3. /\ DOMAIN deployments' \subseteq DOMAIN deployments
        /\ \A d \in DOMAIN deployments' : deployments'[d].revision \in DOMAIN topology_revisions'
        /\ deployments' \in [DOMAIN deployments' -> [revision : 1 .. MaxRevision, result : Results]]
    BY <1>1, RetainedDeploymentsTyped DEF DbInv
  <1>4. DbTypeOK'
    BY <1>1, <1>2, <1>3 DEF DbInv, DbTypeOK, HistoryExtended
  <1>5. PointersExist'
    BY <1>1, <1>2, <1>3 DEF PointersExist, HistoryExtended
  <1>6. SecretsMatchCurrent'
    BY <1>2 DEF SecretsMatchCurrent, CurrentTopology
  <1> QED
    BY <1>2, <1>4, <1>5, <1>6 DEF DbInv

LEMMA DesignOfTyped ==
    ASSUME NEW topology \in Topology
    PROVE  DesignOf(topology) \in Design
  BY DEF DesignOf, Design, Topology

LEMMA CurrentTyped ==
    ASSUME DbInv
    PROVE  CurrentTopology \in Topology
  BY DEF DbInv, DbTypeOK, PointersExist, CurrentTopology

LEMMA UpdateSipSecretInv ==
    ASSUME DbInv, NEW ext \in Extensions, NEW expected, UpdateSipSecret(ext, expected)
    PROVE  DbInv' /\ HistoryExtended
  <1>1. DesignOf(CurrentTopology) \in Design
    BY CurrentTyped, DesignOfTyped
  <1>2. {ext} \in SUBSET Extensions
    OBVIOUS
  <1>3. SaveTopology(DesignOf(CurrentTopology), expected, {ext})
    BY DEF UpdateSipSecret
  <1> QED
    BY <1>1, <1>2, <1>3, SaveTopologyInv

LEMMA RollbackTopologyInv ==
    ASSUME DbInv, NEW target, NEW expected, RollbackTopology(target, expected)
    PROVE  DbInv' /\ HistoryExtended
  <1>1. topology_revisions[target] \in Topology
    BY DEF RollbackTopology, DbInv, DbTypeOK
  <1>2. DesignOf(topology_revisions[target]) \in Design
    BY <1>1, DesignOfTyped
  <1>3. SaveTopology(DesignOf(topology_revisions[target]), expected, {})
    BY DEF RollbackTopology
  <1>4. {} \in SUBSET Extensions
    OBVIOUS
  <1> QED
    BY <1>2, <1>3, <1>4, SaveTopologyInv

LEMMA ReplaceSoundReferenceInv ==
    ASSUME DbInv, NEW old, NEW new, NEW expected, ReplaceSoundReference(old, new, expected)
    PROVE  DbInv' /\ HistoryExtended
  <1> DEFINE design == [exts |-> CurrentTopology.exts,
                        greetings |-> Substitute(CurrentTopology.greetings, old, new)]
  <1>1. /\ CurrentTopology.exts \subseteq Extensions
        /\ CurrentTopology.greetings \subseteq Sounds
    BY CurrentTyped DEF Topology
  <1>2. Substitute(CurrentTopology.greetings, old, new) \subseteq Sounds
    BY <1>1 DEF Substitute
  <1>3. design \in Design
    BY <1>1, <1>2 DEF Design
  <1>4. SaveTopology(design, expected, {})
    BY DEF ReplaceSoundReference
  <1>5. {} \in SUBSET Extensions
    OBVIOUS
  <1> HIDE DEF design
  <1> QED
    BY <1>3, <1>4, <1>5, SaveTopologyInv

\* The deployment log: rows may be added and finished, pointers may move to a
\* row that exists; the revisions stay as they are.
LEMMA FinishDeploymentTyped ==
    ASSUME DbTypeOK, NEW id, NEW result \in Results, FinishDeployment(id, result)
    PROVE  /\ DOMAIN deployments' = DOMAIN deployments
           /\ deployments' \in [DOMAIN deployments -> [revision : 1 .. MaxRevision, result : Results]]
           /\ \A d \in DOMAIN deployments :
                /\ deployments'[d].revision = deployments[d].revision
                /\ deployments'[d].result = IF d = id THEN result ELSE deployments[d].result
  BY DEF DbTypeOK, FinishDeployment

\* A step that at most finishes a deployment and moves the pointers.
LEMMA LogStepInv ==
    ASSUME DbInv, UNCHANGED revisionVars,
           NEW id, NEW result \in Results,
           FinishDeployment(id, result) \/ UNCHANGED deployments,
           \/ UNCHANGED pointerVars
           \/ \E revision : MarkDeploymentActive(revision)
    PROVE  DbInv'
  <1>1. /\ topology_revisions' = topology_revisions
        /\ sqlite_sequence' = sqlite_sequence
        /\ current_revision' = current_revision
        /\ sip_secrets' = sip_secrets
    BY DEF revisionVars
  <1>2. /\ DOMAIN deployments' = DOMAIN deployments
        /\ deployments' \in [DOMAIN deployments -> [revision : 1 .. MaxRevision, result : Results]]
        /\ \A d \in DOMAIN deployments : deployments'[d].revision = deployments[d].revision
    <2>1. CASE FinishDeployment(id, result)
      BY <2>1, FinishDeploymentTyped DEF DbInv
    <2>2. CASE UNCHANGED deployments
      BY <2>2 DEF DbInv, DbTypeOK
    <2> QED
      BY <2>1, <2>2
  <1>3. /\ {active_revision', last_good_revision'} \subseteq {NoRevision} \cup DOMAIN topology_revisions
        /\ active_revision' \in 0 .. MaxRevision
        /\ last_good_revision' \in 0 .. MaxRevision
    <2>1. DOMAIN topology_revisions \subseteq 0 .. MaxRevision
      BY StoreAssumption DEF DbInv, DbTypeOK
    <2>2. CASE UNCHANGED pointerVars
      BY <2>2 DEF pointerVars, DbInv, DbTypeOK, PointersExist
    <2>3. CASE \E revision : MarkDeploymentActive(revision)
      BY <2>1, <2>3 DEF MarkDeploymentActive
    <2> QED
      BY <2>2, <2>3
  <1> QED
    BY <1>1, <1>2, <1>3 DEF DbInv, DbTypeOK, PointersExist, SecretsMatchCurrent, CurrentTopology

\* A step that adds the row of a new deployment of an existing revision.
LEMMA CreateDeploymentInv ==
    ASSUME DbInv, UNCHANGED revisionVars, UNCHANGED pointerVars,
           NEW id \in DeploymentIds, NEW revision \in DOMAIN topology_revisions,
           CreateDeployment(id, revision)
    PROVE  DbInv'
  <1>1. revision \in 1 .. MaxRevision
    BY StoreAssumption DEF DbInv, DbTypeOK
  <1>2. /\ DOMAIN deployments' = DOMAIN deployments \cup {id}
        /\ deployments' \in [DOMAIN deployments \cup {id} -> [revision : 1 .. MaxRevision, result : Results]]
        /\ \A d \in DOMAIN deployments \cup {id} :
             deployments'[d] = IF d = id THEN [revision |-> revision, result |-> "started"]
                                         ELSE deployments[d]
    BY <1>1 DEF CreateDeployment, DeploymentsWith, DbInv, DbTypeOK, Results
  <1>3. \A d \in DOMAIN deployments' : deployments'[d].revision \in DOMAIN topology_revisions
    BY <1>2 DEF DbInv, PointersExist
  <1> QED
    BY <1>2, <1>3 DEF revisionVars, pointerVars, DbInv, DbTypeOK, PointersExist,
                      SecretsMatchCurrent, CurrentTopology

\* A save that adds the row of a deployment of the revision it creates.
LEMMA SaveAndCreateInv ==
    ASSUME DbInv, NEW design \in Design, NEW expected,
           SaveRevision(design, expected, {}), UNCHANGED pointerVars,
           NEW id \in DeploymentIds,
           deployments' = DeploymentsWith(RetainedDeployments(DOMAIN topology_revisions'),
                                          id, current_revision')
    PROVE  DbInv' /\ HistoryExtended
  <1> DEFINE rows == RetainedDeployments(DOMAIN topology_revisions')
  <1>1. /\ HistoryExtended
        /\ DOMAIN topology_revisions' \subseteq 1 .. sqlite_sequence'
        /\ topology_revisions' \in [DOMAIN topology_revisions' -> Topology]
        /\ sip_secrets' \subseteq Extensions
        /\ topology_revisions'[current_revision'].configured = sip_secrets'
    BY SaveRevisionExtends
  <1>2. /\ DOMAIN rows \subseteq DOMAIN deployments
        /\ \A d \in DOMAIN rows : rows[d].revision \in DOMAIN topology_revisions'
        /\ rows \in [DOMAIN rows -> [revision : 1 .. MaxRevision, result : Results]]
    BY RetainedDeploymentsTyped DEF DbInv
  <1>3. current_revision' \in 1 .. MaxRevision /\ current_revision' \in DOMAIN topology_revisions'
    BY <1>1 DEF HistoryExtended
  <1> HIDE DEF rows
  <1>4. deployments' = [d \in DOMAIN rows \cup {id} |->
            IF d = id THEN [revision |-> current_revision', result |-> "started"] ELSE rows[d]]
    BY DEF DeploymentsWith, rows
  <1>5. /\ DOMAIN deployments' = DOMAIN rows \cup {id}
        /\ deployments' \in [DOMAIN rows \cup {id} -> [revision : 1 .. MaxRevision, result : Results]]
        /\ \A d \in DOMAIN deployments' : deployments'[d].revision \in DOMAIN topology_revisions'
    BY <1>2, <1>3, <1>4 DEF Results
  <1>6. DbTypeOK'
    BY <1>1, <1>2, <1>5 DEF DbInv, DbTypeOK, HistoryExtended, pointerVars
  <1>7. PointersExist'
    BY <1>1, <1>5 DEF PointersExist, HistoryExtended, pointerVars
  <1>8. SecretsMatchCurrent'
    BY <1>1 DEF SecretsMatchCurrent, CurrentTopology
  <1> QED
    BY <1>1, <1>6, <1>7, <1>8 DEF DbInv

LEMMA StutterInv ==
    ASSUME DbInv, UNCHANGED dbVars
    PROVE  DbInv'
  BY DEF dbVars, revisionVars, pointerVars, DbInv, DbTypeOK, PointersExist,
         SecretsMatchCurrent, CurrentTopology

LEMMA InitialDbInv ==
    ASSUME NEW design \in Design, NEW plaintext \in SUBSET Extensions,
           InsertInitialTopology(design, plaintext)
    PROVE  DbInv
  <1> DEFINE first == [exts |-> design.exts, greetings |-> design.greetings,
                       configured |-> plaintext \cap design.exts]
  <1>1. first \in Topology
    BY DEF Design, Topology
  <1>2. /\ topology_revisions = [r \in {1} |-> first]
        /\ sqlite_sequence = 1 /\ current_revision = 1
        /\ active_revision = NoRevision /\ last_good_revision = NoRevision
        /\ sip_secrets = plaintext \cap design.exts
        /\ DOMAIN deployments = {}
    BY DEF InsertInitialTopology
  <1>3. deployments \in [DOMAIN deployments -> [revision : 1 .. MaxRevision, result : Results]]
    BY DEF InsertInitialTopology
  <1>4. DOMAIN topology_revisions = {1} /\ topology_revisions[1] = first
    BY <1>2
  <1>5. 1 \in 1 .. MaxRevision /\ 0 \in 0 .. MaxRevision
    BY StoreAssumption
  <1>6. DbTypeOK
    BY <1>1, <1>2, <1>3, <1>4, <1>5 DEF DbTypeOK, NoRevision
  <1>7. PointersExist
    BY <1>2, <1>4 DEF PointersExist
  <1>8. SecretsMatchCurrent
    BY <1>2, <1>4 DEF SecretsMatchCurrent, CurrentTopology
  <1> QED
    BY <1>6, <1>7, <1>8 DEF DbInv
=============================================================================
