------------------------ MODULE TopologyApi_proofs -------------------------
(***************************************************************************)
(* TopologyApi satisfies its invariants for all sets of clients,           *)
(* extensions, sounds and deployment ids, every retention limit and any    *)
(* number of revisions.                                                    *)
(***************************************************************************)
EXTENDS TopologyApi, PbxDatabase_proofs

\* Store and type correctness together are inductive: a response carries the
\* current row, which is a topology because it exists.
IInv == TypeOK /\ PointersExist /\ SecretsMatchCurrent

\* What an ETag stands for, made inductive: no client holds a number that was
\* not issued yet, and a number that is still stored names what was loaded.
EtagInv ==
    \A c \in Clients :
        /\ client[c].revision <= sqlite_sequence
        /\ client[c].revision \in DOMAIN topology_revisions =>
              client[c].topology = topology_revisions[client[c].revision]

-----------------------------------------------------------------------------
LEMMA IInvDb ==
    ASSUME IInv PROVE DbInv
  BY DEF IInv, TypeOK, DbInv

LEMMA IInitHolds == Init => IInv /\ EtagInv
  <1> SUFFICES ASSUME Init PROVE IInv /\ EtagInv
    OBVIOUS
  <1>1. PICK design \in Design, plaintext \in SUBSET Extensions :
            InsertInitialTopology(design, plaintext)
    BY DEF Init
  <1>2. DbInv
    BY <1>1, InitialDbInv
  <1>3. current_revision \in 1 .. MaxRevision /\ CurrentTopology \in Topology
    BY <1>2, CurrentTyped DEF DbInv, DbTypeOK
  <1>4. client \in [Clients -> Loaded] /\ library \subseteq Sounds
    BY <1>3 DEF Init, Loaded
  <1>5. job \in [DeploymentIds -> Job]
    <2>1. Started(NoRevision) \in Job
      BY StoreAssumption DEF Job, Started, NoRevision
    <2>2. [Started(NoRevision) EXCEPT !.state = "new"] \in Job
      BY <2>1 DEF Job
    <2> QED
      BY <2>2 DEF Init
  <1>6. IInv
    BY <1>2, <1>4, <1>5 DEF DbInv, IInv, TypeOK
  <1>7. sqlite_sequence = 1 /\ current_revision = 1
    BY <1>1 DEF InsertInitialTopology
  <1>8. EtagInv
    BY <1>7 DEF EtagInv, Init, CurrentTopology
  <1> QED
    BY <1>6, <1>8

-----------------------------------------------------------------------------
\* What every step does to the store and to the clients: it extends the
\* history by one revision or leaves it, and at most one client receives the
\* current revision.
StoreStep == DbInv' /\ (HistoryExtended \/ UNCHANGED revisionVars)
ClientStep == UNCHANGED client \/ \E c \in Clients : Reply(c)

LEMMA EditStep ==
    ASSUME IInv, NEW c \in Clients, Edit(c)
    PROVE  StoreStep /\ ClientStep /\ UNCHANGED job
  <1> USE DEF StoreStep, ClientStep
  <1>0. DbInv /\ {} \in SUBSET Extensions
    BY IInvDb
  <1>1. CASE GetTopology(c)
    BY <1>0, <1>1, StutterInv DEF GetTopology, dbVars
  <1>2. ASSUME NEW design \in Design, PutTopology(c, design)
        PROVE  StoreStep /\ ClientStep /\ UNCHANGED job
    BY <1>0, <1>2, SaveTopologyInv DEF PutTopology
  <1>3. ASSUME NEW design \in Design, NEW plaintext \in SUBSET Extensions,
               ImportTopology(c, design, plaintext)
        PROVE  StoreStep /\ ClientStep /\ UNCHANGED job
    BY <1>0, <1>3, SaveTopologyInv DEF ImportTopology
  <1>4. ASSUME NEW ext \in Extensions, ChangeSecret(c, ext)
        PROVE  StoreStep /\ ClientStep /\ UNCHANGED job
    BY <1>0, <1>4, UpdateSipSecretInv DEF ChangeSecret
  <1>5. ASSUME NEW target \in 1 .. MaxRevision, RollbackRevision(c, target)
        PROVE  StoreStep /\ ClientStep /\ UNCHANGED job
    BY <1>0, <1>5, RollbackTopologyInv DEF RollbackRevision
  <1>6. ASSUME NEW sound \in Sounds, NEW replacement \in Sounds \cup {BuiltinPrompt},
               ReplaceAndDeleteSound(c, sound, replacement)
        PROVE  StoreStep /\ ClientStep /\ UNCHANGED job
    BY <1>0, <1>6, ReplaceSoundReferenceInv DEF ReplaceAndDeleteSound
  <1> QED
    BY <1>1, <1>2, <1>3, <1>4, <1>5, <1>6 DEF Edit

LEMMA DeployingStep ==
    ASSUME IInv, NEW d \in DeploymentIds, Deploying(d)
    PROVE  StoreStep /\ UNCHANGED client /\ job' \in [DeploymentIds -> Job]
  <1> USE DEF StoreStep
  <1>0. DbInv /\ job \in [DeploymentIds -> Job]
    BY IInvDb DEF IInv, TypeOK
  <1>1. ASSUME NEW c \in Clients, BeginDeploy(c, d)
        PROVE  StoreStep /\ UNCHANGED client /\ job' \in [DeploymentIds -> Job]
    <2>1. current_revision \in DOMAIN topology_revisions /\ current_revision \in 0 .. MaxRevision
      BY <1>0 DEF DbInv, PointersExist, DbTypeOK
    <2>2. UNCHANGED revisionVars /\ UNCHANGED pointerVars /\ CreateDeployment(d, current_revision)
      BY <1>1 DEF BeginDeploy
    <2>3. DbInv'
      BY <1>0, <2>1, <2>2, CreateDeploymentInv
    <2>4. job' \in [DeploymentIds -> Job] /\ UNCHANGED client
      BY <1>0, <1>1, <2>1 DEF BeginDeploy, Job, Started
    <2> QED
      BY <2>2, <2>3, <2>4
  <1>2. ASSUME NEW c \in Clients, NEW design \in Design, BeginDeployCandidate(c, d, design)
        PROVE  StoreStep /\ UNCHANGED client /\ job' \in [DeploymentIds -> Job]
    <2>1. DbInv' /\ HistoryExtended
      BY <1>0, <1>2, SaveAndCreateInv DEF BeginDeployCandidate
    <2>2. current_revision' \in 0 .. MaxRevision
      BY <2>1 DEF DbInv, DbTypeOK
    <2>3. job' \in [DeploymentIds -> Job] /\ UNCHANGED client
      BY <1>0, <1>2, <2>2 DEF BeginDeployCandidate, Job, Started
    <2> QED
      BY <2>1, <2>3
  <1>3. CASE MarkActive(d)
    <2>1. DbInv'
      BY <1>0, <1>3, LogStepInv DEF MarkActive, Results
    <2>2. job' \in [DeploymentIds -> Job] /\ UNCHANGED client /\ UNCHANGED revisionVars
      BY <1>0, <1>3 DEF MarkActive, Job
    <2> QED
      BY <2>1, <2>2
  <1>4. ASSUME NEW result \in {"failed", "failed-rolled-back"}, DeployFails(d, result)
        PROVE  StoreStep /\ UNCHANGED client /\ job' \in [DeploymentIds -> Job]
    <2>1. DbInv'
      BY <1>0, <1>4, LogStepInv DEF DeployFails, Results
    <2>2. job' \in [DeploymentIds -> Job] /\ UNCHANGED client /\ UNCHANGED revisionVars
      BY <1>0, <1>4 DEF DeployFails, Job
    <2> QED
      BY <2>1, <2>2
  <1> QED
    BY <1>1, <1>2, <1>3, <1>4 DEF Deploying

LEMMA RecordingStep ==
    ASSUME IInv, NEW d \in DeploymentIds, RecordSuccess(d) \/ RecordThrows(d)
    PROVE  StoreStep /\ UNCHANGED client /\ job' \in [DeploymentIds -> Job]
  <1>1. DbInv /\ job \in [DeploymentIds -> Job]
    BY IInvDb DEF IInv, TypeOK
  <1>2. DbInv'
    BY <1>1, LogStepInv DEF RecordSuccess, RecordThrows, Results
  <1>3. job' \in [DeploymentIds -> Job] /\ UNCHANGED client /\ UNCHANGED revisionVars
    BY <1>1 DEF RecordSuccess, RecordThrows, Job
  <1> QED
    BY <1>2, <1>3 DEF StoreStep

LEMMA LibraryStep ==
    ASSUME IInv, [Next]_vars
    PROVE  library' \subseteq Sounds
  <1>1. library \subseteq Sounds
    BY DEF IInv, TypeOK
  <1> QED
    BY <1>1 DEF Next, vars, Edit, SoundFiles, Deploying, GetTopology, PutTopology,
                ImportTopology, ChangeSecret, RollbackRevision, ReplaceAndDeleteSound,
                UploadSound, DeleteUnusedSound, BeginDeploy, BeginDeployCandidate,
                MarkActive, DeployFails, RecordSuccess, RecordThrows, BackendRestart

LEMMA StepShape ==
    ASSUME IInv, [Next]_vars
    PROVE  StoreStep /\ ClientStep /\ job' \in [DeploymentIds -> Job]
  <1>0. DbInv /\ job \in [DeploymentIds -> Job]
    BY IInvDb DEF IInv, TypeOK
  <1>1. ASSUME NEW c \in Clients, Edit(c)
        PROVE  StoreStep /\ ClientStep /\ job' \in [DeploymentIds -> Job]
    BY <1>0, <1>1, EditStep
  <1>2. CASE SoundFiles
    BY <1>0, <1>2, StutterInv
       DEF SoundFiles, UploadSound, DeleteUnusedSound, StoreStep, ClientStep, dbVars
  <1>3. ASSUME NEW d \in DeploymentIds, Deploying(d)
        PROVE  StoreStep /\ ClientStep /\ job' \in [DeploymentIds -> Job]
    BY <1>3, DeployingStep DEF ClientStep
  <1>6. ASSUME NEW d \in DeploymentIds, RecordSuccess(d) \/ RecordThrows(d)
        PROVE  StoreStep /\ ClientStep /\ job' \in [DeploymentIds -> Job]
    BY <1>6, RecordingStep DEF ClientStep
  <1>4. CASE BackendRestart
    <2>1. StoreStep /\ ClientStep
      BY <1>0, <1>4, StutterInv DEF BackendRestart, StoreStep, ClientStep, dbVars
    <2>2. job' \in [DeploymentIds -> Job]
      BY <1>0, <1>4 DEF BackendRestart, Job
    <2> QED
      BY <2>1, <2>2
  <1>5. CASE UNCHANGED vars
    BY <1>0, <1>5, StutterInv DEF vars, StoreStep, ClientStep, dbVars
  <1> QED
    BY <1>1, <1>2, <1>3, <1>4, <1>5, <1>6 DEF Next

-----------------------------------------------------------------------------
LEMMA IInvPreserved == IInv /\ [Next]_vars => IInv'
  <1> SUFFICES ASSUME IInv, [Next]_vars PROVE IInv'
    OBVIOUS
  <1>1. StoreStep /\ ClientStep /\ job' \in [DeploymentIds -> Job] /\ library' \subseteq Sounds
    BY StepShape, LibraryStep
  <1>2. DbInv'
    BY <1>1 DEF StoreStep
  <1>3. current_revision' \in 1 .. MaxRevision /\ topology_revisions'[current_revision'] \in Topology
    BY <1>2 DEF DbInv, DbTypeOK, PointersExist
  <1>4. client \in [Clients -> Loaded]
    BY DEF IInv, TypeOK
  <1>5. client' \in [Clients -> Loaded]
    BY <1>1, <1>3, <1>4 DEF ClientStep, Reply, Loaded
  <1> QED
    BY <1>1, <1>2, <1>5 DEF DbInv, IInv, TypeOK

LEMMA EtagInvPreserved == IInv /\ EtagInv /\ [Next]_vars => EtagInv'
  <1> SUFFICES ASSUME IInv, EtagInv, [Next]_vars, NEW c \in Clients
               PROVE  /\ client'[c].revision <= sqlite_sequence'
                      /\ client'[c].revision \in DOMAIN topology_revisions' =>
                            client'[c].topology = topology_revisions'[client'[c].revision]
    BY DEF EtagInv
  <1>1. StoreStep /\ ClientStep
    BY StepShape
  <1>2. /\ client \in [Clients -> Loaded]
        /\ client[c].revision \in Nat
        /\ sqlite_sequence \in Nat
    BY DEF IInv, TypeOK, DbTypeOK, Loaded
  <1>3. current_revision' <= sqlite_sequence'
    BY <1>1 DEF StoreStep, DbInv, DbTypeOK, PointersExist
  <1>4. CASE client'[c] = [revision |-> current_revision',
                           topology |-> topology_revisions'[current_revision']]
    BY <1>3, <1>4
  <1>5. CASE client'[c] = client[c]
    <2>1. CASE UNCHANGED revisionVars
      BY <1>5, <2>1 DEF EtagInv, revisionVars
    <2>2. CASE HistoryExtended
      <3>1. client[c].revision <= sqlite_sequence
        BY DEF EtagInv
      <3>2. client[c].revision <= sqlite_sequence' /\ client[c].revision # current_revision'
        BY <1>2, <2>2, <3>1 DEF HistoryExtended
      <3> QED
        BY <1>5, <2>2, <3>2 DEF EtagInv, HistoryExtended
    <2> QED
      BY <1>1, <2>1, <2>2 DEF StoreStep
  <1>6. client'[c] = client[c] \/ client'[c] = [revision |-> current_revision',
                                                topology |-> topology_revisions'[current_revision']]
    BY <1>1, <1>2 DEF ClientStep, Reply
  <1> QED
    BY <1>4, <1>5, <1>6

LEMMA IInvAlways == Spec => [](IInv /\ EtagInv)
  <1>1. Init => IInv /\ EtagInv
    BY IInitHolds
  <1>2. (IInv /\ EtagInv) /\ [Next]_vars => (IInv /\ EtagInv)'
    BY IInvPreserved, EtagInvPreserved
  <1> QED
    BY <1>1, <1>2, PTL DEF Spec

-----------------------------------------------------------------------------
\* Every variable keeps its type through every handler of the topology and
\* sound routes.
THEOREM TypeCorrect == Spec => []TypeOK
  <1>1. IInv => TypeOK
    BY DEF IInv
  <1> QED
    BY <1>1, IInvAlways, PTL

\* Pruning, saving and deploying never leave a pointer or a deployment row
\* that refers to a revision that is gone.
THEOREM PointersAlwaysExist == Spec => []PointersExist
  <1>1. IInv => PointersExist
    BY DEF IInv
  <1> QED
    BY <1>1, IInvAlways, PTL

\* The secret rows always match the flags of the current revision, so that
\* the current revision can be materialised and no secret outlives its
\* extension.
THEOREM SecretsAlwaysMatch == Spec => []SecretsMatchCurrent
  <1>1. IInv => SecretsMatchCurrent
    BY DEF IInv
  <1> QED
    BY <1>1, IInvAlways, PTL

\* Optimistic locking is sound: an If-Match that is accepted names exactly
\* the topology its client has seen.
THEOREM EtagAlwaysNamesContent == Spec => []EtagNamesContent
  <1>1. IInv /\ EtagInv => EtagNamesContent
    BY DEF IInv, EtagInv, EtagNamesContent, PointersExist, CurrentTopology
  <1> QED
    BY <1>1, IInvAlways, PTL

\* The history is append-only apart from pruning, and revision numbers are
\* never reused.
THEOREM HistoryNeverRewritten == Spec => HistoryImmutable
  <1> DEFINE A == /\ \A r \in DOMAIN topology_revisions \cap DOMAIN topology_revisions' :
                        topology_revisions'[r] = topology_revisions[r]
                  /\ \A r \in DOMAIN topology_revisions' \ DOMAIN topology_revisions :
                        r > sqlite_sequence
  <1>1. IInv /\ [Next]_vars => [A]_vars
    <2> SUFFICES ASSUME IInv, [Next]_vars PROVE A
      OBVIOUS
    <2>1. HistoryExtended \/ UNCHANGED revisionVars
      BY StepShape DEF StoreStep
    <2>2. DOMAIN topology_revisions \subseteq 1 .. sqlite_sequence /\ sqlite_sequence \in Nat
      BY DEF IInv, TypeOK, DbTypeOK
    <2>3. CASE HistoryExtended
      BY <2>2, <2>3 DEF HistoryExtended
    <2>4. CASE UNCHANGED revisionVars
      BY <2>4 DEF revisionVars
    <2> QED
      BY <2>1, <2>3, <2>4
  <1>2. Spec => [][A]_vars
    BY <1>1, IInvAlways, PTL DEF Spec
  <1> QED
    BY <1>2 DEF HistoryImmutable

\* Neither way of deleting a sound file leaves the current topology with a
\* reference to it.
THEOREM DeletionIsClean == Spec => DeletionLeavesNoReference
  <1> DEFINE A == topology_revisions'[current_revision'].greetings \cap (library \ library') = {}
  <1>1. IInv /\ [Next]_vars => [A]_vars
    <2> SUFFICES ASSUME IInv, Next PROVE A
      BY DEF vars
    <2>1. CASE library \subseteq library'
      BY <2>1
    <2>2. ASSUME NEW sound \in Sounds, DeleteUnusedSound(sound) PROVE A
      BY <2>2 DEF DeleteUnusedSound, dbVars, revisionVars, CurrentTopology
    <2>3. ASSUME NEW c \in Clients, NEW sound \in Sounds,
                 NEW replacement \in Sounds \cup {BuiltinPrompt},
                 ReplaceAndDeleteSound(c, sound, replacement)
          PROVE  A
      <3>1. replacement # sound /\ library' = library \ {sound}
        BY <2>3 DEF ReplaceAndDeleteSound
      <3>2. topology_revisions'[current_revision'].greetings
              = Substitute(CurrentTopology.greetings, sound, replacement)
        <4>1. DbInv /\ ReplaceSoundReference(sound, replacement, client[c].revision)
          BY <2>3, IInvDb DEF ReplaceAndDeleteSound
        <4>2. /\ CurrentTopology.exts \subseteq Extensions
              /\ CurrentTopology.greetings \subseteq Sounds
          BY <4>1, CurrentTyped DEF Topology
        <4>3. Substitute(CurrentTopology.greetings, sound, replacement) \subseteq Sounds
          BY <4>2 DEF Substitute
        <4> QED
          BY <4>1, <4>2, <4>3, ReplaceSoundReferenceInv
             DEF HistoryExtended, ReplaceSoundReference, SaveTopology, SaveRevision, Redacted
      <3> QED
        BY <3>1, <3>2 DEF Substitute
    <2>4. \/ library \subseteq library'
          \/ \E sound \in Sounds : DeleteUnusedSound(sound)
          \/ \E c \in Clients, sound \in Sounds, replacement \in Sounds \cup {BuiltinPrompt} :
                ReplaceAndDeleteSound(c, sound, replacement)
      BY DEF Next, Edit, SoundFiles, Deploying, GetTopology, PutTopology,
             ImportTopology, ChangeSecret, RollbackRevision, UploadSound, BeginDeploy,
             BeginDeployCandidate, MarkActive, DeployFails, RecordSuccess,
             RecordThrows, BackendRestart
    <2> QED
      BY <2>1, <2>2, <2>3, <2>4
  <1>2. Spec => [][A]_vars
    BY <1>1, IInvAlways, PTL DEF Spec
  <1> QED
    BY <1>2 DEF DeletionLeavesNoReference

-----------------------------------------------------------------------------
\* What the deployment log and the calls say of one another: a row belongs to
\* a call that began, a call under way whose revision survived still has its
\* row, and one that may still be logged as failed has not moved the pointers
\* or was disturbed when it had.
LogInv ==
    \A d \in DeploymentIds :
        /\ job[d].revision <= sqlite_sequence
        /\ job[d].state \notin {"new", "over"} /\ job[d].revision \in DOMAIN topology_revisions =>
              d \in DOMAIN deployments
        /\ d \in DOMAIN deployments =>
              job[d].state # "new" /\ deployments[d].revision = job[d].revision
        /\ job[d].state = "running" => ~job[d].activated
        /\ job[d].state = "undoing" => job[d].disturbed

\* A row that backs the active revision, in some version of the log.
Backs(d, row) ==
    /\ row.revision = active_revision
    /\ job[d].activated
    /\ \/ row.result = "success"
       \/ job[d].disturbed \/ job[d].state = "marked"

\* The part of an edit the log notices: rows go with pruned revisions only.
LEMMA EditPrunesLog ==
    ASSUME IInv, NEW c \in Clients, Edit(c)
    PROVE  \/ UNCHANGED <<dbVars, job>>
           \/ /\ HistoryExtended /\ UNCHANGED <<pointerVars, job>>
              /\ deployments' = RetainedDeployments(DOMAIN topology_revisions')
  <1>1. CASE GetTopology(c)
    BY <1>1 DEF GetTopology
  <1>2. CASE ~GetTopology(c)
    <2>1. UNCHANGED job
      BY EditStep
    <2>2. /\ UNCHANGED pointerVars
          /\ deployments' = RetainedDeployments(DOMAIN topology_revisions')
          /\ current_revision' = sqlite_sequence + 1
      BY <1>2 DEF Edit, PutTopology, ImportTopology, ChangeSecret, UpdateSipSecret,
                  RollbackRevision, RollbackTopology, ReplaceAndDeleteSound,
                  ReplaceSoundReference, SaveTopology, SaveRevision
    <2>3. current_revision \in 1 .. sqlite_sequence /\ sqlite_sequence \in Nat
      BY DEF IInv, TypeOK, DbTypeOK, PointersExist
    <2>4. HistoryExtended
      BY <2>2, <2>3, EditStep DEF StoreStep, revisionVars
    <2> QED
      BY <2>1, <2>2, <2>4
  <1> QED
    BY <1>1, <1>2

\* Pruning is harmless to the log: protected rows keep their deployments.
LEMMA PruneKeepsLog ==
    ASSUME IInv, LogInv, ActiveIsLogged, HistoryExtended, UNCHANGED pointerVars,
           NEW rows, rows = RetainedDeployments(DOMAIN topology_revisions')
    PROVE  /\ \A d \in DOMAIN rows : d \in DOMAIN deployments /\ rows[d] = deployments[d]
           /\ \A d \in DeploymentIds :
                job[d].state \notin {"new", "over"}
                /\ job[d].revision \in DOMAIN topology_revisions' => d \in DOMAIN rows
           /\ active_revision # NoRevision => \E d \in DOMAIN rows : Backs(d, rows[d])
  <1>1. DbTypeOK /\ job \in [DeploymentIds -> Job] /\ DOMAIN deployments \subseteq DeploymentIds
    BY DEF IInv, TypeOK, DbTypeOK
  <1>2. /\ DOMAIN rows = {d \in DOMAIN deployments :
                            deployments[d].revision \in DOMAIN topology_revisions'}
        /\ \A d \in DOMAIN rows : rows[d] = deployments[d]
    BY DEF RetainedDeployments, Restrict
  <1>3. ASSUME NEW d \in DeploymentIds,
               job[d].state \notin {"new", "over"},
               job[d].revision \in DOMAIN topology_revisions'
        PROVE  d \in DOMAIN rows
    <2>1. job[d].revision <= sqlite_sequence /\ job[d].revision \in Nat /\ sqlite_sequence \in Nat
      BY <1>1 DEF LogInv, Job, DbTypeOK
    <2>2. job[d].revision # current_revision'
      BY <2>1 DEF HistoryExtended
    <2>3. job[d].revision \in DOMAIN topology_revisions
      BY <1>3, <2>2 DEF HistoryExtended
    <2> QED
      BY <1>2, <1>3, <2>3 DEF LogInv
  <1>4. active_revision # NoRevision => active_revision \in DOMAIN topology_revisions'
    BY DEF HistoryExtended
  <1> QED
    BY <1>2, <1>3, <1>4 DEF ActiveIsLogged, Backs

LEMMA LogInitHolds == Init => LogInv /\ ActiveIsLogged
  BY DEF Init, InsertInitialTopology, LogInv, ActiveIsLogged, Started, NoRevision

\* An edit, alone or before a candidate is deployed: rows go, calls stay.
LEMMA EditKeepsLog ==
    ASSUME IInv, LogInv, ActiveIsLogged, NEW c \in Clients, Edit(c)
    PROVE  LogInv' /\ ActiveIsLogged'
  <1>0. /\ job \in [DeploymentIds -> Job]
        /\ DOMAIN deployments \subseteq DeploymentIds
        /\ sqlite_sequence \in Nat
    BY DEF IInv, TypeOK, DbTypeOK
  <1>1. CASE UNCHANGED <<dbVars, job>>
    BY <1>1 DEF LogInv, ActiveIsLogged, dbVars, revisionVars, pointerVars
  <1>2. CASE /\ HistoryExtended /\ UNCHANGED <<pointerVars, job>>
             /\ deployments' = RetainedDeployments(DOMAIN topology_revisions')
    <2>1. /\ \A d \in DOMAIN deployments' :
                d \in DOMAIN deployments /\ deployments'[d] = deployments[d]
          /\ \A d \in DeploymentIds :
                job[d].state \notin {"new", "over"}
                /\ job[d].revision \in DOMAIN topology_revisions' => d \in DOMAIN deployments'
          /\ active_revision # NoRevision =>
                \E d \in DOMAIN deployments' : Backs(d, deployments'[d])
      BY <1>2, PruneKeepsLog
    <2>2. sqlite_sequence' = sqlite_sequence + 1 /\ job' = job /\ active_revision' = active_revision
      BY <1>2 DEF HistoryExtended, pointerVars
    <2>3. \A d \in DeploymentIds : job[d].revision \in Nat
      BY <1>0 DEF Job
    <2>4. LogInv'
      BY <1>0, <2>1, <2>2, <2>3 DEF LogInv
    <2>5. ActiveIsLogged'
      BY <2>1, <2>2 DEF ActiveIsLogged, Backs
    <2> QED
      BY <2>4, <2>5
  <1> QED
    BY <1>1, <1>2, EditPrunesLog

LEMMA BeginKeepsLog ==
    ASSUME IInv, LogInv, ActiveIsLogged, NEW c \in Clients, NEW d \in DeploymentIds,
           BeginDeploy(c, d)
    PROVE  LogInv' /\ ActiveIsLogged'
  <1>0. /\ job \in [DeploymentIds -> Job]
        /\ DOMAIN deployments \subseteq DeploymentIds
        /\ sqlite_sequence \in Nat
        /\ current_revision \in 1 .. sqlite_sequence
    BY DEF IInv, TypeOK, DbTypeOK, PointersExist
  <1>1. /\ job[d].state = "new"
        /\ deployments' = DeploymentsWith(deployments, d, current_revision)
        /\ job' = [job EXCEPT ![d] = Started(current_revision)]
        /\ UNCHANGED <<topology_revisions, sqlite_sequence, active_revision>>
    BY DEF BeginDeploy, CreateDeployment, revisionVars, pointerVars
  <1>2. d \notin DOMAIN deployments
    BY <1>1 DEF LogInv
  <1>3. /\ DOMAIN deployments' = DOMAIN deployments \cup {d}
        /\ deployments'[d] = [revision |-> current_revision, result |-> "started"]
        /\ \A e \in DOMAIN deployments : deployments'[e] = deployments[e]
    BY <1>1, <1>2 DEF DeploymentsWith
  <1>4. /\ job'[d] = Started(current_revision)
        /\ \A e \in DeploymentIds \ {d} : job'[e] = job[e]
    BY <1>0, <1>1
  <1>5. LogInv'
    BY <1>0, <1>1, <1>3, <1>4 DEF LogInv, Started
  <1>6. ActiveIsLogged'
    BY <1>0, <1>1, <1>2, <1>3, <1>4 DEF ActiveIsLogged
  <1> QED
    BY <1>5, <1>6

LEMMA BeginCandidateKeepsLog ==
    ASSUME IInv, LogInv, ActiveIsLogged, NEW c \in Clients, NEW d \in DeploymentIds,
           NEW design \in Design, BeginDeployCandidate(c, d, design)
    PROVE  LogInv' /\ ActiveIsLogged'
  <1> DEFINE rows == RetainedDeployments(DOMAIN topology_revisions')
  <1>0. /\ DbInv
        /\ job \in [DeploymentIds -> Job]
        /\ DOMAIN deployments \subseteq DeploymentIds
        /\ sqlite_sequence \in Nat
    BY IInvDb DEF IInv, TypeOK, DbTypeOK
  <1>1. /\ job[d].state = "new"
        /\ SaveRevision(design, client[c].revision, {})
        /\ deployments' = DeploymentsWith(rows, d, current_revision')
        /\ job' = [job EXCEPT ![d] = Started(current_revision')]
        /\ UNCHANGED pointerVars
    BY DEF BeginDeployCandidate
  <1>2. HistoryExtended
    BY <1>0, <1>1, SaveAndCreateInv
  <1>3. /\ \A e \in DOMAIN rows : e \in DOMAIN deployments /\ rows[e] = deployments[e]
        /\ \A e \in DeploymentIds :
              job[e].state \notin {"new", "over"}
              /\ job[e].revision \in DOMAIN topology_revisions' => e \in DOMAIN rows
        /\ active_revision # NoRevision => \E e \in DOMAIN rows : Backs(e, rows[e])
    BY <1>1, <1>2, PruneKeepsLog
  <1>4. d \notin DOMAIN rows
    BY <1>1, <1>3 DEF LogInv
  <1> HIDE DEF rows
  <1>5. /\ DOMAIN deployments' = DOMAIN rows \cup {d}
        /\ deployments'[d] = [revision |-> current_revision', result |-> "started"]
        /\ \A e \in DOMAIN rows : deployments'[e] = rows[e]
    BY <1>1, <1>4 DEF DeploymentsWith
  <1>6. /\ job'[d] = Started(current_revision')
        /\ \A e \in DeploymentIds \ {d} : job'[e] = job[e]
    BY <1>0, <1>1
  <1>7. /\ sqlite_sequence' = sqlite_sequence + 1 /\ current_revision' = sqlite_sequence'
        /\ active_revision' = active_revision
    BY <1>1, <1>2 DEF HistoryExtended, pointerVars
  <1>8. \A e \in DeploymentIds : job[e].revision \in Nat
    BY <1>0 DEF Job
  <1>9. LogInv'
    BY <1>0, <1>3, <1>5, <1>6, <1>7, <1>8 DEF LogInv, Started
  <1>10. ActiveIsLogged'
    BY <1>0, <1>3, <1>4, <1>5, <1>6, <1>7 DEF ActiveIsLogged, Backs
  <1> QED
    BY <1>9, <1>10

LEMMA MarkKeepsLog ==
    ASSUME IInv, LogInv, NEW d \in DeploymentIds, MarkActive(d)
    PROVE  LogInv' /\ ActiveIsLogged'
  <1>0. job \in [DeploymentIds -> Job]
    BY DEF IInv, TypeOK
  <1>1. /\ job[d].state = "running"
        /\ job[d].revision \in DOMAIN topology_revisions
        /\ active_revision' = job[d].revision
        /\ UNCHANGED <<topology_revisions, sqlite_sequence, deployments>>
    BY DEF MarkActive, MarkDeploymentActive, revisionVars
  <1>2. /\ job'[d].state = "marked" /\ job'[d].activated
        /\ job'[d].revision = job[d].revision
        /\ \A e \in DeploymentIds \ {d} : job'[e] = job[e]
    BY <1>0 DEF MarkActive, Job
  <1>3. d \in DOMAIN deployments /\ deployments[d].revision = job[d].revision
    BY <1>1 DEF LogInv
  <1>4. LogInv'
    BY <1>1, <1>2, <1>3 DEF LogInv
  <1> QED
    BY <1>1, <1>2, <1>3, <1>4 DEF ActiveIsLogged

\* A call that has moved the pointers gets its success row, or was disturbed.
LEMMA EndKeepsLog ==
    ASSUME IInv, LogInv, ActiveIsLogged, NEW d \in DeploymentIds,
           \/ RecordSuccess(d) \/ RecordThrows(d)
           \/ \E result \in {"failed", "failed-rolled-back"} : DeployFails(d, result)
    PROVE  LogInv' /\ ActiveIsLogged'
  <1>0. /\ DbTypeOK
        /\ job \in [DeploymentIds -> Job]
        /\ DOMAIN deployments \subseteq DeploymentIds
    BY DEF IInv, TypeOK, DbTypeOK
  <1>1. PICK result \in Results : FinishDeployment(d, result) \/ UNCHANGED deployments
    BY DEF RecordSuccess, RecordThrows, DeployFails, Results
  <1>2. /\ DOMAIN deployments' = DOMAIN deployments
        /\ \A e \in DOMAIN deployments :
              /\ deployments'[e].revision = deployments[e].revision
              /\ e # d => deployments'[e].result = deployments[e].result
    BY <1>0, <1>1, FinishDeploymentTyped
  <1>3. UNCHANGED <<topology_revisions, sqlite_sequence, active_revision>>
    BY DEF RecordSuccess, RecordThrows, DeployFails, revisionVars, pointerVars
  <1>4. /\ job[d].state \notin {"new", "over"} /\ job'[d].state \in {"undoing", "over"}
        /\ job'[d].revision = job[d].revision
        /\ job'[d].activated = job[d].activated
        /\ job[d].disturbed => job'[d].disturbed
        /\ job'[d].state = "undoing" => job'[d].disturbed
        /\ \A e \in DeploymentIds \ {d} : job'[e] = job[e]
    BY <1>0 DEF RecordSuccess, RecordThrows, DeployFails, Job
  <1>5. LogInv'
    BY <1>0, <1>2, <1>3, <1>4 DEF LogInv
  <1>6. ASSUME d \in DOMAIN deployments, job[d].activated
        PROVE  deployments'[d].result = "success" \/ job'[d].disturbed
    <2>1. CASE RecordSuccess(d)
      BY <1>0, <1>6, <2>1, FinishDeploymentTyped DEF RecordSuccess, Results
    <2>2. CASE RecordThrows(d)
      BY <1>0, <2>2 DEF RecordThrows, Job
    <2>3. CASE \E failure \in {"failed", "failed-rolled-back"} : DeployFails(d, failure)
      BY <1>4, <1>6, <2>3 DEF DeployFails, LogInv
    <2> QED
      BY <2>1, <2>2, <2>3
  <1> QED
    BY <1>0, <1>2, <1>3, <1>4, <1>5, <1>6 DEF ActiveIsLogged

\* Death between two statements: what was marked is disturbed.
LEMMA RestartKeepsLog ==
    ASSUME IInv, LogInv, ActiveIsLogged, BackendRestart
    PROVE  LogInv' /\ ActiveIsLogged'
  <1>0. /\ job \in [DeploymentIds -> Job]
        /\ DOMAIN deployments \subseteq DeploymentIds
    BY DEF IInv, TypeOK, DbTypeOK
  <1>1. UNCHANGED <<deployments, topology_revisions, sqlite_sequence, active_revision>>
    BY DEF BackendRestart, dbVars, revisionVars, pointerVars
  <1>2. ASSUME NEW d \in DeploymentIds
        PROVE  /\ job'[d].state \in {"new", "over"}
               /\ job'[d].state = "new" => job[d].state = "new"
               /\ job'[d].revision = job[d].revision
               /\ job'[d].activated = job[d].activated
               /\ job[d].disturbed \/ job[d].state = "marked" => job'[d].disturbed
    BY <1>0 DEF BackendRestart, Job
  <1>3. LogInv'
    BY <1>0, <1>1, <1>2 DEF LogInv
  <1>4. ActiveIsLogged'
    BY <1>0, <1>1, <1>2 DEF ActiveIsLogged
  <1> QED
    BY <1>3, <1>4

LEMMA LogInvPreserved ==
    ASSUME IInv, LogInv, ActiveIsLogged, [Next]_vars
    PROVE  LogInv' /\ ActiveIsLogged'
  <1>1. CASE UNCHANGED vars \/ SoundFiles
    BY <1>1 DEF vars, SoundFiles, UploadSound, DeleteUnusedSound, LogInv, ActiveIsLogged,
                dbVars, revisionVars, pointerVars
  <1>2. ASSUME NEW d \in DeploymentIds, Deploying(d)
        PROVE  LogInv' /\ ActiveIsLogged'
    BY <1>2, BeginKeepsLog, BeginCandidateKeepsLog, MarkKeepsLog, EndKeepsLog DEF Deploying
  <1>3. ASSUME NEW d \in DeploymentIds, RecordSuccess(d) \/ RecordThrows(d)
        PROVE  LogInv' /\ ActiveIsLogged'
    BY <1>3, EndKeepsLog
  <1> QED
    BY <1>1, <1>2, <1>3, EditKeepsLog, RestartKeepsLog DEF Next

\* Retention pruning never separates the active revision from the deployment
\* that made it active, whose row says so unless a death or an error came
\* between the statements that record it; nothing else overwrites that row,
\* whatever runs, fails or dies meanwhile.
THEOREM ActiveIsAlwaysLogged == Spec => []ActiveIsLogged
  <1>1. Init => LogInv /\ ActiveIsLogged
    BY LogInitHolds
  <1>2. IInv /\ (LogInv /\ ActiveIsLogged) /\ [Next]_vars => (LogInv /\ ActiveIsLogged)'
    BY LogInvPreserved
  <1> QED
    BY <1>1, <1>2, IInvAlways, PTL DEF Spec

-----------------------------------------------------------------------------
\* Only a successful deployment moves the active pointer, and it moves the
\* last-known-good pointer with it: the two never come apart, which is why
\* pruning has one row to spare beyond the limit and not two.
PointersTogether == active_revision = last_good_revision

\* The history is full at most to the limit and the row pointed at.
BoundInv == PointersTogether /\ RetentionBound

LEMMA PointersStep ==
    ASSUME PointersTogether, [Next]_vars
    PROVE  PointersTogether'
  BY DEF PointersTogether, Next, vars, dbVars, pointerVars, Edit, SoundFiles, Deploying,
         GetTopology, PutTopology, ImportTopology, ChangeSecret, UpdateSipSecret,
         RollbackRevision, RollbackTopology, ReplaceAndDeleteSound, ReplaceSoundReference,
         SaveTopology, UploadSound, DeleteUnusedSound, BeginDeploy, BeginDeployCandidate,
         MarkActive, MarkDeploymentActive, DeployFails, RecordSuccess, RecordThrows,
         BackendRestart

LEMMA BoundInitHolds == Init => BoundInv
  <1> SUFFICES ASSUME Init PROVE BoundInv
    OBVIOUS
  <1>1. DOMAIN topology_revisions = {1} /\ active_revision = last_good_revision
    BY DEF Init, InsertInitialTopology
  <1>2. Cardinality({1}) = 1
    BY FS_Singleton
  <1> QED
    BY <1>1, <1>2, StoreAssumption DEF BoundInv, PointersTogether, RetentionBound

LEMMA BoundPreserved == IInv /\ BoundInv /\ [Next]_vars => BoundInv'
  <1> SUFFICES ASSUME IInv, BoundInv, [Next]_vars PROVE BoundInv'
    OBVIOUS
  <1>1. PointersTogether /\ PointersTogether'
    BY PointersStep DEF BoundInv
  <1>2. CASE UNCHANGED revisionVars
    BY <1>1, <1>2 DEF BoundInv, RetentionBound, revisionVars
  <1>3. CASE HistoryExtended
    <2> DEFINE revisions == DOMAIN topology_revisions \cup {sqlite_sequence'}
    <2>1. /\ DOMAIN topology_revisions \subseteq 1 .. sqlite_sequence
          /\ sqlite_sequence \in Nat
          /\ sqlite_sequence' = sqlite_sequence + 1
      BY <1>3 DEF IInv, TypeOK, DbTypeOK, HistoryExtended
    <2>2. /\ revisions \in SUBSET Nat
          /\ revisions \in SUBSET (1 .. (sqlite_sequence + 1))
          /\ sqlite_sequence' \in revisions
          /\ \A r \in revisions : r <= sqlite_sequence'
      BY <2>1
    <2>3. IsFiniteSet(1 .. (sqlite_sequence + 1))
      BY <2>1, FS_Interval
    <2>4. IsFiniteSet(revisions)
      BY <2>2, <2>3, FS_Subset
    <2>5. Cardinality(Retained(revisions, sqlite_sequence')) <= RevisionLimit + 1
      BY <1>1, <2>2, <2>4, RetainedBound DEF PointersTogether
    <2>6. DOMAIN topology_revisions' = Retained(revisions, sqlite_sequence')
      BY <1>3 DEF HistoryExtended
    <2> QED
      BY <1>1, <2>5, <2>6 DEF BoundInv, RetentionBound
  <1> QED
    BY <1>2, <1>3, StepShape DEF StoreStep

\* The history never grows beyond the retention limit and one row more,
\* however long deployments lag behind the edits.
THEOREM HistoryIsBounded == Spec => []RetentionBound
  <1>1. Init => BoundInv
    BY BoundInitHolds
  <1>2. IInv /\ BoundInv /\ [Next]_vars => BoundInv'
    BY BoundPreserved
  <1>3. BoundInv => RetentionBound
    BY DEF BoundInv
  <1> QED
    BY <1>1, <1>2, <1>3, IInvAlways, PTL DEF Spec

=============================================================================
