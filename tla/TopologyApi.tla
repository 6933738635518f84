---------------------------- MODULE TopologyApi ----------------------------
(***************************************************************************)
(* The request handlers of backend/src/api/routes/topology.ts and          *)
(* sounds.ts over the store of PbxDatabase: editors that hold an ETag, the *)
(* library of uploaded sounds, and deployments that run in the background  *)
(* of further edits.  Handlers other than deploy run to completion without *)
(* yielding, so each is one step.  What a deployment does in Asterisk is   *)
(* the subject of Deploy; here it has only its calls of the database.      *)
(* Those that record a success are statements of their own, each of which  *)
(* may fail, or be the last before the process dies.                       *)
(***************************************************************************)
EXTENDS PbxDatabase

CONSTANTS
    Clients,        \* browsers and headless clients with a session
    BuiltinPrompt   \* stands for the prompts that ship with Asterisk

ASSUME BuiltinAssumption == BuiltinPrompt \notin Sounds

VARIABLES
    client,   \* what each client loaded last: its ETag and the topology
    library,  \* the WAV files in SOUNDS_DIR
    job       \* deployTopology calls, and how far they have recorded a success

vars == <<dbVars, client, library, job>>

Loaded == [revision : 1 .. MaxRevision, topology : Topology]

\* "marked" is between markDeploymentActive and finishDeployment, "undoing"
\* in the catch block after one of them, or the audit, threw.
Job == [state : {"new", "running", "marked", "undoing", "over"},
        revision : 0 .. MaxRevision,
        activated : BOOLEAN,   \* it has moved the pointers (history)
        disturbed : BOOLEAN]   \* recording that was cut short (history)
Started(r) == [state |-> "running", revision |-> r, activated |-> FALSE, disturbed |-> FALSE]

TypeOK ==
    /\ DbTypeOK
    /\ client \in [Clients -> Loaded]
    /\ library \subseteq Sounds
    /\ job \in [DeploymentIds -> Job]

Init ==
    /\ \E design \in Design, plaintext \in SUBSET Extensions :
            InsertInitialTopology(design, plaintext)
    /\ library \in {files \in SUBSET Sounds : CurrentTopology.greetings \subseteq files}
    /\ client = [c \in Clients |->
            [revision |-> current_revision, topology |-> CurrentTopology]]
    /\ job = [d \in DeploymentIds |-> [Started(NoRevision) EXCEPT !.state = "new"]]

-----------------------------------------------------------------------------
\* validateTopology with the inventory of the moment.
Valid(design) == design.greetings \subseteq library

\* The response carries the new ETag and topology; it may be lost on the way.
Reply(c) ==
    \/ client' = [client EXCEPT ![c] =
            [revision |-> current_revision', topology |-> topology_revisions'[current_revision']]]
    \/ UNCHANGED client

GetTopology(c) ==
    /\ UNCHANGED <<dbVars, library, job>>
    /\ Reply(c)

PutTopology(c, design) ==
    /\ Valid(design)
    /\ SaveTopology(design, client[c].revision, {})
    /\ Reply(c)
    /\ UNCHANGED <<library, job>>

\* A schema-v1 document may carry plaintext passwords, a v2 one may not.
ImportTopology(c, design, plaintext) ==
    /\ Valid(design)
    /\ plaintext \subseteq design.exts
    /\ SaveTopology(design, client[c].revision, plaintext)
    /\ Reply(c)
    /\ UNCHANGED <<library, job>>

ChangeSecret(c, ext) ==
    /\ UpdateSipSecret(ext, client[c].revision)
    /\ Reply(c)
    /\ UNCHANGED <<library, job>>

\* Neither the shape nor the sound inventory is validated again.
RollbackRevision(c, target) ==
    /\ RollbackTopology(target, client[c].revision)
    /\ Reply(c)
    /\ UNCHANGED <<library, job>>

UploadSound(sound) ==
    /\ library' = library \cup {sound}
    /\ UNCHANGED <<dbVars, client, job>>

\* DELETE without a replacement: 409 while the current topology refers to it.
DeleteUnusedSound(sound) ==
    /\ sound \notin CurrentTopology.greetings
    /\ library' = library \ {sound}
    /\ UNCHANGED <<dbVars, client, job>>

\* DELETE with a replacement from the inventory: a new revision first, then
\* the file.  The answer has no topology; the client fetches it.
ReplaceAndDeleteSound(c, sound, replacement) ==
    /\ replacement \in library \cup {BuiltinPrompt}
    /\ replacement # sound
    /\ ReplaceSoundReference(sound, replacement, client[c].revision)
    /\ library' = library \ {sound}
    /\ UNCHANGED <<client, job>>

-----------------------------------------------------------------------------
\* POST /deploy of the current revision, up to the first await.
BeginDeploy(c, d) ==
    /\ job[d].state = "new"
    /\ client[c].revision = current_revision
    /\ Valid(CurrentTopology)
    /\ Materializable(current_revision)
    /\ CreateDeployment(d, current_revision)
    /\ job' = [job EXCEPT ![d] = Started(current_revision)]
    /\ UNCHANGED <<revisionVars, pointerVars, client, library>>

\* POST /deploy with a candidate: it is saved, then deployed.
BeginDeployCandidate(c, d, design) ==
    /\ job[d].state = "new"
    /\ Valid(design)
    /\ SaveRevision(design, client[c].revision, {})
    /\ deployments' = DeploymentsWith(RetainedDeployments(DOMAIN topology_revisions'),
                                      d, current_revision')
    /\ job' = [job EXCEPT ![d] = Started(current_revision')]
    /\ UNCHANGED <<pointerVars, client, library>>

\* The first statement of a success; the next follows without an await.
MarkActive(d) ==
    /\ job[d].state = "running"
    /\ MarkDeploymentActive(job[d].revision)
    /\ job' = [job EXCEPT ![d].state = "marked", ![d].activated = TRUE]
    /\ UNCHANGED <<revisionVars, deployments, client, library>>

RecordSuccess(d) ==
    /\ job[d].state = "marked"
    /\ FinishDeployment(d, "success")
    /\ job' = [job EXCEPT ![d].state = "over"]
    /\ UNCHANGED <<revisionVars, pointerVars, client, library>>

\* Writing the row throws, or the audit behind it: the catch block begins.
RecordThrows(d) ==
    /\ job[d].state = "marked"
    /\ FinishDeployment(d, "success") \/ UNCHANGED deployments
    /\ job' = [job EXCEPT ![d].state = "undoing", ![d].disturbed = TRUE]
    /\ UNCHANGED <<revisionVars, pointerVars, client, library>>

\* The catch block, at its end: the row says what failed, unless that throws.
\* The pointers stay as they are.
DeployFails(d, result) ==
    /\ job[d].state \in {"running", "undoing"}
    /\ FinishDeployment(d, result) \/ UNCHANGED deployments
    /\ job' = [job EXCEPT ![d].state = "over"]
    /\ UNCHANGED <<revisionVars, pointerVars, client, library>>

\* The process dies, between any two statements: what ran is gone, and its
\* row stays as it is.
BackendRestart ==
    /\ \E d \in DeploymentIds : job[d].state \notin {"new", "over"}
    /\ job' = [d \in DeploymentIds |->
            IF job[d].state \in {"new", "over"} THEN job[d]
            ELSE [job[d] EXCEPT !.state = "over", !.disturbed = @ \/ job[d].state = "marked"]]
    /\ UNCHANGED <<dbVars, client, library>>

-----------------------------------------------------------------------------
Edit(c) ==
    \/ GetTopology(c)
    \/ \E design \in Design : PutTopology(c, design)
    \/ \E design \in Design, plaintext \in SUBSET Extensions :
            ImportTopology(c, design, plaintext)
    \/ \E ext \in Extensions : ChangeSecret(c, ext)
    \/ \E target \in 1 .. MaxRevision : RollbackRevision(c, target)
    \/ \E sound \in Sounds, replacement \in Sounds \cup {BuiltinPrompt} :
            ReplaceAndDeleteSound(c, sound, replacement)

SoundFiles == \E sound \in Sounds : UploadSound(sound) \/ DeleteUnusedSound(sound)

Deploying(d) ==
    \/ \E c \in Clients : BeginDeploy(c, d)
    \/ \E c \in Clients, design \in Design : BeginDeployCandidate(c, d, design)
    \/ MarkActive(d)
    \/ \E result \in {"failed", "failed-rolled-back"} : DeployFails(d, result)

\* Node serves nobody else between two statements without an await.
Yielding == \A d \in DeploymentIds : job[d].state # "marked"

Next ==
    \/ /\ Yielding
       /\ \/ \E c \in Clients : Edit(c)
          \/ SoundFiles
          \/ \E d \in DeploymentIds : Deploying(d)
    \/ \E d \in DeploymentIds : RecordSuccess(d) \/ RecordThrows(d)
    \/ BackendRestart

Spec == Init /\ [][Next]_vars

-----------------------------------------------------------------------------
\* An ETag that still matches names the very topology the client loaded, over
\* any history of saves, imports, secret changes, rollbacks, prunes and lost
\* responses: an accepted If-Match overwrites nothing the client has not seen.
EtagNamesContent ==
    \A c \in Clients :
        client[c].revision = current_revision => client[c].topology = CurrentTopology

\* Retention: at most one row beyond the limit, the active revision.
RetentionBound == Cardinality(DOMAIN topology_revisions) <= RevisionLimit + 1

\* The active revision is backed by the log: there is the row of a deployment
\* that made it active, which pruning never takes away, and it says "success"
\* unless recording it was cut short by a death or an error in between.
ActiveIsLogged ==
    active_revision # NoRevision =>
        \E d \in DOMAIN deployments :
            /\ deployments[d].revision = active_revision
            /\ job[d].activated
            /\ \/ deployments[d].result = "success"
               \/ job[d].disturbed \/ job[d].state = "marked"

\* Revision rows never change, and a number is never issued twice.
HistoryImmutable ==
    [][ /\ \A r \in DOMAIN topology_revisions \cap DOMAIN topology_revisions' :
              topology_revisions'[r] = topology_revisions[r]
        /\ \A r \in DOMAIN topology_revisions' \ DOMAIN topology_revisions :
              r > sqlite_sequence ]_vars

\* Deleting a sound file never leaves the current topology with a reference
\* to it, with or without a replacement.
DeletionLeavesNoReference ==
    [][ topology_revisions'[current_revision'].greetings \cap (library \ library') = {} ]_vars
=============================================================================
