# Simple Calls: a TLA+ model

Simple Calls is a small PBX: a browser editor designs a telephone topology, a
Node backend stores it as immutable revisions in SQLite, generates Asterisk
configuration from it and deploys that to a running Asterisk over the manager
interface (AMI). This directory models it, checks the model with TLC on small
instances and proves the most important invariants with TLAPS.

Paths below are relative to the repository.

## Inventory

| Component | State | Operations | Hard behaviour | What makes it correct |
|---|---|---|---|---|
| Topology store, `backend/src/model/database.ts` | revisions, three pointers, SIP secret rows, deployment log, users, sessions, login attempts, audit | synchronous methods, one transaction each | retention pruning against pointers and log; secrets beside the history | pointers exist, history immutable, secrets match the current revision |
| Topology and sound routes, `backend/src/api/routes/` | none of their own | save, import, rollback, secret change, sound upload and deletion, deploy | stale ETags, lost responses, restarts between two statements | an accepted `If-Match` overwrites nothing unseen |
| Deployment, `backend/src/asterisk/deploy.ts`, `asterisk/entrypoint.sh` | links `current` and `last-good`, version directories, one suspended call per request | `deployTopology` | about fifteen awaits without a lock, AMI timeouts, death of either process, rollback | all-or-nothing; only preflighted targets run |
| Preflight worker, `asterisk/preflight-worker.sh` | request and result files | validate a staged directory in a separate Asterisk | deadline against late result, deaths of the worker | a verdict belongs to its request, everybody gets an end |
| AMI client, `backend/src/asterisk/amiClient.ts` | socket, pending actions, receive buffer | connect, send, receive, disconnect | timeout against late answer, loss of the connection | every action is answered once, lists are whole |
| Status service, `backend/src/asterisk/status.ts` | connection state, status map, timers, event keys | connect, heartbeat, poll, snapshot, events, stop | snapshot against events, reconnect races, deduplication | never blind, gets back, shows the truth in the end |
| Sound library, `backend/src/asterisk/sounds.ts` | WAV files | save, list, delete | references from topologies | no dangling reference in the current one |
| Validator, `shared/src/validator.ts`; generator, `backend/src/asterisk/configGenerator.ts` | pure | topology to rules, dialplan, queues, endpoints | names normalised differently, cycles, retry counters | what is accepted is generated once, and calls end |
| Schedule, `shared/src/schedule.ts` | pure | decision for an instant, overlaps | midnight, end of the week, holidays | mirror and dialplan decide alike |
| Authentication, `backend/src/security/auth.ts`, `api/ws.ts`, `cli/bootstrapAdmin.ts` | sessions, attempts, users, open streams | bootstrap, login, logout, user administration, status streams | records read before an await on a password hash | an admin remains, disabled users are out |
| Editor, `frontend/src/` | draft with undo and redo, baseline, revision, requests | edit, undo, save, deploy, roll back, import, secret, sounds | edits while a request is under way, answers that cross | baseline is the revision's, what was shown is deployed |
| Restore, `backend/src/backup/archive.ts`, `cli/restore.ts` | three target trees, staging | verify, populate, roll back | failure of any call, targets in one another | everything or nothing |
| Key rotation, `rotateSecrets`, `cli/rotateMasterKey.ts` | key of every secret row, key of the server | rotate, restart | a server that goes on writing, interruption, lost answer | one key, no lost secret |
| Legacy migration, `initializeTopology` | `topology.json`, its backup, first revision, flag | import at the first start | death between two calls, two processes | imported once, plaintext gone |

How they interact: the editor talks to the routes over HTTP with an ETag; the
routes call the store synchronously and await `deployTopology`; the deployment
writes files, waits for the preflight worker through a directory, drives
Asterisk through the AMI client and records its outcome in the store. The status
service uses the AMI client that `getAmiClient` caches, **the same one as the
deployments**: a heartbeat that fails calls `disconnect` on it and so fails the
actions a deployment is waiting for. It publishes over a WebSocket whose
streams are revalidated against the sessions. Commands for recovery work on the
same database and directories as the server.

`PROJECT.json` lists the hazards at their lines with the properties that cover
them, and why where none does.

## Modules

| Module | Models |
|---|---|
| `PbxDatabase` | the store: one operator per transaction of `database.ts` |
| `TopologyApi` | the handlers of `routes/topology.ts` and `routes/sounds.ts` over the store |
| `Deploy` | `deployTopology`, the links, Asterisk's modules, faults and crashes, over the store |
| `DeployContract` | what `docs/architecture.md` promises of a deployment, in one step each |
| `Preflight` | the file handshake with the preflight worker |
| `AmiClient` | one connection to Asterisk and who waits on it |
| `StatusService` | how the status service keeps a connection |
| `StatusEvents` | what it shows: events, snapshots, deduplication |
| `Validator` | `validateTopology` as predicates on a topology |
| `Dialplan` | what `configGenerator.ts` generates, as definitions and applications |
| `CallFlow` | editor, validator, generator and a caller, composed |
| `Schedule` | windows and holidays: mirror, overlaps, generated ranges |
| `Sessions` | users, logins, sessions, bootstrap, status streams |
| `Editor` | the draft with its history and the requests of `App.tsx` |
| `Restore`, `SecretRotation`, `LegacyMigration` | what an operator does |
| `PbxDatabase_proofs`, `TopologyApi_proofs`, `Deploy_proofs` | theorems about the store, the routes and the deployment |
| `Runtime_proofs` | about `AmiClient`, `StatusService`, `StatusEvents`, `Preflight` |
| `Calls_proofs` | about `Validator`, `Dialplan`, `CallFlow`, `Schedule` |
| `Sessions_proofs`, `Editor_proofs`, `Operations_proofs` | about people and operators |
| `MC*` | small instances for TLC |

### Store, routes and deployment

**`PbxDatabase`.** `topology_revisions` is the function from live revision
numbers to rows, `sqlite_sequence` the last number issued, the three pointers and
`deployments` are the tables of the same names, and `sip_secrets` is the set of
nodes with a row. A topology is reduced to its extension nodes, the custom
sounds its IVRs play, and the extensions with `sipSecret.configured`; other node
kinds, edges and memberships pass through the store untouched. `SaveRevision` is
`saveTopology`: check the expected revision, prepare the secrets, insert, move
`current_revision`, prune. A transaction that throws changes nothing, so it has
no successor state; a foreign key that would break is a guard
(`MarkDeploymentActive`). `MaxRevision` bounds the numbers.

**`TopologyApi`.** Handlers other than deploy contain no await: one action each.
`client[c]` is what a client loaded last; `Reply` delivers the new ETag and
topology or loses it. Clients are not rational: they may save any design over
the ETag they hold. A deployment is only its calls of the database, with other
requests in between. `markDeploymentActive` and `finishDeployment` commit
separately, so `MarkActive` and `RecordSuccess` are two steps: in between nobody
else is served (`Yielding`), but writing the row may throw (`RecordThrows`) and the
process may die (`BackendRestart`). Then `active_revision` names a revision whose
row says `started`, `failed` or `failed-rolled-back`, which the history variables
`job[d].activated` and `disturbed` remember.

**`Deploy`.** `dep[d].pc` names the await the call is suspended at:

| `pc` | waits for | code |
|---|---|---|
| `preflight` | the worker's result | `validateStagedWithAsterisk` |
| `probe` | `core show version` before activation | `deployTopology`, 286 |
| `reload`, `step` | one of the four reloads | `deployReload` |
| `canary` | version, dialplan and canary of the health check | `runtimeHealth` |
| `endpoints` | `PJSIPShowEndpoints` | `runtimeHealth` |
| `rbReload`, `rbCanary`, `rbEndpoints` | the same during a rollback | `deployTopology`, catch |

`runtime[m]` is the target whose file Asterisk's module `m` has loaded. A reload
reads the link at the moment it runs, which need not be the caller's target. It
may answer, answer without effect, be lost, be executed without an answer, or be
executed later (`late`). `AsteriskRestart` loads every module through the link
and breaks the AMI connections; `BackendCrash` ends all running calls, possibly
between any two of the statements by which a success is recorded
(`PartlyRecorded`). The same statements may throw (`CommitThrows`), and so may
putting the link back in the catch block (`RestoreThrows`). Editors save and
change secrets meanwhile.

Abstractions in `Deploy`: the three commands before the endpoint list are one
step, of which the canary is the decisive one; an empty endpoint list counts as
zero endpoints; errors of SQLite and the disk are modelled where a success is
recorded and a link is put back, not for the row of the start or of a failure;
`NoTarget` stands for a missing link and for the configuration Asterisk runs
without one; uploads do not matter here. `docker-compose.yml` configures the
directory of the preflight; what `validateStagedWithAsterisk` does without one is
left out.
The cached AMI client is reduced to whether the connection a call holds survived.
`dep[d].answer` is the result the caller gets; the row of the log says the same
and may be pruned later, so what the properties say of an outcome refers to it.

**`Preflight`.** Time is counted in ticks: whoever has something to do does it
before the next one, as the loops of both sides poll every 100 and 200 ms. The
worker, which is one loop under `set -e`, takes one request after the other,
spends up to `WorkerLimit` ticks and publishes a result that `finally` on the
other side may have stopped waiting for. It dies when a file it copies has just
gone, and only a start of the container brings it back; the backend may die,
leaving its files. The 600 attempts of 0.1 s are taken to end within the
backend's 65 s; a slow host may stretch them, which is the case of a worker that
is late. What the isolated Asterisk makes of a configuration is the set `Good`.

### Between backend and Asterisk

**`AmiClient`.** An action is pending until its response, the completing event
of its list, its timer, or the end of the connection. `Receive` is `onData` and
`handleBlock` for one message: it collects what belongs to a pending action and
drops the rest. `Completes` is the pair `isCompleteEvent`/`isPlainResponse`, by
which an `Error` to a list action does not complete it. Parsing is reduced to
the kind of a message.

**`StatusService`.** The fields of the service are the record `svc`; a method
without an await is a function of it (`ScheduleReconnect`, `HandleDisconnect`),
and each continuation of an await an action. Intervals are numbered, because
`heartbeatTimer` and `pollTimer` are overwritten: `svc.heartbeats` and
`svc.polls` are those still running, known to the fields or not. Calls on a
connection that is gone fail before anything else happens, as microtasks do. A
deployment that makes the connection first, and `start` after `stop`, are left
out: the service is made once per process.

**`StatusEvents`.** One connection delivers events and the two lists of a
snapshot in order; the truth is Asterisk's. Keys are remembered without a time,
so the second registration of a telephone has the key of the first: the model
drops it, as the code does. Of a contact's status the model keeps whether there is
a contact; the pattern of `status.ts:230` would take "Unreachable" for online, but
the generated `qualify_frequency=0` has Asterisk not ask. `Forget` is what is left by the loop that deletes
from the map it iterates. One listener and one refresh per request are modelled, queue metrics
and caller ids are not; 1000 and 900 keys become 3 and 2.

### From the editor to a call

**`Validator`** is the conjunction of what is an error; a warning accepts, which
matters for `Explored`: the cycle search may be cut off at `MaxCycles`. Formats
are reduced to collisions: `Sanitize` says which ids and users become the same
name, which is what both sides do differently. Edges and memberships are sets;
their own ids are not modelled. `PathsFrom` follows the code's order (only nodes
from the start on), so that a cycle that it would miss is missed here; that it
misses none is a theorem (`CycleCheckIsExact`).

**`Dialplan`** reduces the files to definitions, an extension to the
applications it runs. What is not generated is not there: an unconditional edge
of an IVR, which the validator accepts, produces no line.

**`CallFlow`** composes them: a draft grows, is accepted and deployed, and a
caller walks; telephones answer or not, keys, times and hang-ups are open. A
wrong key goes back to the label of the menu (`Retry`), behind the step that
resets the counter. `call.hops` counts the nodes since the last timeout or wrong
key. A loop through timeouts is accepted by the code and by the model:
`NoLoopWithoutExit` says what the check is for and no more, and only as long as
the search was not cut off.

**`Schedule`** has a day of `DayMinutes` and a week of `LastDay`; window, mirror
(`IsScheduleOpen`), overlap test and generated ranges are computed as in the
code, with Asterisk's inclusive end of a range. Time zones are the same question
for both sides and left out.

### People

**`Sessions`.** Every route that hashes a password has a step before and a step
after the await; what was read before is kept in `requests[r]`. Roles other than
admin differ in nothing here. Five failures become one. The rate limit per
address, cookies, CSRF tokens and the audit log are left out, and so is time: a
session may end at any moment, a window of failures may pass.

**`Editor`.** `hist` is `HistoryState`; a request keeps draft and revision of the
render it was started in, which is how the closures of `App.tsx` work. `Serve`
makes the change, `Refuse` does not, and an answer may be lost after the change.
Saving and deploying exclude one another (`busy`); secret changes, rollbacks and
sounds do not. One request of each kind at a time. An upload writes back the node
of the render it was started in. A document is a text, a prompt and the server's
secret flag, which are the three ways in which a draft changes: in place, later,
by the server. Validation, roles, and a reload of the list of revisions between
the steps are left out, the limit of 50 entries becomes 1.

### Operators

**`Restore`** takes the calls of `restoreBackup` one by one; each may fail, and
the failure rolls back what was noted. `entries` is the state of every file in
each target, `mode` the mode of its directory, `found` the modes the inspection
saw before the first write, which a rollback gives back, and `written` the names
the restore has noted, which are what a rollback removes. Targets may lie in the
data directory, as they do by default, and another process may put a file of a
name of its own into any of them. The rollback's own failure and the death of the process are outside
what the documents promise (`docs/operations/MASTER_KEY_RECOVERY.md`, Limits).

**`SecretRotation`** has a row per secret with the key it is under and the value
last written. The rotation reads a snapshot, updates row by row and commits, as
SQLite does in WAL mode: a write after the snapshot makes the first update fail,
a write lock keeps others out after it. Either `writesStopped`, and the operator
follows the procedure of the documents, or a server goes on beside it and may
even be started with a wrong key; each property says for which.

**`LegacyMigration`** has two processes, both of which open the database, deaths
between any two calls and an operator who changes the files while nothing runs.

## Runs

Every run turns off deadlock checking, except `editor_saving`: revisions,
faults, crashes and changes are bounded, so the model stops although the system
would go on. Symmetry is used only where no liveness is checked.

Components that share no state are checked in one run without interleaving them:
the initial state chooses which of them takes all the steps, and the others
rest. The states of such a run are the sum, not the product, of its parts, and
each part has the fairness of its module. `MCCalls`, `MCRuntime` and `MCOperations`
choose among the scenes of their modules, `MCComponents` among these three.

| Run | Result |
|---|---|
| `topology_api` | 1 594 932 states; one extension and one sound, two clients, two deployments that may fail or die between two statements, limit 1 and four revisions: ETags, retention, secrets, log and history hold |
| `deploy_sequential` | 770 870 states; three deployments one after the other, two AMI faults, limit 1, so that the revision of a call under way is pruned: `Deploy` implements `DeployContract`; the runtime serves the link after everything but a failed rollback |
| `deploy_overlapping` | 335 316 states, fair; two deployments at once from a system without a link, limit 1, one fault of Asterisk, SQLite, the disk or a process: only preflighted targets are linked or loaded, and every deployment ends |
| `components` | 633 238 states, each part fair as below |
| – calls | *names*: two nodes out of everything that can collide, one edge and one membership; *walk*: three mixes of three nodes (two menus and a telephone; a queue, a schedule and a telephone; a telephone, a ring group and voicemail) with up to three edges; *hours*: up to two windows in a week of three days of three minutes, with a holiday |
| – runtime | *client*: a ping and two lists; *service*: four pairs of intervals, two faults; *events*: one telephone, a call, five changes; *preflight*: two deployments, one of them bad, two deaths |
| – operations | *rotation*: two secrets, three keys, two writes each and two interruptions; *restore*: every layout of the targets, two runs; *migration*: two processes, two deaths, two edits of the files |
| `people` | 1 016 134 states; *sessions*: two users, two requests at once, two changes of users; *editor*, three times: saving and replacing, deploying and changing secrets, each with sounds and one revision more than the first, and changing secrets and replacing with two more, so that requests that both succeeded are answered in either order; each with edits, undo, uploads and another editor |
| `overlap_active` | violated: two deployments that overlap leave `active_revision` at the other one's revision |
| `first_rollback` | violated: a complete rollback of the first deployment is recorded as `failed`, because the current revision is compared with the bootstrap target |
| `unverified_restored` | violated: after a death between activation and verification, the next deployment that fails puts back the target nobody verified |
| `schedule_midnight` | violated: a window that ends at 00:00 opens the whole following day |
| `status_healthy` | violated: a poll of an earlier connection, whose interval nobody holds any more, drops the healthy one |
| `wrong_key_start` | violated: the server starts with a key that reads none of its secrets |
| `editor_saving` | violated: what is typed while a save is under way is replaced by its answer, and no undo brings it back |

The violated properties say what a document or a comment of the repository says;
`PROJECT.json` quotes it under `findings`.

**Why the bounds are enough.** The hazards are between actors and versions, not
between many of a kind. One extension and one sound are there or not; a conflict
takes two editors, an overlap two deployments; `MaxRevision` is larger than the
retention limit plus the protected rows, so that pruning happens, and with a limit
of one everything that is kept beside the newest row is kept for a pointer. Two nodes
collide or do not; a cycle that the search could miss, beginning behind its
start, takes three nodes, and so does a loop with an exit. A day of three
minutes has a first, a last and one between; a week of three days has a day that
neither begins nor ends it; the ids of windows are interchangeable, so the first
window has the first. Two faults are needed for a fault during the
recovery from a fault, and four pairs of intervals leave room for attempts that
overlap; that the state is then called degraded has no consequence. Three keys are needed
for a row under neither the old nor the new one. In `Editor` a limit of one entry
makes every push cut the stack; the selections of operations put together those
whose answers may cross. Larger instances of the calls (four edges) and of the
editor's history were checked while the modules were written and showed nothing
else; they take too long to keep.

The refinement maps the contract's `serving` to the link, except while a call is
between activation and its outcome, when it is the target the call would put
back. It holds for deployments that do not overlap, a backend that does not die
and a database and disk that do not fail; `overlap_active`, `unverified_restored`
and the observations below show what happens otherwise.

## Fairness

- `Deploy`: weak fairness of each call's own progress, none of faults, late
  reloads or editors. Every await has a deadline: 65 seconds for the preflight
  (`ASTERISK_PREFLIGHT_TIMEOUT_MS`), five seconds for an AMI action, the socket's
  own error for a lost connection.
- `AmiClient`: none. Only safety is checked; that whoever waits has a timer that
  still runs is `WaitingIsPending`, and Node runs its timers off.
- `StatusService`: the reconnect timer runs off, `getAmiClient` answers one way
  or the other (it has a timer), calls on a connection that is gone fail.
  `Recovers` speaks of a service with no more faults; heartbeats, polls and
  answers need no fairness for it.
- `StatusEvents`: the poll's interval runs off, Asterisk answers its lists and
  the connection delivers. Changes and pauses are bounded, so that "in the end"
  means something.
- `Preflight`: time passes; the backend's loop polls or gives up; the worker,
  while it lives, goes on. Its restart is not assumed.
- `CallFlow`: Asterisk executes the next step. Nobody has to hang up or answer.
- `Sessions`: the interval of an open stream runs off (`ws.ts`).
- `LegacyMigration`: a start goes on, and one that failed is repeated
  (`docker-compose.yml`, `restart: unless-stopped`).

## Theorems

The proofs hold for every value of the constants under the named assumptions of
the modules: `StoreAssumption`, `BuiltinAssumption`, `DeployAssumption`,
`ClientAssumption`, `StatusAssumption`, `EventsAssumption`,
`HandshakeAssumption`, `ValidatorAssumption`, `DialplanAssumption`,
`HoursAssumption`, `SessionsAssumption`, `EditorAssumption`,
`RotationAssumption`, `RestoreAssumption`, `MigrationAssumption`. They say that
limits and bounds are natural numbers, that a stack, a day and a retention limit
have room for something, and that special values are no ordinary ones. TLC
evaluates them on every run that extends their module. A type invariant that is proved, and
`DeletionLeavesNoReference`, `SettledForGood` and the pointers under overlapping
deployments, which are proved too, are not repeated by a run; `TypesOK` of
`components` joins `CallsTypesOK`, `RuntimeTypesOK` and `OperationsTypesOK`, which
are proved one by one.

Every invariant that a passing run checks is proved, and so is every action
property.

### Store and routes: `TopologyApi_proofs` over `PbxDatabase_proofs`

`DbInv` joins types, `PointersExist` and `SecretsMatchCurrent`: a row is
well-formed because it exists, and it exists because `Retained` spares it.
`HistoryExtended` says what a save does to the history; each transaction has a
lemma that it preserves `DbInv`, and the modules above only combine these.

- `TypeCorrect`, `PointersAlwaysExist`, `SecretsAlwaysMatch`,
  `HistoryNeverRewritten`, `DeletionIsClean`.
- `EtagAlwaysNamesContent` by `EtagInv`: an ETag is not above `sqlite_sequence`,
  and if the row still exists it is what the client loaded. It needs that numbers
  are never issued twice.
- `ActiveIsAlwaysLogged` by `LogInv`, which ties rows of the log to the calls that
  own them: a call that has moved the pointers has a row of its revision, and that
  row says `success` unless the call was between the two statements when it died or
  an error came. That the row still exists is the work of pruning, which spares the
  log of the revisions it keeps.
- `HistoryIsBounded`: the rows that pruning keeps for their age are counted by an
  injection into the numbers below the limit (`NewestBound`); the rows kept for a
  pointer are one more than the limit and not two because `active_revision` and
  `last_good_revision` are always set together (`PointersTogether`), which is the
  strengthening the bound needs.

### Deployment: `Deploy_proofs`

- `DeployTypeCorrect`, `DeployPointersExist`, and `OnlyPreflightedEverActive` by
  `PassInv`: a call past the preflight was accepted, and so was whatever it would
  put back, because every target a step uses comes from `AcceptedTargets`.
- `DialplanIsTheLinks` and `DeploymentIsAllOrNothing` (the refinement of
  `DeployContract`) assume `Sequential`: one call at a time, no crash of the
  backend, no error of SQLite or the disk, and any number of AMI faults, restarts of Asterisk,
  edits and deployments. `SeqInv` says where the link is at each place of the only
  call under way; `CallStep` puts into one formula what that call can do to the
  rest, and each of its steps is either a step of the contract or invisible.
  `ServedInv` follows the dialplan through the checks: it is the link's as soon as
  a canary was seen, and stays so until somebody reloads after another link. The
  assumption is the one of the run `deploy_sequential`; without it the property
  is false (`overlap_active`).

### Between backend and Asterisk: `Runtime_proofs`

- `ClientTypeCorrect`, `NobodyForgotten`, `ResultsAreFinal` by `ClientInv`, which
  adds that nothing was sent before `connect`: a caller waits exactly as long as
  its action is pending, so a late answer finds nobody. `ListsNeverInPart` by
  `ListsInv`: what was collected for a list and what the wire still has of it are,
  put together, the whole answer in order (`InOrder`, `Complete`).
- `NeverBlind` and `ServiceTypeCorrect`. The first is inductive with the shapes of
  the fields; the work is that removing one refresh from the list keeps the others
  (`RemoveKeepsOthers`), so that an attempt is not forgotten.
- `EventsTypeCorrect` by `QueuesAreLed`: a list of queues on the wire or under way
  has its list of endpoints before it.
- `VerdictIsOwn` by `HandshakeInv`: a result "ok" is there only for a good
  candidate, the worker is busy only with a request that was published, and it
  removes a request somebody waits for only when its result is there.
- `RuntimeTypeCorrect` for the composition.

### From the editor to a call: `Calls_proofs`

`Sound` is an accepted topology, however it was drawn. Lemmas say what acceptance
gives (`SoundNames`, `FoundById`, `SoundGroups`, ...), what is generated
(`Generated`, `Contexts`), and that every definition `Fits`: its steps refer to
what is defined, a step that continues has a successor, a menu stands in the
context of an IVR.

- `NamesAlwaysUnique`: extensions of different kinds have different contexts,
  those of one kind differ by what the validator made injective.
- `ReferencesAlwaysResolve`, from `AllFit`.
- `CallsTypeCorrect`, which says too that a call never runs off the end of an
  extension, by `CallsInv`: there are either no files or those of an accepted
  topology, and a call is at a step of them.
- `CycleCheckIsExact`: in a topology whose nodes have different ids and whose edges
  have both their ends, every cycle that `findUnsafeCycles` looks at has an exit if
  and only if every loop of edges has one. The check looks at few: it starts at
  each node, goes only to nodes from that one on and meets none twice.
- `NoEndlessLoop`, from the exactness of the check and `HopsInv`.
- `PreviewIsTheDialplan`: window by window (`RangesAreTheWindow`), where the week
  as a circle (`Week`) carries the part after midnight.
- `OverlapIsAlwaysExact`: a segment covers the minutes at which its window is open
  (`SegmentsAreTheWindow`), and segments that overlap share the later of their
  first minutes; segments of no length, of a window that ends at midnight, overlap
  nothing.

The last two are about the specification of `Schedule`, `CycleCheckIsExact` is
about topologies and the others are about the specification of `CallFlow`, with
any number of nodes and windows; what the run `components` checks is a part of them.

**How the cycle check is proved exact.** A `Route` is a sequence of edges each of
which starts where the one before it ends; a `Loop` comes back to its start, a
`Round` does and passes no node twice.

1. A shortest piece of a loop that comes back to its start is a round
   (`TurningBack`); without an exit in the loop there is none in the round.
2. A round can be turned so that it starts at the lowest of its nodes, which is
   where the walk would find it (`RoundFromLowest`).
3. The walk from that node finds it (`RoundsAreFound`), and finds nothing else
   (`FoundAreRounds`). Both go by the length of the path: `PathsByLength` says that
   the paths of length k + 1 are those of length k with one edge more.

The second direction costs the check nothing and makes it exact: it never refuses
a call flow for a cycle that is not there.

**From the check to the calls.** `HopsInv` is the strengthening: since the last
timeout or wrong key a call has taken a route of edges without either
(`Traced`), one less than its hops, to the node it is at. It is inductive because
every step of an extension belongs to a node (`AllOwned`): what is generated for a
node follows only edges of that node and jumps only within it, and by the
uniqueness of names a call is at one node at a time (`OneOwner`). A route as long
as there are nodes meets one of them twice (`LongRoutesTurnBack`, by counting), and
then it contains a round without an exit, which the check would have refused.

**Induction.** The library's induction theorems take an operator as a parameter,
which the provers cannot instantiate. `LeastNumber` and `Induction` say the same of
sets of numbers: the intervals 0 .. n are ordered by inclusion, which the library
knows to be well-founded. `ExtendsExists` needs this too: the recursive function of
`PathsFrom` is a choice among the functions that satisfy its equation, and there is
one.

### People

- `Sessions_proofs`: `SessionsTypeCorrect`; `AdminAlwaysRemains` by `FromUsers`: a
  waiting request that creates somebody was made by an existing user, so a first
  user is an admin; `DisabledNeverGetsIn`.
- `Editor_proofs`: `EditorTypeCorrect`, `BaselineIsAlwaysRevision`,
  `DeploymentsAreWhatWasShown`, by `AnswersExist`: the revision a request names
  has been made, and revisions do not change. `OneStepBackAlways`: what is pushed
  is what an undo finds, also when the push cuts the stack (`PushedIsLast`), and
  whatever answers a request is seen in it (`RequestsTell`).

### Operators: `Operations_proofs`

- `RotationLosesNoSecret`, `NoMixedKeySet`, `ServerAlwaysReads`,
  `RotationTypeCorrect`, by `Procedure`: each place of the operator's procedure
  says under which key the rows are.
- `FailureLeavesEveryTarget`, `SuccessIsWhole` by `RestoreInv`: `Ours` and `Kept`
  separate what the restore made from what was there, at every call of it, and
  `Populated` says how far it has come.
- `LegacyAlwaysBeatsSeed`, `SourceGoesOnlyAfterCommit` by `OneSource`.
- `OperationsTypeCorrect` for the composition.

### Only model-checked

Liveness (`EveryDeploymentEnds`, `AcyclicCallsEnd`, `Recovers`, `Converges`,
`AllEnd`, `StreamsEnd`, `Migrates`) is out of the prover's reach. The violated
properties are false.

## Observations

Seen while modelling, and kept by no run because no document says otherwise or
another finding says it already:

- A complete rollback is recorded as `failed` when an extension of the last good
  revision has been removed since (the same line as `first_rollback`).
- The link `last-good`, the pointers and the row of the log move one after the
  other; when the process dies or SQLite fails in between, they differ, and
  `active_revision` may name a revision whose deployment is logged as rolled back.
- A rollback to a revision older than the deletion of one of its sounds makes it
  current; the next deployment refuses it.
- Two bootstraps that overlap both make an admin.
- The reconnect delay starts again from the shortest as soon as a login
  succeeds, whatever happens to the snapshot behind it.
- Keys of events expire only when there are more than 1000 of them.
- The preflight worker serves one request after the other, so a deployment
  behind another may reach its deadline without having been looked at.
- Changing a secret under a wrong key, which the start lets through
  (`wrong_key_start`), leaves rows of two keys.
- A migration that dies while copying the backup leaves a partial file, which
  every later start refuses until the operator removes it.

## Not modelled

The audit log is written and listed, and nothing but `verify-recovery` reads it.
That command and the backup command only read; a backup beside a server that writes is a question
about SQLite's backup interface. Rendering, routing of requests, parsing of WAV
files, text layout of the generated files, the options of endpoints and queues,
password hashing and encryption as such are left out: no property here is about
them. Whether a deleted sound is still used by what Asterisk serves is not asked
by the code, and promised by nobody.

## Plan

What is left, in this order:

1. `Deploy` over `AmiClient` and `StatusService`: the shared connection, which a
   failing heartbeat takes from a running deployment.
2. `SoundLibrary`: sounds against the active and the deploying topology.
3. `StatusEvents`: queue metrics, and more than one snapshot at a time.
