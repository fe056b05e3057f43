# VisionQC: specifications, model checking and proofs

VisionQC inspects manufactured parts: an edge gateway beside the camera collects
images, the backend scores them, a policy routes them, people review them, and
nonconforming batches are held in MES and reported in QMS. Beside that runs the
release of the models: an offline pipeline trains and qualifies them, and the
backend lets people approve and activate them. This directory holds TLA+ models
of the parts where steps of several actors meet: requests, the outbox worker,
the gateway's threads, the camera, the command line, the external systems,
crashes and retries. TLC checks them on small instances; TLAPS proves the
central invariants for every instance.

`PROJECT.json` lists every component, every run, the source lines behind every
definition, the hazards of the code with the properties that cover them, and
the disagreements found between the code and its documents.

Running: `tlc -workers 2 -config <Name>.cfg <Module>.tla` for a run (section 3
names the module), `tlapm <Name>Proofs.tla` for a proof module. A passing run takes
from seconds to about two minutes.

## 1. Inventory

### What runs

| Process | Threads or transactions | Shared state |
|---|---|---|
| Backend API (`backend/app/api.py`, one uvicorn process) | one READ COMMITTED transaction per request; sync handlers in a thread pool, `create_inspection` on the event loop; the commit comes *after* the response; `bootstrap_defaults` at every start | PostgreSQL, evidence packages on disk |
| Outbox worker (`worker.py`, `process_one_outbox`) | one transaction per event, with `SELECT ... FOR UPDATE SKIP LOCKED` | PostgreSQL, object store, MES and QMS |
| Edge gateway (`edge_gateway/main.py`) | a background loop (scan, upload, heartbeat), `POST /cycle` and the retry route in other threads | SQLite `queue_items`, watch, spool and archive directories |
| Command line of the ML package (`visionqc_ml/cli.py`) | any number of processes, without locks | dataset directory, run directory, model package, evidence package, the registry's JSON index |
| Camera, clients, MES, QMS | external | - |

Backend ORM sessions use `autoflush=False` and `expire_on_commit=False`: what a
transaction read stays as it was read, and its commit updates the changed
columns by primary key. Only the review task is updated by compare-and-set.

### Components

| Component | State | Operations | Hard behaviour | What makes it correct | Modelled by |
|---|---|---|---|---|---|
| Quality loop (`services.py`, `domain.py`, `connectors.py`) | `inspections`, `review_tasks`, `review_decisions`, `quality_incidents`, `external_actions`, `outbox_events` | create, infer, claim, decide, request action, execute, replay, close | stale reads across commits; worker against replay; a write in MES whose answer is lost | effects only on a manager's decision; one decision; claims exclusive; nothing PENDING forgotten; CLOSED is final | `QualityLoop`, `HumanGate`, `QualityLoopProofs` |
| Outbox worker | `outbox_events` and row locks | poll, handle, commit, roll back | several workers, death with locks held, events that always fail | effects committed once; every event delivered | `OutboxWorkers`, `OutboxWorkersProofs` |
| Intake (`POST /inspections`) | `inspections`, the unique key, the event loop | lookup, insert, answer, commit | two requests between lookup and insert; the commit after the answer; a blocked loop | one inspection per key; the answer fits the request; an answer for everyone | `Intake`, `IntakeProofs` |
| Policy (`policy.py`, `deployment.py`) | the manifest of each pack, the pack an inspection is bound to | activate, bootstrap, parse, bind, resolve, evaluate | another pack between parsing, binding and scoring; a pack rewritten in place; overrides that cross, names that are aliases | accepted means routable; decided by one's own pack and its narrowest rule; a worse image is not treated better | `Policy`, `PolicyProofs` |
| Gateway queue and upload (`queue.py`, `uploader.py`, `runtime.upload_once`) | `queue_items` | enqueue, claim, upload, mark, retry, recover | lost or late answers, restarts, two threads | one inspection per image; no row stuck or held twice | `EdgeQueue`, `EdgeGateway`, `Delivery`, `Edge`, `EdgeGatewayProofs` |
| Gateway watch, gate, spool (`runtime.scan_once`, `quality.py`) | watch directory, the watcher's memory, spool, archive, `queue_items` | stable files, read, judge, spool, enqueue, archive | half-written files, replaced files, crash between spool and row | no image lost; rows true; every queued row spooled | `EdgeIngest`, `EdgeQueue`, `Edge`, `EdgeProofs` |
| Qualification and datasets (`services.py`, `qualification.py`) | `model_qualifications`, `dataset_registrations`, the evidence on disk | register, revoke, create, evaluate, approve, activate, retire, rollback | rows fetched before another request commits; evidence edited between two steps; gates taken from a file that no digest covers; two rows updated by one flush under a unique index | nothing unearned is live; one live model, taken down by its successor in one commit; distinct actors; the lifecycle | `Evidence`, `Release`, `OneLive`, `ReleaseProofs` |
| Deployment packs (`services.py`, `bootstrap.py`) | `deployment_packs` | create, activate, bootstrap | mutual dependence with qualifications in production; three reads with health checks between; the bootstrap, which needs nobody's approval | a pack that a person made live serves a qualified model | `Release`, and their policy in `Policy` |
| ML registry (`ml/.../registry.py`) | one JSON file and its `.partial` | register, evaluate, approve, activate, retire, rollback | processes without a lock on one temporary name; death at any step | what can be read is sound; a crash costs nothing | `Registry`, `MlopsProofs` |
| ML pipeline (`dataset.py`, `training.py`, `calibration.py`, `evaluation.py`, `package.py`, `qualification.py`) | dataset, manifest, run directory, packages | manifest, baseline, its single steps, qualification | hours between the steps; two runs on one directory without a lock; runs killed half-way and reused; packages of a dozen files | what is accepted belongs together; what is written verifies; thresholds are safe | `Pipeline`, `Evidence`, `Calibration` |
| Fleet status (`record_gateway_heartbeat`) | one row per gateway | heartbeat, status | a late heartbeat replaces a newer one | nothing else reads it | not modelled |
| Dataset sources, adapters, auth, storage, audit, API surface, simulator, frontend, migrations, scripts | files; none shared | - | - | - | not modelled or partly, see section 7 |

### How they interact

Camera -> watch directory -> (`EdgeIngest`) -> spool and `queue_items` ->
(`EdgeGateway`) -> HTTP -> (`Intake`) -> `inspections` and an outbox event ->
(`OutboxWorkers`) -> inference with the route of (`Policy`) -> review, incident,
actions (`QualityLoop`) -> MES and QMS. The interfaces between the modules are
the rows: a row that `EdgeIngest` enqueues or rejects is one that `EdgeGateway`'s `Accept` and
`Reject` may add, which `Edge` composes, checks and proves; the committed row of `Intake` is `QualityLoop`'s `CreateInspection` and
`Policy`'s `Create`; an event of `QualityLoop` is one that `OutboxWorkers` orders and
delivers; `QualityLoop` leaves the outcome of the inference free, and `Policy` says which
one it is.

Models take the other road: (`Pipeline`) manifest, training, calibration,
evaluation, package, evidence -> (`Evidence`) what the tool writes and what the
two verifiers accept -> (`Release`) the qualification of the model and the pack
that serves it, each of which asks for the other in production -> the pack that
`Policy` binds inspections to. `Registry` is the ML package's own record of the
same lifecycle; no code connects it with the backend.

## 2. Modules

### QualityLoop
One tenant, one worker (as `infra/docker-compose.yml` starts), any number of
inspections, users and open API requests. A request that reads and later writes
by primary key is two actions, `...Read` and `...Commit`, with what it read kept in
`handler[h]`; the worker's transaction is kept in `worker`. Every commit moves all
that the code moves together: `DecideCommit` records the decision, completes the
task by compare-and-set on the version, moves the inspection and, for a high-risk
choice, creates the incident with its two actions and two outbox events.
`SettleAction` is `_execute_external_action` after the connector call, including the
summary over all actions and the case in which the inspection is not advanced.
`external` is what MES and QMS hold, keyed by the idempotency key; a call may
take effect and its answer be lost. `WorkerRollback` and `HandlerRollback` are a
crash or an exception at any point. REWORK, SCRAP and INVESTIGATE differ from
NONCONFORMING in the ticket's text only and are one choice.

### HumanGate
The abstract specification of authority: an inspection is moved once by the policy or
by a named person, only a manager can move it to disposition, and only there may an
effect occur outside. `QualityLoop` implements it (`ImplementsHumanGate`), with
`phase` computed from the status, `authority` from the decision and `effects` from
`external`.

### OutboxWorkers
Any number of workers and of API transactions that insert events. `stamp` is
`created_at`, the start of the inserting transaction, so an older event may appear
after a younger. The events a poll selects are locked until commit or rollback.
`Poison` events raise always, `Unknown` ones have a type no handler knows (they are
marked FAILED by the code itself); other failures are bounded by `MaxMishaps`.
Each event is inserted by a transaction of its own; two events of one transaction tie in
`created_at`, and which of the two goes first is what two transactions in either order show.

### Intake
One action per step at which another process may intervene: lookup, insert,
acknowledge, commit. `loop[h]` is the handler that occupies the event loop of
process `h`, from its lookup to its return; the commit needs that loop. The
insert waits while another open transaction holds the key, and fails on the unique
constraint once it has committed. `AckedMayAbort` says whether a commit may fail after
the answer; `Die` is the death of a process.

### Policy
The rules of a policy and the catalogs they are looked up by: `Enables` is the catalog's
acceptance of a product and a station, `Resolvable` and `Resolve` the lookup of the most specific
override, `Route` the comparison with the two thresholds. A pack is created with any
manifest that the validators accept, activated after the check of `activate_deployment`, and
the bootstrap's own pack is rewritten in place when a new image brings another manifest of the
same version (`converged` remembers those). A request reads the active pack twice, in
`Parse` and in `Create`; the decision keeps a snapshot of its policy, as the code stores it.

### EdgeQueue, EdgeGateway, Delivery
`EdgeQueue` has one operator per transaction of `queue.py`, from a table to the
next. `EdgeGateway` runs `upload_once` in several threads, composed with
`Intake` as the backend (`INSTANCE Intake WITH Prints <- Keys`: the deterministic key
digests what the fingerprint digests). A request that the gateway gave up on can
still be served, also after a restart of the gateway. `Delivery` is the abstract
promise: a key is held, then detected once, then settled; `EdgeGateway` implements
it.

### EdgeIngest
What becomes of a row after it is written is left to `EdgeGateway`. The camera writes (`BeginWrite`, `EndWrite`); the watcher observes size and mtime
twice with time between (`Age`); `scan_once` is one action per file operation.
A failure of a local operation or a restart may hit any of them. A path may be
written again once its file is gone; the camera does not overwrite a file that
is still there, and finishes or stays visibly torn.

### Edge
`EdgeIngest` and `EdgeGateway` over the one table `queue` (both extend `EdgeQueue`), in the threads and the process
that they share. A thread scans and then uploads at most one item, as `run_cycle` does; a restart hits
the scan and the uploads at once, and `recover_inflight` runs over the rows of both. `Sources` and `Keys` become
what the camera writes and what the deterministic key is made of, so that `AccountedFor` and `EveryImageArrives` can follow an image from
the watch directory to its inspection. `Edge` implements `EdgeGateway` (`ImplementsGateway`: the identity on the variables that it
keeps), and with it `Delivery`.

### Evidence
No state: the record of what an evidence package says. `Checks`, `GateDecision` and `ReportStatus` are the
gates of the ML tool, `Package` is what it writes, `VerifiedByTool` and `VerifiedByBackend` are
the two verifiers, which differ. A digest is the record it covers, so `release-decision.json`, which lies outside the
registered digest, can be edited while the digest stays; `intact` says that the inventory of
files and digests is consistent. The backend's verifier takes the gate decision from the release file if that has one and the
gates from it if the core has none (`GateDecisionOf`, `GatesOf`); a core with neither gates nor a status agrees with a
release file that has no decision (`CoreGates`). The tool writes gates always; such a core is written by hand.

### Release, OneLive
A request on a qualification is three actions: `Fetch` admits it on the row that it
keeps, `Evaluate`, `Approve` or `Promote` reads everything else and decides (`Retire` reads
nothing else and is fetched and decided at once), `Commit` writes the columns that differ from what was fetched. The evidence is read anew
at each of evaluation, approval and activation, and may be another one of `Packages[q]`
each time. A commit updates in primary-key order under a partial unique index:
`Blocking` are the rows that make it fail. The activation of a pack is four: `Deploy` fetches the pack, `FindQualification`
asks for the qualification that production wants, `FindActive`, after the health checks, reads the pack to be retired, and
`CommitDeploy` flushes that one first. A pack that was ACTIVE when it was fetched and is retired before the commit stays
RETIRED, so the tenant can be left without an ACTIVE pack. `Restart` is the bootstrap of an image with a manifest of its own, `FailedRestart` one that
the database refuses. `raced` remembers the qualifications that two requests held at once.
`OneLive` is the promise: a model earns its release for good, at most one earned model is live, the successor takes the old one's
place in one step, and a live model goes down without one only while a request names it (`leaving`). A replacement in two
commits is no behaviour of it: the request that makes it names the successor, not the model it takes down.

### Registry
A process loads the index, changes it in memory (`Drafted`, `Evaluated`, `Reevaluated`, `Approved`, ...), opens and truncates
`<index>.partial`, writes it and renames it. All processes share that name, so the bytes that one
writes may be in the file that another has renamed (`inode`). `overlapped` and `lost` are history.

### Pipeline, Calibration
`Pipeline`: an artifact is the record of what it was made from. Any number of baselines may run on one run directory; each is
one action per check it makes, file it reads back and artifact it leaves (`base[b]` keeps what it has loaded), so that `Check`, that the directory is empty, `Verify`,
that the images are those of the manifest, and `Start`, the first file, are three. Other commands run between any two of them, and a
kill may come at any point; the dataset changes to any content and back. `shared` remembers that two baselines ran at once, `disturbed` that a manifest was
written or a content put back. `QualifyRun` cross-checks what lies
there (`Accepted`) and, like the two commands without a run, writes evidence, whole or cut off. `Calibration`: the two thresholds as functions of the
validation scores; one state per sample, no steps.

### MC modules and proofs
`MC<Name>` extends a module with symmetry sets and small inputs for TLC. `MCIntake`, `MCEdgeGateway` and `MCMlops`
each run two or three modules that share no state from one initial state, one of them moving while the
others rest: their runs check each of them by itself. `MCEdge` bounds the camera's files and the faults of `Edge`.
`<Name>Proofs` extends a module with the theorems. Some definitions carry a faulty variant
right above (`ReplayUnchecked`, `StableAtOnce`, ...), a plausible mistake in that very
code: no specification uses it, it serves to show that a property notices the mistake.

## 3. Runs

| Run | Module | Distinct states | Result |
|---|---|---|---|
| `QualityLoopRaces` | `MCQualityLoop` | 884,954 | Two open requests, the worker with two attempts, crashes anywhere: types, authority, decisions, claims, founded releases and events hold, and so does the refinement of `HumanGate` |
| `QualityLoopOne` | `MCQualityLoop` | 172,743 | One request at a time beside the worker, with a client's own action: statuses have a cause, terminal states stay |
| `QualityLoopRecovery` | `MCQualityLoop` | counterexample | One request is enough, against the worker: all actions succeed and the inspection stays ACTION_FAILED for ever |
| `IntakeRouting` | `MCIntake` | 303,354 | Three requests, two processes, two keys, two fingerprints: one inspection per key, fitting answers, founded conflicts. Two inspections under two packs that are activated or rewritten meanwhile: bound to a pack that enables them, routable, routed by that pack's narrowest rule |
| `IntakeFrozen` | `Intake` | counterexample | Two equal requests stop the API process: the insert of the second waits on the event loop for a commit only that loop can run |
| `PolicyWildcard` | `MCPolicy` | counterexample | With the code `*` in the catalog an activation checks no real station, and an accepted inspection cannot be routed |
| `GatewayOutbox` | `MCEdgeGateway` | 118,753 | Two observations of one image, two upload threads, five requests, three faults: no duplicates, nothing stuck, implements `Delivery`. Two workers, three events (one of unknown type), two mishaps: once-only effects, delivery |
| `EdgeEndToEnd` | `MCEdge` | 132,228 | The whole gateway: the camera writes two files, the loop scans and uploads, `POST /cycle` uploads beside it, a rejected name and a rejected image, two faults of the scan, the upload or the backend: rows true, queued rows spooled, every image accounted for, every file settled, every image uploaded or waiting for a person, implements `EdgeGateway` |
| `OutboxPoison` | `OutboxWorkers` | counterexample | A handler that always raises blocks all later events: its third-attempt FAILED is rolled back |
| `Release` | `MCRelease` | 463,387 | Two overlapping requests of three people on three qualifications and two packs, edited evidence with and without gates in its core, revocation, restarts with two images: nothing unearned is live, one live model that only its successor's commit or a request on itself takes down, packs backed, and without a race distinct people and the lifecycle |
| `ReleaseStuck` | `MCRelease` | counterexample | A production pack is refused although its model has an ACTIVE qualification: a stored public status is compared with the string GO |
| `Mlops` | `MCMlops` | 990,229 | Two processes on the registry's file with deaths; two baselines on one run directory with other commands and kills up to the qualification; every validation sample on a small grid |

The five counterexamples are described, with the sentences of the documents they
contradict, under "findings" in `PROJECT.json`. `StatusHasCause` and `TerminalIsFinal`
hold with one request at a time and fail with two; the passing run and their
theorems say exactly that and do not stand for the other case.

Deadlock checking is off everywhere: every model stops legitimately when all inspections
are closed, all events processed, all requests answered, all files settled, or a bound is reached.
Whether a stop is one of those is asked by the liveness properties where there are any.

In `EdgeEndToEnd` the branches that never happen are those that need a second scanner (a temporary file
or an observation another thread has taken away) or a file name without a date; section 6
says what they do. In `GatewayOutbox` no handler raises always.

### Bounds, and why they are enough
- **QualityLoop**: one inspection. Inspections share no rows: every operation names one,
  and the only shared actor, the worker, takes events in any order. Two users are one
  inspector and one manager, which gives both roles and a race between them. Two handlers give
  every pair of stale read and commit; three would only repeat a pair. `MaxAttempts = 2` has
  a retry after an unanswered call. `MaxEvents` bounds the replays of one action that pile up.
- **Intake**: three requests give a race of two and a latecomer, on two processes; two keys
  and two fingerprints give reuse of a key for another image.
- **Policy**: one product with an alias, another beside it, two stations, six manifests whose overrides nest and cross, two of
  which a restart may find. Scores 0 to 3 with thresholds among them have every order and every equality.
  Two packs are the one that is active and the one that becomes it; two inspections are on both sides of that.
- **EdgeGateway**: one key and two sources (the second becomes a DUPLICATE). Keys do not interact but
  through the order of claims and the event loop; with two keys and one fault the safety invariants hold as
  well, but the bounded supply of requests can run out, which is not a failure of the
  code. With one key the uploads need at most 1 + `MaxAborts` + `MaxFaults` = 5 requests, which is
  what `Requests` has, so `EveryItemSettles` is never decided by the bound.
- **Edge**: two files of the camera (`TwoFiles`) give a name used again, two files in one scan, a row and its DUPLICATE, and an image or a name that is
  rejected beside one that is uploaded. Two faults in all (`TwoFaults`) give a failure during the recovery from the first, in
  the same part or in another; a restart that hits both sides counts for both. One key
  needs at most 1 + 2 = 3 requests, as above. There is one scanner (see section 6): `POST /cycle` uploads only. A bound on faults never
  stops what is fair: beside every local failure the scan's own step is possible, and a request that only a fault could end is one to
  a frozen backend, which the liveness properties except.
- **OutboxWorkers**: three events and two workers give a locked older event, a younger one
  behind it and a late one; two mishaps let a crash follow a failure.
- **Release**: the second and third qualifications are for one model, the first is for the
  model of the first pack; so a replacement has both orders of the primary keys, and a race has a loser. The core of the second has no gates and
  its release file shows gates that passed or gates that failed, whichever lies there when it is read; the third has gates that
  failed and a release file edited to say what an approval asks for. (`ReleaseStuck` has what the tool writes of a model that passed in place of
  the second.) Two requests in
  flight give every pair; they hold one qualification at once at most, in any pair and as often as they like (`OneRaced`; without this
  bound the instance has 1,165,781 states, and the same properties hold in it). Of the three people one has one role, one has three and one is ADMIN, so two of them could do
  everything where the code let them; a request that any of them may make is one step. Two images carry a pack and the
  same version with another model; people submit its successor. An image with a new version, which retires the older pack of the
  bootstrap, is in the module and the proofs and in no run. An edit that loses only the approval is not explored.
- **Registry**: two versions (with and without evidence), two processes, three actors; `MaxOverlap = 1` stops new
  runs after one has completed during another, which is enough to lose an update. Actors are symmetric, as are the splits of the pipeline.
- **Pipeline**: two baselines, two splits, two contents of the dataset, nine artifacts: a baseline makes six with its package and needs a manifest,
  and two are left for a second manifest, calibration or evaluation in between, or for the weights and predictions of the other baseline. Three interventions are a manifest and a
  content that changes and is put back, or a run removed and begun again. A run that was killed leaves its artifacts to more of these.
  Baselines are symmetric.
- **Calibration**: all samples of scores on four grid points, with up to two anomalies and one normal image at each.

### Fairness
Only what the code's own loops justify:
- `OutboxWorkers`: `run_forever` polls until stopped and supervision restarts a dead worker, so each worker is
  weakly fair; an API transaction ends one way or the other.
- `Intake` (only in the liveness run): a request that can be run is run.
- `EdgeGateway`: the background loop claims again and again; a thread that has begun goes on (the HTTP
  client has a timeout); the backend serves or fails a request; a backoff elapses.
- `EdgeIngest`: the background loop scans, time passes.
- `Edge`: both of these. A claim is enabled only between two scans, and each scan ends, so weak fairness is what the loop's
  alternation gives.

Nothing is assumed of people, the camera, the command line, `POST /cycle`, retries by hand, restarts or faults.
`EveryItemSettles` and `EveryImageArrives` name the one state that blocks them: `BackendFrozen`, the deadlock of
`IntakeFrozen`. `EveryFileSettles` excepts it only because the timeouts that let the loop go on are bounded in the model.
In `GatewayOutbox` the fairness of the part at rest asks for nothing: there is no row to upload, or no
event to deliver. `QualityLoop`, `Policy`, `Release`, `Registry` and `Pipeline` have safety and refinement only and
state no fairness: what moves them is people.

## 4. Theorems

Each is proved for every value of the constants, under the named assumptions of the module (constants are
distinct where SQL NULL or a missing key stands beside them, bounds are natural numbers, managers are users, offered policies passed their
validators).

| Theorem | Says |
|---|---|
| `QualityLoopProofs!LoopInvariantHolds` | the inductive invariant |
| `TypeCorrect`, `DecidedOnceHolds`, `ClaimIsExclusiveHolds`, `PendingHasEventHolds` | conjuncts of it |
| `EffectNeedsManagerHolds`, `ReleaseIsFoundedHolds` | consequences of it |
| `StatusHasCauseHolds`, `TerminalIsFinalHolds` | statuses have a cause, terminal ones stay, if at most one API request is open (`OneHandler`) |
| `LoopImplementsHumanGate` | initial states and steps map to `HumanGate` |
| `OutboxWorkersProofs!OutboxInvariantHolds`, `HandledOnceHolds`, `HeldAloneHolds` | once-only effects for any number of workers |
| `IntakeProofs!IntakeInvariantHolds`, `OneInspectionPerKeyHolds`, `AnswerFitsRequestHolds`, `ConflictIsFoundedHolds` | intake for any number of requests, keys and processes |
| `PolicyProofs!PolicySafe`, `PolicyTypes`, `PackAccepts`, `ItsPackDecides`, `NarrowestDecides` | binding and routing for any packs, policies and requests |
| `AcceptedIsDecidable` | routable once accepted, if no code is the wildcard and no override selects an alias (`PlainCatalogs`) |
| `WorseNotLenient` | the route does not fall when the score rises, which no run checks |
| `EdgeGatewayProofs!GatewayInvariantHolds`, `OneInspectionPerKeyHolds`, `UploadingIsHeldOnceHolds`, `DuplicateHasPrimaryHolds` | the gateway's uploads, on top of `IntakeProofs` |
| `UploadedIsDetectedHolds`, `GatewayImplementsDelivery` | the same and the refinement of `Delivery`, if no commit fails after its answer (`~AckedMayAbort`) |
| `EdgeProofs!IngestInvariantHolds`, `NothingLostHolds`, `RowsAreTrueHolds`, `QueuedIsSpooledHolds` | the scan, if the background loop is the only scanner |
| `EdgeInvariantHolds`, `EdgeImplementsGateway`, `UploadsItsImageHolds` | scan and uploads over one table, under the same condition: both inductive invariants at once, each step one of `EdgeGateway`, the right image posted |
| `EdgeImplementsDelivery`, `AccountedForHolds` | if also no commit fails after its answer, the whole gateway with the backend implements `Delivery`, and no delivered image is unaccounted for |
| `ReleaseProofs!ReleaseInvariantHolds`, `ReleaseTypeOK`, `NothingUnearnedIsLive`, `DistinctActors`, `LivePackIsBacked`, `LifecycleHolds` | the release lifecycle for any qualifications, packs, people, overlapping requests and evidence, with or without gates in its core |
| `ReleaseKeepsPromise` | `Release` implements `OneLive` |
| `MlopsProofs!RegistryInvariantHolds`, `ReadableIndexHolds`, `LossNeedsOverlapHolds` | the registry's file for any number of processes |
| `PipelineInvariantHolds`, `PipelineTypeHolds`, `QualifiedIsCoherentHolds` | the artifacts of any number of baselines on one directory among any other commands, for any bounds: thresholds before evaluation always, the packaged weights unless two baselines ran at once, the manifest's data unless also a manifest was written or a content put back |
| `WrittenIsVerifiedHolds` | what a command writes, for any metrics, digests and datasets |
| `ThresholdsAreSafe` | the two thresholds, for any grid, sample, limit, target and margin |
| `MlopsTypeHolds`, `MlopsIsSafe` | all of these for the composed package that the run checks |

**Why the invariants look as they do.**
- `EffectNeedsManager` is not inductive: an effect happens in the worker's
  transaction, long after the decision. `LoopInvariant` carries the decision along: a status in the
  incident part of the graph has a manager's decision (`ReviewMatchesStatus`), an action has an incident
  (`ActionsMatchIncident`), the worker's transaction has an action that still has its event (`WorkerIsCurrent`), and a
  handler's stale read can be wrong about status but not about existence or role (`HandlerIsCurrent`). The
  latter's version clause is what makes the compare-and-set enough for `ClaimIsExclusive`: if the version a
  decider read is still current, so is the assignee it read. `PendingHasEvent` needs that a worker about to drop
  an event of a PENDING action leaves another one behind.
- `OneRequestInvariant`: with one request open, only the worker writes beside it, and only about actions that are PENDING. So what a
  replay or a closure has read cannot change until it commits. The worker's own read can be
  overtaken, by one replay: of another action of a failed inspection, which the replay moves to ACTION_PENDING while the worker
  remembers ACTION_FAILED and will not move it. `WorkerIsTimely` has that case, and that it leaves another action PENDING, which is
  why the status still has a cause. A second request open beside them breaks both properties; `QualityLoopRecovery` shows
  that the one overtaking read does harm even so.
- `OutboxInvariant` needs `HeldAlone` to show `HandledOnce`: a commit is of an event that is still PENDING because its row is locked.
- `IntakeInvariant` adds `WritersAreAlone` (an open writer is alone under its key and before any row),
  `RowsHaveWriters` and `AnswersAreFinal`: a replay can then only name a request that is done.
- `PolicyInvariant` adds what no row says: a pack that is active, or to which an inspection is bound, passed the
  first check of the activation, and only a restart changes its manifest. That the check of the codes is enough for
  every name that is accepted is `PlainCatalogs`.
- `GatewayInvariant`: a row is UPLOADING exactly while one thread holds it, so only its holder marks it; rows keep
  their keys, so an answer that comes late still names the row's image. `DeliveryInvariant` adds that an answer that was sent is committed
  or can no longer fail.
- `IngestInvariant`: a complete file stays at its path until the scan moves it, and the scan moves it only when
  its row is there; so each of the four looks that the scan takes at a path sees one file. The temporary
  file in hand is whole when it is renamed, because nobody else opens one.
- `EdgeInvariant` is the two together, and the proof shows that neither side's steps disturb what the other relies on. The scan only adds rows, so
  the uploads' invariant sees it as `Accept` and `Reject`; an upload changes status, `retryable` and `due` of a row and
  nothing else, so what the scan relies on (`SameRowsKeep`) stays. A restart that finds no upload under way finds no row UPLOADING either
  (`NothingInflight`), so the recovery changes nothing. Only rows with a spool file can be claimed (`Held`), which is why the
  branch SPOOL_MISSING of `upload_once` is no action: it cannot be reached.
- `ReleaseInvariant`: a request commits a copy of a row that may be stale by then. Three things never go back, in
  the row and in every copy: an evaluator, an approver, and the passing of gates that the registered core states (`HasGates`, `Beyond`); and a dataset keeps its source and consent. So any mixture of two
  rows is still evaluated and approved, and passed unless its gates came from the release file: those an evaluation of an edited file can replace after the approval. Such a row never records the decision GO, which is
  why a pack in production is backed by passed gates without exception (`PacksSound`). Who the people were can change under a race, too; a row that no two requests held is the one that was fetched.
- `RegistryInvariant`: whatever processes do to each other's files, each run turns a sound index into a sound one,
  and bytes are such an index or not JSON. Until two overlap, the only process knows what is in the temporary file (`Alone`).
  `StaleBounded` is what the type of `stale` needs: no process starts once one has slept through `MaxOverlap` runs, so only those
  under way can add to it, and each that ends leaves one fewer.
- `PipelineInvariant`: there is no lock, so what a step reads may be of any age, and of another baseline's making. While no two baselines run at once
  (`Single`), `OneModel` says that nothing but a training
  changes the weights of a run directory, so whatever is calibrated or evaluated again, by whom and in which order, goes back to
  them. `SinceBegin` encloses what was read since the baseline began between the dataset that the manifest of its beginning
  describes and that of now, as long as nothing was disturbed; when the qualification hashes the images and finds them to be those of the manifest, the two ends
  meet. That thresholds come before the evaluation that uses them needs neither. `EvidenceSound` is that no command has both the customer as source and metrics.
- The thresholds need no invariant, but four facts: the candidates contain both ends of the scale, so `Max` and
  `Min` are taken of sets that are not empty; fewer anomalies lie below a lower threshold; between two scores that follow each other
  there is a candidate, on a grid on which midpoints are whole; and lowering both thresholds keeps or restores their order.

**Only model-checked**: all liveness (`EveryEventDelivered`, `EveryItemSettles`, `EveryFileSettles`, `EveryImageArrives`), which is outside what the provers
here support. Every invariant and every action property of a passing run is stated by a theorem. The types of `Release`, `Registry`,
`Pipeline` and `Policy`, `NothingLost` and `UploadsItsImage` are proved and in no run: they are part of a stronger property or of the inductive invariant.

## 5. Plan

Done, in the order of what the system is for: `QualityLoop` with `HumanGate`, `OutboxWorkers`, `Intake`,
`EdgeQueue` and `EdgeGateway` with `Delivery`, `EdgeIngest`, `Edge` that composes the two, then `Evidence` and `Release` with `OneLive`, `Registry`, `Pipeline`
and `Calibration`, `Policy`, and the proofs.

Left:
1. `Policy` in `QualityLoop` in place of the free outcome.
2. The heartbeat, if something other than a display begins to read it.

## 6. Limits of the models

What follows was seen with TLC in instances that no run keeps, or is left out on purpose.

- Two scanners: with `Scanners = {loop, cycle}` (a `POST /cycle` during the loop's scan) TLC breaks
  `QueuedIsSpooled` and `RowsAreTrue` in seconds: both threads write one temporary file of the spool, and one
  tidies the observation the other is reading.
- A file name that matches the pack's pattern and whose time is no date (`BadTimes`) ends the background loop with a
  ValueError that nothing catches; `EveryFileSettles` fails then.
- Two open requests on one incident: a replay takes a CLOSED inspection back to ACTION_PENDING, and a new action that is added while a closure
  commits leaves a CLOSED inspection with an action that never succeeded, because only the
  review task has a version. So no property speaks of a closure with a request beside it.
- What MES and QMS hold is a set: that an effect occurs without authority would be seen, that it occurs twice would not.
- `AckedMayAbort = TRUE`: a commit that fails after its 202 leaves an UPLOADED row that names no inspection.
- Qualifications that two requests held at once are excepted from `SeparationUnlessRaced` and `LifecycleUnlessRaced`: an
  evaluation fetched before an approval writes its columns after it, and the actors may be one person. The
  200 of an activation whose commit then fails is not in the model, only that the old model stays live.
- Under such a race a qualification whose core has no gates is excepted in `ActiveWasEarned`: of two evaluations, with the release file edited
  in between, the later commit may write gates that failed under an approval of gates that passed, and the row is APPROVED with them.
- Two activations of packs at once can leave a tenant without an ACTIVE pack; the next start of the API installs its own if the
  version is free, and new inspections are refused until then. No property speaks of it.
- In production a new model comes in only by the bootstrap of an image that carries its pack: a pack asks for
  the ACTIVE qualification and the qualification for the active pack. A customer dataset registered without consent stays DRAFT for ever.
  No command of the ML package writes evidence that the backend would approve, since none measures customer data
  (`WrittenIsVerified`); evidence in `MCRelease` is written by hand in the form the verifier accepts.
- The packs from before manifests were versioned, which the bootstrap back-fills, and two packs whose ids collide are left out.
- Packs that a restart has rewritten in place are excepted from the properties that compare an inspection with its pack. The
  first pack's `field_mapping` may be applied to a row bound to the second; no property speaks of it. An override may be
  met or missed by an alias of its product.
- Two baselines on one run directory (`shared`): both find it empty, and the second's `model.pt` can replace the first's after its predictions
  and before its package, so accepted evidence describes weights that the package does not contain.
- Accepted evidence may rest on another manifest or on other images than the training, if a manifest was written in between or the dataset was
  changed and put back (`disturbed`): the qualification hashes what lies there at its end.
- A pass over the images and the comparison of the files of a run are one moment each; images that change during a pass are left out.
- Facts of the design that no property speaks of: the archive keeps one file per name; an ESCALATED inspection has
  no operation back to review; the worker's SELECT has no LIMIT; the pack's version is part of the
  idempotency key, so a file observed anew after an update is another inspection; a row enqueued just before a crash leaves its source in the
  watch directory.
- The database is READ COMMITTED PostgreSQL in the backend; the SQLite of the tests serialises writers and would hide most
  interleavings.
- MES and QMS are idempotent in the key, as the connector contract and `mock_external.py` have it.
- Time appears only as "the backoff has elapsed" and "the file has aged".
- `process_inline = True`, used by tests, is not modelled.
- Spool files are not deleted by the code, and what a completed file operation left on disk survives a restart (the code
  syncs the spool's temporary file, not the directory; a loss of power is not modelled).

## 7. Not modelled

- **Manifests beyond catalog and policy**: field mapping, file-name patterns and connector contracts are validated when a pack is
  created and applied to one request at a time.
- **Fleet status**: a heartbeat overwrites one row of its gateway with what it reports; the status is computed from
  the row's age when it is read, and nothing but a display reads it. A late heartbeat replaces a newer one, and the code does not claim otherwise.
- **Authentication** is a pure check per request (its result is `Users`, `Managers` and `Roles`). **Storage and audit**: blobs are
  put before the row, audit rows are appended in the caller's transaction, and no other operation reads them.
- **Model adapters** are calls that answer or raise. **Dataset sources** validate files.
- **The ML pipeline's numbers**: scores, metrics, downloads, inference, the gallery, feedback and shadow reports are computed
  sequentially from files; the models keep which file they were computed from.
- **API surface**: listings, settings and the validation of fields.
- **Frontend**: it keeps no state of the system, and its repeated clicks are repeated requests.
- **Simulator, migrations, scripts and containers** do not run concurrently with the system.

Their notes are under "components" in `PROJECT.json`.
