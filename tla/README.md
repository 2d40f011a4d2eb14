# kcatta: TLA+ models, model checking and proofs

kcatta scans hosts and watches them. An **agent** (Rust) collects host reports,
network traces and guard telemetry. **Form** (Python) is the control plane: it
keeps scan jobs, deploys agents, collects their artifacts, synchronises with
Microsoft Defender and hands everything to Analyzer. **Analyzer** (Python)
stores every envelope, derives detections and alerts from it and answers
queries. **Admin** (Next.js) shows the result.

The parts that are hard to get right keep durable state that several processes
change and that crashes, lost answers and expired leases interrupt. This
directory models them, checks the models with TLC, and proves with TLAPS, for
every value of the constants, the safety properties the runs check.

Source paths below are relative to the repository root. `PROJECT.json` maps
every definition to the lines it stands for.

## 1. Inventory

| Component | Source | State | Operations | Hard behaviour |
|---|---|---|---|---|
| Scan-job queue | `form/src/kcatta_form/job_store.py` | one head row per job, one operation row per target, an event log | create, import_legacy, claim_next, renew, complete, request_cancel, manual_retry, update_derived_result, acquire/renew/release_target_operation | several Form processes; leases against a wall clock that the caller read earlier; stale snapshots written back; row limits |
| Scan worker | `scan_worker.py` | `_active` executions, `ExecutionControl`, `_stopping` | poll loop, execute, heartbeat, finish, cancellation race, stop | every `await` is an interleaving point; the work goes on when the lease is lost; shutdown against claim |
| Artifact spool | `scan_artifacts.py` | one file per job | save, load, delete, reconcile | written without the lease; deleted after the commit; crash in between |
| Scan API | `api/scans.py` | none of its own | trigger, cancel, retry, guard stop | commit and local signal are separated by awaits |
| Derived-status reconciler | `derived_reconciler.py` | poll loop | poll, update_derived_result | answers that are late, missing or pruned |
| Schedules | `schedule_store.py`, `schedule_worker.py` | schedule rows | create, delete, due, mark_enqueued, snooze, tick | crash between enqueue and mark; upsert of a row deleted meanwhile |
| Agent identities | `agent_identity_store.py`, `agent_pki.py` | identity heads, certificate generations | get_or_create, stage, activate, abort, revoke, revoke_certificates, verify | the generation is read before the key is made and staged after; same-key races; revocation against issuing; overlap of rotated generations |
| Guard deployment | `deploy/agent.py`, `deploy/trigger.py` | the remote installation, identity pointer, manifest, process and lease | deploy, roll back, prove, tear down | every remote command may fail or lose its answer; the lease expires in the middle; the outcome may be uncertain |
| Credentials | `deploy/bootstrap.py`, `deploy/winrm_bootstrap.py`, `api/credentials.py` | key pairs on disk, keys or certificates the target accepts | bootstrap, rotate, revoke | files and target change one after the other, without a lock |
| Defender alerts | `mde.py` | watermark and lease row | poll, hand over, advance | updates that show late, overlapping rounds, failed batches |
| Defender vulnerabilities | `mdvm.py` | watermark, last baseline, materialised findings | baseline, delta, hand over | the set changes before it is handed over |
| Telemetry chunks, analyzer client | `telemetry_chunks.py`, `analyzer_client.py` | none | split, post, aggregate | limits; a part fails after others were accepted |
| Ingest ledger | `analyzer/src/analyzer/api/ingest_queue.py` | `ingest_tasks` rows | submit, claim, extend_lease, complete, retry, prune | lease takeover; heartbeat thread beside the processor; bounded deduplication window |
| Ingest processing | `analyzer/.../api/ingest.py` | raw and derived stores | append, recover, detect, correlate | not fenced by the lease: look, then append |
| Analyzer storage | `analyzer/.../storage/*` | SQLite and JSONL stores | append, tail, cursor page, fingerprint, retention | readers page while others append and retention drops; torn writes |
| Reports API | `analyzer/.../api/reports.py`, `report_projection_cache.py` | projection cache | pages, scans, projection | fingerprints of two stores read one after the other |
| Alert lifecycle | `analyzer/.../api/alerts.py` | alert status | acknowledge, resolve | beside re-ingestion |
| Detection, correlation, prediction | `analyzer/.../{detect,correlate,predict}` | vulnerability database | pure functions, database sync | none of protocol |
| Agent daemon | `agent/crates/agentd` | upload spool, dead letters, live queue | enqueue, replay, post, evict, dead-letter | replays without the lock, crash, limits, refused credentials |
| Agent response | `agent/crates/respond` | audit log, supervisor | decide, act, restart | effects on the host |
| Agent collection | `agent/crates/{collect,detect,ebpf}` | none | collect, match | none of protocol |
| Admin, monitoring | `admin`, `monitoring` | none | presentation | none of protocol |

How they interact. The API and the schedule worker create jobs in the queue.
A scan worker claims a job, collects through `deploy/`, saves the artifact in
the spool, forwards it to Analyzer over HTTP and completes the job. Analyzer
submits the envelope to its ledger before it answers, and a background worker
(or the request itself) derives the result. The reconciler copies the outcome of
the ledger into the job. A Guard job stages a certificate generation, deploys
the agent with it over a managed credential and proves or compensates what it
deployed. The Defender connectors poll upstream and hand batches to Analyzer.
The resident agent uploads to Form, through its spool, and Form forwards to the
same Analyzer endpoints.

What makes the components correct:

* queue: work on a target is serialised, direct operations exclude jobs, a
  worker that lost its lease changes nothing, attempts and rows stay within
  their limits, cancellations and successes are not undone;
* worker and spool: a success is backed by an envelope Analyzer stores, a crash
  or a lost answer does not duplicate it, the artifact survives as long as it is
  needed, a shutdown is not a cancellation;
* ledger: every accepted envelope is stored once, derived once and eventually
  finished, and its outcome is final and true;
* identities: a generation is issued once and never reused, revocation is
  final, the private key goes with its leaf, and a rotation leaves at most one
  replaced credential usable;
* Guard deployment: a failure is undone, two deployments are never mixed, a
  success is what the host runs, and what is given up is gone;
* credentials: a rotation never locks Form out and leaves one pair;
* connectors: no upstream change is skipped, and Analyzer shows what is active;
* schedules: no period is skipped, none runs twice;
* stores: a reader misses no row that stays, a cached answer is current;
* uploads: what was split arrives whole, what was spooled is delivered or
  accounted for, in its order.

## 2. Modules

| Module | Models |
|---|---|
| `JobStore` | the queue: `job_store.py`, and the API calls that use it |
| `JobStoreProofs` | theorems about `JobStore` |
| `ScanWorker` (extends `JobStore`) | the workers of all Form processes, the artifact spool, cancel and retry endpoints, the hand-off to Analyzer |
| `ScanWorkerProofs` (extends `JobStoreProofs`) | theorems about `ScanWorker` |
| `DurableIngest` | the abstract promise of Analyzer about an accepted envelope |
| `IngestLedger` | the ledger with its executors; implements `DurableIngest` |
| `IngestLedgerProofs` | theorems about `IngestLedger`, with the safety part of that refinement |
| `AgentIdentity` | the identity registry and the issuing service over it |
| `AgentIdentityProofs` | theorems about `AgentIdentity` |
| `GuardDeploy` | the deployment transaction on one host, remote command by remote command |
| `GuardDeployProofs` | theorems about `GuardDeploy` |
| `GuardJob` | the Guard branches of the worker: certificates, deployments and jobs of one target |
| `GuardJobProofs` | theorems about `GuardJob` |
| `Credentials` | the managed SSH key or WinRM certificate of one endpoint |
| `MdeSync`, `MdvmSync` | the Defender connectors with Analyzer's handlers of their batches |
| `DefenderProofs` | theorems about `MdeSync` and `MdvmSync` |
| `Schedules` | schedule rows and the tick |
| `ChunkedUpload` | one artifact split, posted, finished and aggregated |
| `RecordStore` | the record stores of Analyzer and their readers |
| `AgentSpool` | the upload spool of the resident agent |
| `ServicesProofs` | theorems about `Schedules`, `Credentials`, `RecordStore`, `AgentSpool` and `ChunkedUpload` |
| `MCJobStore`, `MCScanWorker`, `MCIngestLedger`, `MCAgentIdentity`, `MCGuardDeploy`, `MCMdvm`, `MCServices` | instances for TLC |

Operators commented "Faulty" or "A variant" (`ClaimableAnyTarget`, `SinceExact`,
...) are plausible bugs of the definition that follows them. They are used by no
specification; they show that each property notices one.

### JobStore

`heads` is `scan_job_heads`, `opLease` is `target_operation_leases`, `claim` and
`op` are the capabilities that callers hold between two calls. Every public
method of `ScanJobRepository` is one `BEGIN IMMEDIATE` transaction and one
action, its whole effect included: `ClaimNext` sweeps expired operation leases,
fails exhausted jobs, counts the running ones, chooses by priority and age, and
writes the lease.

Two decisions carry the model.

* *The clock.* Every method takes a `now` its caller read before it waited for a
  thread, for the lock and for the transaction. `Readings` are the values it may
  have: up to `ClockLag` units old. `ClockLag = 0` is the ideal case.
* *The token.* A lease token is 32 random bytes, and its stored hash is compared
  together with the owner. The model records the slot that got it (`holder`).

The columns the properties do not tell apart (payload, options, detail texts,
the event log) are left out. A result keeps only whether its derived state is
open or settled.

### ScanWorker

One `exec` record per slot is the `_process_claim` task: its phase, the artifact
in hand, the signals of `ExecutionControl` and the outcome. What the code does
between two awaits is one action; calls of the queue are the actions of
`JobStore`, conjoined. `wire` holds requests that a dead or alive sender has
issued; Analyzer may store them at any later time (`AnalyzerStores`). `handler`
is the cancel request between its commit and its two follow-ups (delete the
artifact, signal the local worker). `retried` and `asked` are history variables.
`sweep` is the file the reconciler of the spool has found to belong to no job that
needs it and is about to remove; meanwhile it holds the lock of the spool, so that
`Load`, `Save` and the deletions wait (`SpoolFree`), while the queue goes on. An
error of the spool or of the head may be one that is retried or one that is not,
and both are tried (`LoadFails`, `SaveFails`, `RefreshFails`).

Artifacts are numbered by the lease epoch under which they were collected: an
execution collects at most once, and each collection makes new identifiers.

The constant `Faults` says what may go wrong: `restart` (a process ends at any
point), `stop` (told to stop, also during a claim), `timeout`, `error` (spool or
transport), `stall` (a live worker's lease expires), `haste` (a manual retry
comes before the last execution has been cleaned up). Without `stall`, time does
not pass the expiry of a lease whose holder is alive, which is what the
heartbeat of a responsive process achieves.

### IngestLedger and DurableIngest

`task` is `ingest_tasks`, `ahead` which rows are older than the row of a key, `work` what each executor
(background worker or inline handler) is doing, `raw` and `derived` count rows of
the stores per key. The ledger's statements are fenced by the token; the
processor's appends are not and look first (`LookForRaw`, `LookForAlert`).
`verdict` is what the newest stored result says: `gaps` is a complete detection
whose coverage matrix has an incomplete row. `beating` stays on until an executor has
recorded its outcome; the code stops the heartbeat just before. Time is abstract here: a lease is
valid until it expires, a retried row is not due until it is.

`DurableIngest` promises that an envelope is stored once, derived once, finished
after both and eventually. `IngestLedger` maps pending and processing to
accepted, complete and partial to done.

### AgentIdentity

`identity` is `agent_identities` by target, `cert` is `agent_certificates` by
target and generation. Each method of `AgentIdentityRepository` is one
transaction and one action; a method that returns or reports a conflict without
writing is no step. `issue_staged` and `stage_for_target` are split where they
leave the database: `BeginIssue` is what they read and generate,
`StageCertificate` and `StageNothing` what becomes of it. `issuing` is the
material an issuer holds meanwhile. A leaf is named by its issuer; `given`
records who was returned the private key of which generation. `HostFree` is the
unique index on the canonical host.

As in `JobStore`, an activation uses a reading of the clock that may be
`ClockLag` old; `verify` (`Accepted`) reads the row first and the clock after.
Columns that only describe (serials, fingerprints, PEM, timestamps of creation,
the revision) are left out, as is the lower end of a leaf's validity.

### GuardDeploy

`files` is what the host has in the five places a deployment replaces, `backup`
the copies it made, `daemon` the process, `lock` the deployment lease. `Script`
is the order of the remote commands of `start_guard_daemon`; each is one shell
command under the kernel lock that first checks and renews the lease (the
fence), so each is one action. A command may fail, or run and lose its answer;
an execution may crash or be interrupted by its worker; a lease runs out only
when its owner does not renew it. The rollback walks back over the slots it has
touched. `Closers` prove the deployment they find and tear down exactly that, or
tear down whatever is there (guard stop). The proof (`guard_deployment_proof`)
is one step because its command reads everything under the fence. A start
stops the old daemon before it compares the binary with its backup and replaces it;
one that stops in between is not told apart from one that replaced the binary and did
not come up (the rollback restores both), and the comparison of a lease owner never
fails here, since nobody else writes (`WritesAreOwned`).

The detector inputs are published like the configuration and stand in the same
slot; hashes are the build that was installed.

### GuardJob

The worker around that transaction. `cert` has the generations by the key
`job:attempt` under which they are staged, `remote` the generation the manifest
names and the one that runs, `ex` what each execution is doing. A daemon that runs
may still fail its readiness probe (`Probes`), and is then not `alive`. A deployment is
one step here with the outcomes `GuardDeploy` allows: committed, restored, or
uncertain, which leaves any mixture. An uncertain job stays RUNNING and its next
owner loads the manifest, decides whether it is its own, and settles or
compensates. `Prompt` says that an execution notices a lost lease before its
next step. Which files lie beside the manifest is not modelled here: a daemon that a
rollback or the supervisor starts again is taken to be of the generation that ran
before. `GuardDeploy` shows that for whole hosts (`HostIsWhole`); after an uncertain
deployment that was rolled back in part, a restart may take up the files of another
generation, and the theorems about jobs do not speak of that.

Errors outside the deployment come in two kinds (`Errors`, from `_retryable`). The
code compensates only a failure of the last attempt, so a missing or forbidden file,
an invalid stored result, a target or URL that is gone, or an error of sqlite
(`ReadFails`, `SaveFails`, `ForwardFails`) may end a job at once with its Guard still
active. `loose` marks such an execution, and `GivenUpIsTornDown` is about the others
(`LeftLoose`).

### Credentials

`remote` is what the target accepts, `files` the pair each local file belongs
to. Every file operation and remote command of `rotate_key`, `rotate_cert`,
`ensure_key_auth`, `ensure_cert_auth` and the revocation is one action;
a remote command may take effect and still be reported as failed, and the
process may die anywhere. Nothing serialises two requests.

### MdeSync and MdvmSync

Upstream items carry the time of their last change. In `MdeSync` queries show a change
up to `Overlap` late; in `MdvmSync` an export is taken to be current, so the overlap
of its deltas is in the model and never needed. A round reads the clock, takes the lease row, reads since
the watermark minus the overlap, hands batch after batch to Analyzer and moves
the watermark to the time it started. In `MdvmSync` a round is a baseline or a
delta that changes the materialised set first; a snapshot has an id made of its
content and is stored once. The clock reading and the lease of a round are one step
there. `overtaken` remembers that a round went on after its
lease was taken, for which the code promises nothing.

### Schedules

Times are relative: how long a row still waits, how old the reading of the tick
and the stamp of the latest job are. The tick reads the clock, the due rows,
creates a job and writes the row back in another database; between the two it
may be aborted, and rows may be deleted.

### ChunkedUpload

`PackNext` is one round of the loops of `split_asset_report` and
`split_trace_batch`; rows have a size and a number of threat matches, an
envelope an own size. A row with too many matches is parsed into several pieces,
each with a share of them (`Pieces`, `Shown`); `NextPiece` is the order of the
loops: stream after stream, row after row, piece after piece. `bytes` of an
envelope is what the loop has counted, `Serialised` what the text is made of, so
that the last check of the code compares two different things here too. The
envelopes are posted one after the other, all of them
again when one fails; Analyzer finishes each on its own, prunes, and is asked
for the worst of their states. `phase` names how the hand-off ended.

### RecordStore

`rows` is, for each of the two stores, the key of every retained row by its id;
ids grow, so the newest rows are those with the greatest ids. One request at a
time reads, in several queries, while rows are appended and
retention drops old ones: by cursor, by offset, or as a projection over two
stores that is cached under their fingerprints. SQLite and JSONL differ in what
retention keeps, in what a position means and in torn writes. Retention by bytes
may drop any more of the oldest rows than retention by number (`Keeps`).

A page of a JSONL file takes three steps without a lock: identity and size
(`StartCursor`, `CheckCursor`), the rows (`ReadPage`), and whether there are more
(`LookFurther`). Each opens the file by its name, and retention may have put another
version there (`file`) or two, the second with the inode of the first. A cursor is an
offset; in a version that has dropped its oldest rows it lies at the same or a later
row (`Cuts`). Left out: a record longer than `read_max_bytes`, for which a page is
empty.

### AgentSpool

`queue` and `dead` are the two directories. A file's name begins with the time
it was written, and files are sorted by name: `turn` is the place of a name in that
order, and the oldest file is the one with the least. A writer takes the name while
it holds the lock, so a later file has a later name, as long as the clock of the
host is not set back. Publishing,
evicting and dead-lettering hold the file lock and are one action each; a replay
lists, reads, posts, buries and removes without it, step by step. A report is
posted after a replay and spooled when that fails, a guard batch is spooled
first and kept in memory when that fails. `doubled` is a file whose writer died
between link and unlink: listing fails until the next process cleans up. The
histories say what the caller was told (`spooled`), what Form got (`held`) and
where the rest went (`evicted`, `buried`, `skipped`). Form rejects for good only
what is invalid. A file whose content is damaged on disk (`GarbleFile`, of the
environment) does not parse, and the replay that reads it moves it to the dead
letters. A listing takes no lock: a file published while it runs may be on it or not
(`ListQueue`; `missed` remembers which was not). Ownership and mode checks of files
are left out.

`post_json` says that it flushes the spool first "so delivery order is
preserved"; a payload is nevertheless posted live after a replay that ended
early, so that order holds only among replayed files. `ReplayInOrder` is about
those.

## 3. Runs

Passing runs:

| Run | Instance | Checks |
|---|---|---|
| `job_store` | 2 jobs of one target (one Guard), 2 workers, 1 direct operation, 2 attempts, 3 epochs, times 0..3 | `TargetSerialized`, `OperationFencesJobs`, `AttemptBudget`, `CancellationSticks`, `SuccessIsFinal` |
| `job_store_capacity` | 4 jobs on 2 targets, one imported, one shared idempotency key, 2 slots of one worker, `max_running` 1, `max_jobs` 2 | `RunningCapRespected`, `HeadsSurvive` |
| `scan_worker` | 1 job, 2 Form processes; restart, timeout, error; 2 attempts, 3 epochs | `SucceededWasStored`, `OneCollectionPerTarget`, `OneReportPerRequest`, `ArtifactKept` |
| `scan_worker_stalls` | 1 job, 2 Form processes; stall and stop; 2 epochs | `CancelledWasAsked`, `AcknowledgedIsRecorded` |
| `ingest_ledger` | a report and a batch, a worker and a handler, up to 3 crashes or errors, window 1 | `OutcomeIsBacked`, `StoredOnce`, `KeepsPromise` |
| `ingest_ledger_stalls` | a report and a batch, 2 workers, up to 2 faults of every kind, window 1 | `OutcomeIsFinal`, `AcceptedIsFinished` |
| `agent_identity` | 1 target, 2 issuers, 1 shared key beside none, 3 generations, overlap 2, validity 3, times 0..3, readings up to 1 old | `RotationWindow`, `RevokedIsDead`, `BundleMatchesLeaf`, `GenerationNeverReused` |
| `guard_deploy` | an installation, 2 deployments and 1 teardown, 2 troubles | `FailedIsRestored`, `HostIsWhole`, `ActivatedIsWhole`, `TeardownIsExact` |
| `guard_job` | 2 Guard jobs of one target, 2 executions, 2 attempts, 4 generations, 3 troubles | `SucceededIsDeployed`, `GivenUpIsTornDown` |
| `services` | one of eight: 2 processes poll an alert and an incident; 2 processes and 2 findings of a device; readers of up to 5 rows, at most 4 retained; projections of 2 keys over two stores; 2 schedules; 1 operator and up to 4 pairs; an artifact of up to 2 rows a stream; 2 uploaders and 4 payloads | `WatermarkCovers`; `MaterializedIsUpstream`, `ActiveIsShown`; `ReadMissesNothing`, `ServedIsCurrent`; `SpacedRuns`, `PeriodIsCovered`; `NeverLockedOut`, `RotationIsClean`; `UploadIsWhole`; `SpooledIsKept`, `ReplayInOrder` |

Why the bounds are enough. A conflict on a target takes two jobs, a conflict
about a job two slots; a third epoch lets a lease be taken over twice, so that a
holder two generations old is tried too. Two attempts exercise first, last and
reconciliation executions. The lease lasts two units in three, so that leases
expire, are revived and are taken over within the bound; in `scan_worker_stalls`
it lasts one unit of two and two epochs suffice for a takeover. A window of one
row makes every second completion prune. Three generations are what it takes to
have an active one, one in its overlap and one that must be closed by then; two
issuers make every race for a generation or a key, and identities of different
targets share only the host index. Slots that are alike are symmetric.

Two troubles of a deployment are a fault and a fault of its rollback, or a lease
that is lost and the fault that lost it; two deployments and a teardown are every
pair that can meet under the lease. Three troubles and four generations let two
attempts of a job fail in different ways before its owner reconciles.

`services` is one run because the services share no state: `focus` chooses which
of them moves in a behaviour, and interleaving them would add no outcome. Its
times are long enough for a lease to expire under a live round and for a
baseline to become due twice. A store retains four rows and rolls a JSONL file
down to half, so that retention replaces the file under a reader, also twice;
`MaxBurst` keeps a projection from being overrun by more rows than a fresh file
retains. Readers have no such bound. Projections have four reports, since retention
by bytes may drop any of them, and no torn lines, which belong to no upload.
`SmallContents` has every combination of short streams, a row with more matches than
an envelope takes, and one that fits nowhere. The spool holds two of the payloads, so that a third evicts; one
payload is invalid and one exceeds the spool; mishaps happen in behaviours in which
that one has not come yet, as it never gets into the queue.

Deadlock is checked in `guard_deploy`: until every execution has ended (`GuardDone`)
one can go on. Elsewhere it is not: clocks, epochs and faults are bounded, and a
system in which every job, envelope and payload is finished rests.

Runs that show a disagreement between the code and what the repository says of
it (see the findings in `PROJECT.json`):

| Run | Fails | What happens |
|---|---|---|
| `credentials_race` | `RotationKeepsAccess` | two rotations of one SSH credential share the staging path; one promotes the key the other has just generated, before the target accepts it |
| `mdvm_fixed` | `FixedIsShown` | the last finding of a device is fixed and the next round is a baseline: the device is in no snapshot, and Analyzer shows the finding as active for ever |

### Other disagreements

These follow from the models as well; each shows when the named constant or
definition is put into the run.

| Where | What happens | How to see it |
|---|---|---|
| `job_store.py:883` | a renewal with a clock reading one unit old revives an expired lease beside a newer claim of the same worker on the target (`ARCHITECTURE.md:176`) | `job_store` with `ClockLag = 1` and both slots of one worker (`MCSameOwner`, since a worker does not claim the job it still executes) breaks `TargetSerialized` |
| `scan_worker.py:499` | the answer of Analyzer is lost and the job is cancelled: the head says cancelled, Analyzer holds the report | `CancelledHasNoReport` in `scan_worker` |
| `scan_worker.py:563` | the deletion, or the local signal, that follows a terminal commit hits the execution a retry has started meanwhile | fault `haste` breaks `ArtifactKept` and `CancelledWasAsked` |
| `ingest_queue.py:582` | one exception ends the heartbeat thread, the row is taken over and both executors append | fault `heartbeat` breaks `StoredOnce` |
| `ingest.py:516` | after a crash a stored result with coverage gaps is replayed as complete although it was concluded partial | `OutcomeIsVerdict` in `ingest_ledger` |
| `scan_worker.py:1262` | a Guard result that cannot be saved or read for a reason that is not retried, or an error of the target or its identity, ends the job below its last attempt without compensation: the job has failed and its Guard stays active (`ARCHITECTURE.md:169`) | `GivenUpIsTornDown` without `~LeftLoose(j)` |
| `jsonl.py:447` | retention replaces the file after its identity was checked and before it is opened: the offset lies at a later row of the new file, and a row is served twice (`analyzer/README.md:78-79`) | `ReadMissesNothing` with `~req.twice` in place of `req.twice => req.moved` |
| `scan_worker.py`, Guard | cancelling a RETRYING Guard job ends it without compensation: a deployment of an earlier attempt stays | `CancelledLeavesNoGuard` in `guard_job` |
| `telemetry_chunks.py:81` | the reserve for the header counts characters: an identifier that needs more bytes makes an envelope exceed the limit | `IdExcess > 0` breaks `UploadIsWhole` |
| `derived_reconciler.py:119` | a ledger row that was pruned before it was asked for lets a partial upload count as complete, or leaves the job pending for ever | `UploadIsWhole` without `~pruned` |
| `schedule_store.py:164` | a schedule deleted while a tick handles it comes back, since `mark_enqueued` upserts | a state of `Schedules` |
| `jsonl.py:316` | after a torn append the next acknowledged record completes the torn line and is unreadable | a state of `RecordStore` |
| `app.py:186` | legacy jobs are imported again at every start, also those whose rows were reclaimed | `ImportLegacy` |
| `bootstrap.py`, `rotate_key` | the docstring removes the old key before the swap, the code after it | read `PromoteKey` |

### Fairness

Only `IngestLedger` has liveness properties. `Fairness` assumes that a started
executor goes on (weak fairness of each executor's `ProcessStep`: a Python thread
is scheduled), that an idle background worker claims what is claimable (it polls
in a loop that catches every exception), and that time passes (`Elapse`,
`Expire`). Nothing is assumed of clients, of inline handlers' claims, or of
faults except that they are finitely many (`MaxFaults`): an envelope whose
processing fails for ever is retried for ever, which is what the code does.

## 4. Proofs

Every theorem is proved for all values of the constants that satisfy the
`ASSUME` of the module it is about. Some have a hypothesis on the constants, which
names a condition the code relies on and does not enforce:

| Hypothesis | Means | Why it is needed |
|---|---|---|
| `ClockLag = 0`, `FreshReadings` | a clock reading is not older than its transaction | a stale reading renews a lease that has expired (section 3, other disagreements) |
| `Punctual` | no `stall` fault, and readings younger than a lease is long | a worker whose lease expires goes on collecting until it notices |
| `NoHaste` | no manual retry before the last execution has been cleaned up | the clean-up is not fenced and hits the new execution |
| `HeartbeatsKept` | executors crash and processors fail, but heartbeats do not | the appends of the processor are not fenced |
| `Prompt` | an execution notices a lost lease before its next step | remote commands of `GuardJob` are not fenced by the lease of the queue |
| `OneAtATime` | requests about one credential do not overlap | no lock; `credentials_race` is the counterexample |
| `IdExcess = 0` | no real header is longer than the one the reserve was computed with | the reserve counts characters, not bytes (`telemetry_chunks.py:81`) |

Each hypothesis is met by the instance of the run that checks the same property,
and leaves every other fault in place. What is proved without one holds under
every fault of its module.

### The queue

`JobStoreProofs` proves, for every set of jobs, targets, workers and operations
and every value of the limits:

| Theorem | States |
|---|---|
| `TypeCorrect` | `Spec => []TypeOK` |
| `Fencing` | `Spec => []FenceInv`, the inductive invariant |
| `OperationExclusion` | `Spec => []OperationFencesJobs` |
| `SnapshotsCurrent` | `Spec => []SnapshotCurrent` |
| `AttemptsBounded` | `Spec => []AttemptBudget` |
| `Serialization` | `ClockLag = 0 /\ Spec => []TargetSerialized` |
| `Capacity` | `ClockLag = 0 /\ Spec => []RunningCapRespected` |
| `CancellationHolds` | `Spec => CancellationSticks` |
| `SuccessHolds` | `Spec => SuccessIsFinal` |
| `HeadsAreKept` | `Spec => HeadsSurvive` |

The assumptions are those of `JobStore`: jobs are finitely many natural numbers,
targets are assigned, the null values are none of the real ones, limits are
natural numbers. The theorems without `ClockLag = 0` hold however old the clock
readings are; that is what fencing by token, rather than by time, buys.

The argument. None of `OperationFencesJobs`, `SnapshotCurrent` and
`AttemptBudget` is inductive alone. `OperationFencesJobs` needs to know that a
row without an active state has no holder (`OnlyActiveHeadsLeased`), since
`acquire_target_operation` only clears active rows. `SnapshotCurrent` is what
makes `complete`, which writes a whole snapshot, harmless, and `AttemptBudget`
needs it because the outcome of a completion is decided from the snapshot.
`FenceInv` is the conjunction of the four with the type invariant. Its proof has
one lemma per group of actions; row lemmas (`ClaimedHeadRow`, ...) say what each
written row looks like. `Serialization` and `Capacity` rest on `LeaseStep`: with
fresh readings the only step that adds a valid lease is a claim, and a claim has
just checked the target and the count. `LifecycleSteps` classifies how a head may
change in one step; the three action properties follow from it.

### Agent identities

`AgentIdentityProofs` proves, for every set of targets, hosts, issuers and keys,
every lifetime and overlap, and every `ClockLag`:

| Theorem | States |
|---|---|
| `LineagesKept` | `IdentitySpec => []IdentityInv`, the inductive invariant |
| `IdentityTypeCorrect` | `IdentitySpec => []IdentityTypeOK` |
| `WindowHolds` | `IdentitySpec => []RotationWindow` |
| `RevocationHolds` | `IdentitySpec => []RevokedIsDead` |
| `AdvanceHolds` | `IdentitySpec => []GenerationsAdvance` |
| `BundlesMatch` | `IdentitySpec => []BundleMatchesLeaf` |
| `GenerationsFinal` | `IdentitySpec => GenerationNeverReused` |

The argument. `RotationWindow` speaks of what `verify` accepts now, and is not
inductive: whether two replaced generations can both be accepted depends on
their overlaps and on how many generations were active. `Lineage`, the part of
`IdentityInv` about one identity, therefore says that at most one generation is
active and at most one retired one has an overlap that is still open. An
activation keeps the second because it closes the open overlaps at its own
reading, which is never later than the clock (`ReadingsPast`), before it opens
one. `Lineage` also says that a generation without a row has nothing of one
(no leaf, no key given), which makes the stage of the next generation safe; that
the next generation has no row is the part of `IdentityTypeOK` that ties the
head to the rows. `OneTarget` reduces each action to the identity it changes.

### Workers

`ScanWorkerProofs`, for every set of jobs, targets, processes and slots, and every
`Faults` the hypothesis allows:

| Theorem | States |
|---|---|
| `StoreHolds` | `WorkerSpec => []FenceInv` |
| `WorkersTypeCorrect` | `WorkerSpec => []WorkerTypeOK` |
| `SuccessesAreStored` | `WorkerSpec => []SucceededWasStored` |
| `ArtifactsAreKept` | `NoHaste /\ WorkerSpec => ArtifactKept` |
| `CancellationsWereAsked` | `NoHaste /\ WorkerSpec => []CancelledWasAsked` |
| `CollectionsAreExclusive` | `Punctual /\ WorkerSpec => []OneCollectionPerTarget` |
| `ReportsAreUnique` | `Punctual /\ NoHaste /\ WorkerSpec => []OneReportPerRequest` |
| `AcknowledgementsAreRecorded` | `FreshReadings /\ WorkerSpec => AcknowledgedIsRecorded` |

The argument. As far as the queue is concerned, every step of `ScanWorker` is a
step of `JobStore`, so `FenceInv` holds in the composition. `WorkerInv` adds what a
task knows in each phase (`TaskShape`) and that an execution with a result has its
artifact at Analyzer; `SucceededWasStored` is only inductive with that. The rest
is layered: `DeletionsInTime` (a pending deletion belongs to a job that is over)
gives `ArtifactKept`; `CancelInv` (whoever can still end a job as cancelled was
told so) gives `CancelledWasAsked`; `PunctualInv` (every claim holds its lease, one
per target) gives exclusive collection; `ReportInv` (what was sent since the last
retry is the spooled artifact) needs both and gives one report per request;
`AckInv` says that a task which could not record its result has lost its lease.

### The ingest ledger

`IngestLedgerProofs`, for every set of keys, payloads, workers and handlers, every
window and number of faults:

| Theorem | States |
|---|---|
| `LedgerTypeCorrect` | `Spec => []TypeOK` |
| `OutcomesAreBacked` | `Spec => []OutcomeIsBacked` |
| `OutcomesAreFinal` | `Spec => OutcomeIsFinal` |
| `EnvelopesStoredOnce` | `HeartbeatsKept /\ Spec => []StoredOnce` |
| `PromiseIsSafe` | `HeartbeatsKept /\ Spec => Promise!Init /\ [][Promise!Next]_(Promise!ingestVars)` |

The argument. Outcomes rest on `Progress`: what an executor has seen in the stores
by the time it reaches a phase, which no fault takes back since the stores only
grow. Storing once does not: it needs `Secure`, that a working executor holds a
valid lease on its row, so that what it looked for and did not find is still
missing when it appends. `PromiseIsSafe` maps pending and processing to accepted
and shows each action to be a step of `DurableIngest` or a stutter.

### Guard deployment

`GuardDeployProofs`, for any number of deployments, teardowns and troubles:

| Theorem | States |
|---|---|
| `TransactionHolds` | `GuardSpec => []GuardInv` |
| `FailuresAreRestored` | `GuardSpec => []FailedIsRestored` |
| `HostStaysWhole` | `GuardSpec => []HostIsWhole` |
| `ActivationsAreWhole` | `GuardSpec => ActivatedIsWhole` |
| `TeardownsAreExact` | `GuardSpec => TeardownIsExact` |
| `WritesAreOwned` | `GuardSpec => [][FilesChange]_guardVars` |

The argument. An execution takes the lease once and never again. While it is the
owner, live or not, nobody else writes, so that the host is what the transaction
found, changed by exactly the commands it got through (`OwnInv`). What the helper
and the transaction roll back together covers whatever may have been written
(`ScriptFacts`). A deployment that has not written yet, whose rollback was proven, or
that has failed has left nothing of its own in the files, the daemon or the owner's
backups (`CleanInv`). `WritesAreOwned` says what `GuardJob` takes for granted of the
files: each change is one of the owner of a valid lease, to its own content or to what
it found, so that an uncertain deployment leaves a mixture of two, itself and what was
there.

`GuardJobProofs`, for any number of jobs, executions, attempts, generations and
troubles:

| Theorem | States |
|---|---|
| `JobsHold` | `Prompt = TRUE /\ JobSpec => []JobInv` |
| `SuccessesAreDeployed` | `Prompt = TRUE /\ JobSpec => SucceededIsDeployed` |
| `GivenUpAreTornDown` | `Prompt = TRUE /\ JobSpec => GivenUpIsTornDown` |

The argument. At most one execution is live (`LeaseInv`, `EpochInv`), and only it,
or a guard stop while there is none, changes certificates and the host. What it
found out about them therefore stays true until it records its outcome (`Owner`,
stage by stage): at the end a proved deployment, nothing left, or an error that left
it loose. A job has at most one usable generation, and stages none after it
revoked one (`CertOf`), so that the generation it deployed is the one it tears down.

### Defender connectors

`DefenderProofs`, for every overlap, lookback, refresh, horizon, lease time and
number of processes:

| Theorem | States |
|---|---|
| `UpdatesAreCovered` | `MdeSpec => []WatermarkCovers` |
| `FindingsAreUpstream` | `MdvmSpec => []MaterializedIsUpstream` |
| `ActiveFindingsAreShown` | `MdvmSpec => []ActiveIsShown` |

The argument. In both, a round that no longer owns the row cannot move the
watermark, and the owner works from what the watermark still says (`OwnerInv`,
`RoundOwned`). `MdeInv` says which updates a round must have among its rows
(`FetchInv`): too old to be hidden by the overlap. `VmInv` does the same for an
export and the set it replaces (`ExportInv`, `AppliedInv`). `ShownInv` adds that
a device's snapshot in Analyzer is the materialised one or is about to be sent, and
that an id which has been seen stands for the same content.

### Schedules, credentials, record stores, spool, uploads

`ServicesProofs`:

| Theorem | States |
|---|---|
| `PeriodsAreCovered` | `ScheduleSpec => []PeriodIsCovered` |
| `RunsAreSpaced` | `ScheduleSpec => SpacedRuns` |
| `AccessIsKept` | `OneAtATime /\ CredentialSpec => []NeverLockedOut` |
| `RotationsAreClean` | `OneAtATime /\ CredentialSpec => []RotationIsClean` |
| `RecordsHold` | `RecordSpec => []RecordInv` |
| `ReadsMissNothing` | `RecordSpec => []ReadMissesNothing` |
| `ServedAreCurrent` | `RecordSpec => []ServedIsCurrent` |
| `SpooledPayloadsAreKept` | `SpoolSpec => []SpooledIsKept` |
| `ReplaysAreInOrder` | `SpoolSpec => ReplayInOrder` |
| `UploadsAreWhole` | `IdExcess = 0 /\ UploadSpec => []UploadIsWhole` |

The argument. Schedules: a tick handles one schedule at a time, and what it has yet
to do was due when it began (`TickInv`). Credentials: `CredentialInv` says for each
step of a rotation which pair the files and the target have; the two files of an SSH
key change one after the other, and the target accepts both pairs meanwhile.
Record stores: ids grow and retention drops the oldest. So a cursor is below
everything it returned, and in another version of the file its offset lies at a later
row, which can show a row again and never pass one over; a reader by offset has skipped no more rows
than are newer than any it has yet to see, which appends only increase and retention
does not change for rows that stay (`ReadInv`). A lineage read later has, up to the
newest id of an earlier reading, nothing the earlier one had not (`Tracks`), so that
equal number and newest id mean equal lineages (`SamePrint`). What came and went
between the fingerprint and the build would escape the comparison: `BuiltInv` says
that a row built and not seen is still there, because it is younger than the request
and the request sees at most `MaxBurst` appends. That bound (at most what a JSONL
file keeps when it is rolled down, by number or by bytes) is the one assumption about
load, and only projections need it.

Spool: `SpoolInv` is inductive. A payload gets a name at most once and names are
given in order (`NameInv`), so a file that appears while a replay runs is newer than
everything on its list. `SnapInv` says what a replay knows of the file it is at: one
that is removed is at Form, or is invalid or damaged and in the dead letters. `OrderInv` says
that a file in the queue which is older than one left on the list, and is not on it,
has been dealt with or was missed by the listing; it survives the steps of other replays and evictions because those
only shorten the queue and lengthen the histories. `SpooledIsKept` needs both, and
`ReplayInOrder` follows from `OrderInv`. The limits rest on facts about the weight of a
set of files with one file added or left out.

Uploads: `PackInv` says of the loop that the envelopes so far and the one being
filled hold exactly the pieces before those still to come, in order, none in two of
them, and that the size counted for an envelope is the one it is serialised with
(`EnvelopeOK`). That makes the last check of the code never fail (`phase # "broken"`)
and gives `SplitIsLossless`. `LedgerInv` relates what Form was answered to the ledger: an
acknowledged envelope is stored or pending, and while no row has aged out an answer that
is final is what the row says. Interrupted attempts only lose answers.

## 5. Only model-checked

* Liveness: `AcceptedIsFinished` and the fairness part of `KeepsPromise` are beyond
  the proof system.

Every other property of a passing run is stated by a theorem. Sizes and orders are
defined without recursion for that: the bytes of a directory or of an envelope are a
set whose cardinality is taken, and a queue is a set with an order on it, so that
adding or removing one file is a fact about finite sets and needs no induction over
sequences.

`SnapshotCurrent`, `GenerationsAdvance`, the inductive invariants and the type
invariants are proved and in no run.

## 6. Not modelled, and the plan

Not modelled for good: HTTP plumbing, authentication and body limits,
detection, correlation and prediction (pure functions; only how complete their
result is matters here), host collectors, enforcement on the host, the admin
console and the dashboards. The event log of the queue is written and never read
back by it. Left out of the modelled components: building payloads and
certificates, the Windows variant of the deployment commands, one-shot scans
over a transport, OAuth, paging and normalisation of the Defender connectors,
capability graphs, the filters of the reports API, the ownership checks of the
agent's files, the splitting of envelopes in the agent (it mirrors
`telemetry_chunks.py`), and the transitions of an alert.

Next, in this order:

1. The files beside the manifest in `GuardJob`, and `GuardDeploy` shown to implement
   its single step (for the files, `WritesAreOwned` is that).
2. Envelope identifiers shared by two sources; the alert lifecycle beside
   re-ingestion.
