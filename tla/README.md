# PDU Exam Observer: TLA+ models, checks and proofs

PDU Exam Observer is a local Windows research instrument: a FastAPI backend, a
React client, SQLite stores on an approved NTFS root, a capture runtime that owns
the camera, and a governance layer (consent, lineage, withdrawal, deletion).
This directory models the parts of it whose correctness depends on the order in
which things happen. Paths below are relative to `src/src/pdu_exam_observer/`
unless they start with another name; `PROJECT.json` maps every definition to the
lines it stands for.

## 1. Inventory

| component | state it keeps | operations | interacts with | hard behaviour |
|---|---|---|---|---|
| Governance store `m1.py` (research half) | SQLite rows: studies, participants, sessions, consent receipts, artifact registry and dependency edges, withdrawal receipts and tasks, idempotency records, write intents; files under `staging/partials`, `operational/quarantine` | create study / participant / session, confirm consent, register artifact, add dependency, withdraw, create write intent, start-up recovery | HTTP routes, writers of partial files, M1-R1, M2 | lineage across participants, retries with the same or a new key, crash between a rename and its commit |
| Exam session (`m1.py` DEMO half, `services/core.py`, `domain/state.py`) | exam state, clock, answers, event log | create, start/pause/resume/stop, answer, submit, void | event stream, workspace | retries, expiry against a late answer |
| Reviewer authentication and pairing `services/core.py` | PIN failures and cool-down, one reviewer token, pairing codes, candidate token | unlock, lock, expire, pair | every route; revocation callback into the confirmation service | two clocks, callback before the token is cleared |
| Reviewer event stream `services/core.py`, `api/factories.py`, `apps/web/src/api.ts` | persisted log, subscriber queues, stale set, the client's resume point | publish, subscribe, replay, live delivery, overflow, disconnect, resume | exam session, workspace, client | hand-over from the stored list to the live queue, overflow, threads beside the event loop |
| Collection runtime `research_runtime/service.py` | runtime sessions, manifest, exports, tasks, events; the artifact directory; capture threads | create, preflight, start, ingest, stop, seal, review, lock, export, withdraw, recover | camera child, authority record, workspace | a capture thread against operator requests, join time-outs, files against database |
| Authority CLI `research_runtime/authority_cli.py` | the research authority record | install | runtime (reads it for every frame) | replaced by another process at any time |
| Camera child and root lease `research_runtime/camera_worker.py`, `root_lease.py` | bounded frame queue, lease file | read, drop, heartbeat, acquire | runtime | silent child, full queue |
| Workspace service `workspace_service.py`, `api/workspace.py` | links between exam and runtime sessions, request ledger | create, start, stop, seal, withdraw, review, export, import model | both stores | one request, several databases |
| Artifact store `m2_persistence.py` and its M1-R1 half `m1_r1.py` | M2 write intents, manifests, artifact files; reconciliation targets | persist, recover, register target, migrate | governance store | durable write protocol with a crash at every step |
| Withdrawal reconciliation `reconciliation.py`, `reconciliation_execution.py` | plans, challenges, executions, runs, attempts, terminal receipts | plan, challenge, confirm, attest, run, finalise | artifact store, reviewer token, file system | single use, stale plans, deletion against a replaced file, crash between deletion and record |
| Synthetic evidence pipeline `m2_synthetic*.py` | fixtures, evidence bundles, review ledger | run, reproduce, review | artifact store | bounded runner, review races |
| D1 capture worker `m2_d1_native.py`, `m2_d1_n2_native.py` | a job object, a suspended child process, its camera child, two frame buffers, phases seen by the monitor | launch, assign, resume, monitor, inspect, clean up, drain, judge | Windows jobs, FFmpeg, MediaPipe | a reader thread against clean-up, deadlines against late messages, either process dying |
| D1 evaluator `m2_d1_contract.py`, native receipt `m2_d1_native.py` | one run's frames and disk evidence, the receipt | validate, measure, judge, verify | owner lease, privacy guard | percentiles and ratios at their limits, two independent formulas for one receipt |
| D1 authorities `m2_d1_native.py` (N1), `m2_d1_n2_canonical.py`, `m2_d1_n2_adapter.py`, `m2_d1_n2_entrypoint.py` (N2), `m2_d1_n2_authority.py` (staged) | three record files each, a named mutex | prepare, consume, issue and revoke a grant, terminalise | supervisor processes, driver | single use across processes, torn records, death between write and read-back |
| Bootstrap and preparation `m2_d1_n2_bootstrap*.py`, `m2_d1_n2_a0.py`, `m2_d1_n2_prepare.py` | bundle, receipt, partial; retained leases | install, inspect, verify approval, attest, close | authority chain | interrupted installation, handles with changing owners |
| Temporal rules and model runtime `showcase/*.py`, `research_runtime/rules.py` | rule windows, model registry | infer, import, activate | runtime | window boundaries, activation while recording |
| Launcher, configuration, storage owner | environment, config file, owner lease | start | all | second owner |
| Web client `apps/web` | pages, monitor state | render, stream, resume | HTTP API | resume point |
| Training, packaging, scripts | none at run time | batch | none | none |

What makes each modelled part correct is stated in section 4; the hazards the
properties answer to are listed, with their lines, in `PROJECT.json`.

## 2. Modules

| module | models | composes or proves |
|---|---|---|
| `GovernanceStore` | research half of `m1.py` | |
| `GovernanceStoreProofs` | | theorems about `GovernanceStore` |
| `ResearchRuntime` | `research_runtime/service.py`, the authority record of `authority_cli.py` | |
| `EventStream` | event publishing and `/api/v1/events/stream`, the client's resume point | exam store, workspace reconcile step and client in one module |
| `ArtifactStore` | `m2_persistence.py`, the target rows of `m1_r1.py` | |
| `Reconciliation` | `reconciliation.py`, `reconciliation_execution.py`, the recovery and withdrawal hooks of `m1_r1.py` | extends `ArtifactStore`; implements `WithdrawalPromise` |
| `WithdrawalPromise` | what store and reconciliation promise a participant | abstract specification |
| `CaptureWorker` | one capture attempt: the supervisor, worker and reader of `m2_d1_native.py` and `m2_d1_n2_native.py` | supervisor, worker, reader thread and job in one module |
| `Workspace` | `workspace_service.py`, `api/workspace.py`, the exam half of `m1.py`, `domain/state.py`, the exam routes | exam session, runtime session, link and request ledger in one module |
| `ReviewerAccess` | `ReviewerAuthenticator` and the reviewer token of `services/core.py`, the reviewer routes | event loop and pool threads |
| `AuthorityChain` | the canonical N2 authority: `m2_d1_n2_canonical.py`, `m2_d1_n2_adapter.py`, `m2_d1_n2_entrypoint.py`, the bridge of `m2_d1_n2_native.py` | supervisors, guard, persistence and bridge in one module; implements `SingleUse` |
| `NativeAuthority` | the N1 authority store and service of `m2_d1_native.py` | callers and their workers; implements `SingleUse` |
| `StagedAuthority` | the pathname store `m2_d1_n2_authority.py` | implements `SingleUse` |
| `SingleUse` | what a store of a camera authority promises | abstract specification |
| `BootstrapInstall` | `m2_d1_n2_bootstrap_install.py` and the reader of `m2_d1_n2_bootstrap_win32.py` | installers and readers |
| `Preparation` | the leases of `m2_d1_n2_a0.py`, `m2_d1_n2_prepare.py` and of the composition in `m2_d1_n2_adapter.py` | |
| `DeviceContract` | the evaluator and the verifier of `m2_d1_contract.py` | uses `Ranks` |
| `NativeReceipt` | the run, the receipt and the verifier of `m2_d1_native.py` | uses `Ranks` |
| `Ranks` | `nearest_rank` | |
| `SyntheticRun` | `m2_synthetic*.py`, `api/synthetic_review.py` | service, worker, export and reproduction |
| `TemporalRules` | `showcase/temporal_rules.py`, the event rows of `research_runtime/service.py` | |
| `SessionReview` | review, lock and export labels of `research_runtime/service.py` | |
| `ModelRegistry` | `showcase/model_import.py`, `showcase/model_runtime.py` | capture thread and request thread |
| `ReconciliationProofs` | | theorems about `ArtifactStore` and `Reconciliation`, the refinement of `WithdrawalPromise` |
| `RuntimeProofs` | | theorems about `ResearchRuntime` |
| `StreamProofs` | | theorem about `EventStream` |
| `CaptureProofs` | | theorems about `CaptureWorker` |
| `AuthorityProofs` | | theorems about `NativeAuthority`, `StagedAuthority`, `AuthorityChain`, `BootstrapInstall` and `Preparation` |
| `ServiceProofs` | | theorems about `Workspace`, `ReviewerAccess`, `SessionReview`, `TemporalRules`, `SyntheticRun` and `ModelRegistry` |
| `ComponentsProofs` | | theorems about `DeviceContract` and `NativeReceipt`, and all of these as theorems about `Components` |
| `Components` | | the thirteen modules from `Workspace` to `ModelRegistry` in one specification |
| `MC*` | | symmetry sets for TLC; constants are in the `.cfg` files |

Names of actions and variables follow the source. Definitions whose comment
begins with `mutant:` are deliberately wrong variants of the definition after
them; they are not used by any specification, and serve to show that a property
fails when the code is changed in that way.

### GovernanceStore

A variable is a column or a table (`owner` is `sessions.participant_id`, `deps`
is `artifact_dependencies`, `requests` is `idempotency_records`, ...). Every
mutation of `m1.py` runs in one `BEGIN IMMEDIATE` transaction under the store's
lock and is one action; its guard is the conjunction of the checks that raise.
`mutate` is `_mutate`: a repeated key writes nothing. `Lineage(p)` is the
recursive query of `withdraw`, written as the least set that holds the
participant's artifacts and is closed under the dependency edges; this form can
be reasoned about without recursion. Recovery is two actions per intent,
`recover_rename` and `recover_commit`, because the rename happens before the
transaction that marks the row, and `Crash` may fall between them. `recover_rename` moves
the partial, or finds it gone, or leaves it where it is (`"left"`) when `_partial_file`
refuses it: the code passes over all three alike. Writers of
partial files are outside the package: `WritePartial` is external.

Left out: response bodies beyond what properties compare, readiness reports,
audit rows (one per mutation, same transaction), the DEMO half and the migration.

### ResearchRuntime

`state`, `locked`, `manifest`, `exports`, `tasks`, `receipts` are database rows;
`files` and `dir` the artifact directory; `authority` the authority record;
`worker`, `registered`, `stopSet`, `stream` the in-memory maps of the service and
the program counter of a capture thread; `op` the operator request in progress.
`WorkspaceService` holds its lock for a whole request, so there is one `op` at a
time; the capture thread, the authority record and the end of the process
interleave with it at every step. `stop` and `withdraw` are split where the
code releases the lock to join the worker, and at every rename and unlink,
because those survive a rollback. `LockFree` says when the worker can take the
service's lock. A frame is abstracted to what `ingest_frame` does with it:
accepted, rejected (session FAILED), or an error while recording the failure.
`interrupted` and `erasing` are history variables used by properties only.

Reviews and the precondition they give to `lock` are in `SessionReview`, rule and model
events in `TemporalRules`. Left out: focus context, contamination windows and the
preview. None of them changes the variables modelled.

### EventStream

One exam session. `log` is `sessions.event_seq`; `pending[t]` is the event that
thread `t` has committed and not yet fanned out, `at[t]` how far down the subscriber
list its `_fanout` is. The launcher runs the exam server and the monitor server in two
threads with a loop each, over one backend. The monitor's `async` handlers
publish without yielding, so no generator runs in between (`LoopFree` guards every
generator step); the exam server's thread and the pool threads that run the workspace's
plain handlers (`Pool`) interleave with it turn by turn of the fan-out's loop. When a
monitor leaves meanwhile the list shifts under that loop and the next subscriber is
passed over. A generator goes through `requested`, `snapshot`, `replay` and `live`; the
client keeps `after` (the resume point) and `received`. `dropped`, `unpublished`, `late`
and `disturbed` are history variables that record why an event may be missing.

One `put_nowait` is atomic in the model. Two threads switched between its test for
fullness and its append could exceed a queue's bound by one event; that interleaving
inside `asyncio.Queue` is not modelled.

### ArtifactStore and Reconciliation

One participant. `persist`, `recover` and `run_local` hold the store's root lock from
beginning to end and every transaction of the governance layer takes it too, so
`op` is the one operation in progress and its step; what falls between two steps is
the death of the process (`Crash`, `Die`) and another program's hand in the directory
(`Tamper`). A path holds nothing, a torn write, the original, a copy (same bytes,
another file identity) or something foreign: exactly what the checks of size, hash and
identity tell apart. `Guarded` is the exclusive handle that keeps `Tamper` out between
verification and commit, or between verification and deletion. `persist` is five
actions (intent row, partial, rename, guard, commit), each of which may raise;
`_mark_failed` and `recover` share the two quarantine steps. The registry row, the
manifest and the local target are one transaction and one variable, `status`.

A target is an artifact's final file or an external copy. `target` holds state and
version, `plan_for_session` the value whose digest a challenge carries, `blocker_codes`
the set that `_blockers` computes. A challenge, its only execution and that execution's
only run share an id, because the schema makes each unique to the one before.
Confirmation and run are separate requests, hence separate actions, and everything
else may happen in between. A deletion is: attempt row, verification with its
snapshot row, deletion when the handle closes, check of absence with its row.

`WithdrawalPromise` has three variables: what is held, whether the participant withdrew,
whether the final receipt exists. The mapping `Held` counts the participant's bytes
under partial, final and quarantine names and every copy nobody attested. A step may
add to what is held only before the withdrawal, and the receipt needs it to be empty.

Left out: the caller-supplied authorities (always granted, which allows more), expiry of
a procedure, the text of the confirmation phrase, the step-up PIN,
exports staged locally (no code registers such a target).

### CaptureWorker

One attempt, of the N1 or the N2 line (`line`): both use the same monitor, job and reader
and differ in the event sink, in the codes and in the verdict. `sup` is where the
supervisor is, `mon` the local variables of `_monitor_capture_worker`, `pipe` the
worker's output together with the queue in front of the monitor, `w` the worker's
position and run state, `child` the FFmpeg process, `rd` the reader thread with its
`_free` and `_ready` queues, `content` what each buffer holds. The worker's clean-up is
four actions (end the child, join the reader, close and report the cleanup, send the
receipt), because the reader runs between them.

Time is in ticks from the first frame's ingress, to which the capture deadline is anchored;
the deadlines of the other phases may pass whenever the worker is slow. `Tick` is free.
It is recorded as slowness unless worker and monitor have done what the tick
asked of them, so `disturbed = {}` describes an attempt in which everybody is as fast as can
be and nothing fails. Ending the child takes time (`now > w.at`): the closing stamp
is later than the ingress of the last frame. Everything else that can go wrong is one
disturbance: a failing launch, grant, guard, device, spawn, camera, inspection, quality
threshold or cleanup step, a handle that cannot be closed, clocks that disagree (the worker
stamps with `perf_counter_ns`, the monitor compares with `monotonic_ns`), a dying
worker or supervisor. A child that outlives both waits of the clean-up (`unkillable`) may end
later (`ChildDiesLate`): then the job drains by itself, the worker's record of the clean-up still
lacks the child, and an N2 attempt ends with CLEANUP_INCOMPLETE, because its evidence (`Evidence`)
asks for every flag but the child's.

`capture_timeout` is a parameter of the monitor and so of the model. The deployed
value equals the preflight, and then no attempt passes (findings); the run therefore
also has a window with room to close, without which the properties about a
PASS would hold for want of one.

Left out: the authority stores and terminal records (`NativeAuthority`, `AuthorityChain`),
media arithmetic (`NativeReceipt`; quality is one outcome here), the content of messages other than event, stamp and receipt; a worker that
writes something else than the protocol is covered by `skew`, which the monitor
treats alike. A supervisor that dies between creating the worker and assigning it to the
job leaves a suspended process behind; it never runs.

### Workspace

One research session is a runtime session and an exam session in two databases, tied by a
row in a third. `op` is the request that holds the workspace lock, from the ledger lookup
(`Begin`) to the ledger row (`row_step`), with one step per commit in between; `loop` is the
handler of the event loop (exam routes, and the reviewer's direct start and stop), which
takes the workspace lock only to read the runtime's state (`handler_reconcile`) and acts on
what it read afterwards. `worker_fails` is the capture worker, `Crash` ends the process
between any two steps; what is in memory only (`codes`, `tokens`) is gone then. Of the
runtime there is only the state of its session, moved as `ResearchRuntime` moves it.
`stranded` records that the compensating stop of a start failed too.

### ReviewerAccess

`failures` and `blocked` are the two halves of `_failures`; `bearer` is the one token,
`grants` the two issue times of each token so far. Login and logout run to their end on the
event loop. The check of a reviewer route runs on a pool thread: it reads the fields one by
one (`check_begin`, `check_reads`), asks both clocks, and clears whatever token is current
if the one it read has lapsed (`check_lapsed`). The wall clock can be set (`SetWall`).

### AuthorityChain

A supervisor is a process with one epoch. `leaf` holds the PREPARED, GRANT and TERMINAL
files, each absent, torn or a record (its kind and its writer; each epoch writes a kind at
most once, so this stands for bytes and digests). A mutation is `begin_mutation` (mutex,
leases, state), `inspect_and_open`, `write` (in place, possibly torn), `post_write` (read
back) and `finish` (leases, mutex); every one of them may fail (`Faulty`), and `crash` may
fall between any two, leaving the mutex abandoned. The lifecycle above it is `prepare`,
`run`, `after_consume`, `after_issue`, `authorize_grant`, `driver_returns`, `after_revoke`,
`close_retained_for_terminal` and `after_terminalize`. `another_opens` is a process that
only opens the authority again.

### NativeAuthority and StagedAuthority

`NativeAuthority` is the N1 store: every operation loads, compares and replaces one file
under a mutex it never waits for, so it applies, is refused, or applies and then raises
(`GuardEnds`). A legacy file may be in the authority's place from the beginning.
`StagedAuthority` is the store that the canonical chain replaced: a caller inspects, and
later asks for a step with the record it saw (`stSeen`). A step is taken under a mutex whose
release may fail, creates or replaces a leaf in separate steps, and can be cut off in each.
`stTold` records the successes that were returned. Grants keep monotonic times on disk;
`reboot` sets that clock back and ends all processes.

### SingleUse

Five variables for what the three stores have in common: the authority is `spent`, its only
grant is `granted` (given, or lost), somebody's grant is `valid`, the camera was `used` by
somebody, the terminal record has `ended` it all. The authority is spent on disk (CONSUMED in
PREPARED, or in the authority leaf). A grant counts as given when its record is complete; a leaf
whose writer still has it open is not yet a grant, and one torn for good is a forfeited one
(`issue_in_writing`, `grant_in_writing`). Use is the accepted launch, or the driver's; the
pathname store opens no camera. `RevokeFirst` is where N1 and N2 differ: N1 writes the
terminal record whether the revocation succeeded or not, both N2 stores only behind a
revoked grant.

### BootstrapInstall and Preparation

Three names, share mode zero (`bOpen`), moves that never replace. The partial carries the
bundle and then the receipt; the receipt is moved after the handles and the mutex are given
back, because it states that they were. `Preparation` follows every handle of the chain that
leads to an attested epoch (`lease`, `closes`): each stage may stop at any of its checks,
closes what it opened, and leaves what was retained to its owner. `silent` records the
handles closed by code that ignores the result. A stage may also raise between an open and the
hand-over of its handle (`_open`'s except, an exception out of either `verify`, out of
`_observation` or out of the enumeration's own handler): the handle then stays open in nobody's
list. Which handles this can happen to is `Losable`. Interrupts of the preparing thread
(`BaseException`) are left out.

### DeviceContract and NativeReceipt

Pure algorithms with a little control around them. `capture_frame` builds any run of up to
`MaxFrames` frames from a small alphabet (in time, late, dropped, failed, malformed, poor),
the guard sees each of them, and `judge` is `_evaluate_under_lease`. The reference definition is
`Acceptable`, which states the thresholds as counts of frames and never sorts;
`verify_receipt_semantics` is the code's second opinion. `NativeReceipt` has the native
run's accumulation (`record`), cleanup, receipt, serialisation through the worker's pipe,
supervision and terminal record, against `AcceptableRun`.

### SyntheticRun

`sRecord`, `sActive` and `sLock` are the service's, `sWorker` its single executor thread with
the runner and engine, `sStore` the artifact store, `sPhase` how far `close` has come,
`sBundle` an exported bundle, `sReplay` a reproduction of one. Evaluation is chosen freely
(`DeviceContract` has it) and persistence succeeds, fails or is not available.

### TemporalRules, SessionReview and ModelRegistry

`advance` and `close` are the temporal state machine, once on geometry (`vRule`), once on
predictions (`vModel`); an orientation is which of the two thresholds it reaches. `vEvents`
are, per signal, the rows the runtime keeps, inserted on START and replaced by UPDATE and END. In
`SessionReview` decisions are appended under a revision; `latest`, `Standing` and `conflicts`
are the dictionary that `lock` and the export build from them, in the order in which events
were first reviewed. `ModelRegistry` has a capture thread and a request thread over one
registry without a lock. An import stages, verifies, publishes, points and clears the three
fields of the cache one by one, with a crash anywhere. A call takes the fingerprint, compares the
three fields one by one and reads the runtime once more to return it (`cache_step`), or verifies
and loads the files and then stores, or wipes, field by field (`load_step`). A version's files are
absent, `intact`, `damaged`, or `disguised`: damaged with the sizes and times they had, which is all
the fingerprint compares. A runtime that another thread cleared in between is the answer `RAISED`,
the AttributeError that ends the capture session. One load reads the files in one step.

In `TemporalRules` the pose buffer spans the recording from its first frame; the service keeps the
last 180 frames, which decides only when a prediction is asked for.

### Components

The thirteen modules have disjoint variables and no common action. A behaviour of all of
them is therefore an interleaving of behaviours of each, and a property that reads the
variables of one module holds of every interleaving iff it holds of that module's own
behaviours. `Components` lets one module run (`focus`, chosen once) while the others rest
in an initial state; it explores the sum and not the product of their states. What they
really share is modelled inside a module (exam and runtime in `Workspace`, the leases of a
preparation as one value in `AuthorityChain`).

## 3. Fairness

* `GovernanceStore.FairSpec`: weak fairness of `Restart`. The launcher starts the
  process and the recovery loop has no wait in it; requests are never forced.
* `ResearchRuntime.FairSpec`: weak fairness of `Continue` (an operation once begun
  is straight-line code with a bounded join) and strong fairness of
  the worker's steps: a capture thread competes for a Python `RLock`
  that operators take for short operations only, so it gets the lock in the end
  although it is not free all the time. No request, time-out or failure is forced:
  within `Continue` the failing and the succeeding outcome are both allowed.
* `EventStream.FairSpec`: weak fairness of `Publish` (a handler that committed goes
  on) and strong fairness of a generator's steps (the loop is repeatedly busy with
  handlers and returns to a ready task; a put from another thread does not wake the
  monitor's loop by itself, and the 15 s heartbeat timer of every generator does at the
  latest). Disconnects are allowed at any time.

* `CaptureWorker.FairSpec`: weak fairness of the supervisor and of the clock. Worker,
  reader and child may stop at any point: that is what the deadlines are for.
* `Components` states no fairness: its properties are invariants and action properties.

## 4. Runs

| run | instance | what it shows |
|---|---|---|
| `GovernanceLineage` | 1 study, 2 participants, 2 sessions, 3 artifacts, 2 keys | `LineageClosed`, `WithdrawalComplete`, `CanonicalReceipt`: withdrawal reaches its lineage and nothing else, in every order of registration, linking and withdrawing, and every repeat gets the canonical receipt |
| `GovernanceRecovery` | 1 participant, 2 sessions, 2 intents on 1 file, 2 crashes | `TypeOK`, `QuarantineBlocks` (a quarantined intent blocks its session, and its file was moved or refused), `EventsExactlyOnce`, `WithdrawalIsTerminal`, `RecoveryEnds` (a rename that is tried is assumed to work) |
| `RuntimeCollection` | 2 real sessions, 2 authority records, 1 crash | `SingleCamera`, `SealedIntact` (also: what was interrupted is never sealed) |
| `RuntimeWithdrawal` | 1 real and 1 synthetic session, 1 export, 1 crash | `WithdrawnComplete`, `WithdrawnIsFinal`, `CameraReleased` |
| `RuntimeEraseStuck` (violation) | 1 real session | `WithdrawalAvailable`: see findings |
| `EventDelivery` | 2 monitors, queues of 1, 2 events, 1 thread beside the loop | `LossExplained`, `MonitorCatchesUp` |
| `EventGap` (violation) | 1 monitor, 3 events | `MonitorComplete`: see findings |
| `ReconciliationRun` | 2 artifacts, 1 external copy, 2 challenges, 2 reviewer sessions, 1 crash, 1 foreign change | `FilesMatchRows`, `PromiseKept` (refinement), `TerminalImmutable`, `DeletionJustified` |
| `ReconciliationUnfinished` (violation) | 1 artifact, 1 challenge, 1 crash | `CompletePlanFinalizes`: see findings |
| `CaptureAttempt` | both lines, preflight of 1 tick, windows of 1 and 3 ticks, 4 ticks, 1 disturbance besides slowness | `FrameOwnership`, `PassIsEarned`, `DiagnosisExact`, `AttemptEnds` |
| `CapturePass` (violation) | N2, window and preflight of 1 tick, no disturbance | `UndisturbedPasses`: see findings |
| `Components` | see the table below; about 2.1 million states | seventeen properties of thirteen modules |

| module in `Components` | instance | property |
|---|---|---|
| `Workspace` | 1 run, 1 exam, 2 request keys, 1 answer key, 1 crash | `LedgerTruthful`: a ledger row never promises what did not happen. `NoCaptureWithoutExam`: after a start, a camera runs only for a started exam, unless the compensation failed. `NoAnswerAfterCapture`: a handler that saw the runtime ended writes nothing |
| `ReviewerAccess` | 1 client, 1 pool thread, 2 failures, 2 tokens, clocks to 2 | `GuessesBounded`: after the allowed failures, one guess per cool-down. `TokenLifetime`: nothing is served past the monotonic lifetime, and a live token ends for a cause only |
| `AuthorityChain` | 2 supervisors, every step may fail | `LaunchBacked`: who may start the camera owns the consumed authority and its grant, for ever. `TerminalTruthful`: a TERMINAL left exactly the records inspection accepts, and no end retains a lease |
| `NativeAuthority` | 2 callers, 2 calls each | `NativeSingleCapture`: one capture at most, by the owner; a PASS is durable and its grant revoked |
| `StagedAuthority` | 2 callers, clock to 2 | `StepsBacked`: a step succeeds once, and the files bear out every success |
| `BootstrapInstall` | 2 installers, 1 reader | `ReceiptTruthful`: a receipt in place tells the truth although no mutex protects its move |
| `Preparation` | 1 preparation | `LeasesAccounted`: no handle is asked to close twice and whoever goes on holds them all; at the end every handle was asked, except those an exception left in nobody's list, and CLEAN means that no close failed except where the code ignores it |
| `DeviceContract` | up to 3 frames in 4 ticks, 8 disks, 3 injections | `EvaluationExact`: PASS is exactly the reference definition; the verifier agrees up to its stated extra demands |
| `NativeReceipt` | up to 3 frames in 5 ticks, in process and in a worker | `RunReceiptExact`: the same for the native run, and every stored receipt verifies |
| `SyntheticRun` | 2 keys, 1 record, 2 fixtures, clock to 1 | `SyntheticEvidenceSound`: no use of a closed store; a bundle belongs to one run; receipts of reproductions verify |
| `TemporalRules` | recordings of 4 ticks, frame gaps of up to 2 | `EventsBacked`: the frames bear out onset, extent and end of every event. How long an open event runs over frames that do not show it is not bounded |
| `SessionReview` | 2 labels, 2 frames, 2 events, 3 decisions | `ExportUnambiguous`: standing decisions that cover an exported frame agree on its label. Whether one of them is CONFIRMED first is left to the order (findings) |
| `ModelRegistry` | 2 sound bundles and a bad one, 2 imports, 1 crash | `OnlyVerifiedServes`: only a verified bundle becomes active or is loaded, and REAL sessions hear research models only; unless a call of the capture worker overlapped the last import, a call gets the runtime it asked for, or none once the files changed |

Why these bounds. Lineage needs a chain that leaves a participant and comes back
to another one: three artifacts over two participants have every shape of such a
chain, and a second key distinguishes a retry from a new request. Two crashes are
the least that let recovery itself be interrupted and run again; two intents on
one file are the case where the second finds its file gone. Two real sessions are
the least that compete for the camera. Queues of one event and two events on
two threads make overflow, overtaking and the hand-over all happen; two slots are the
least in which one monitor's leaving can hide an event from another. Two artifacts give a run a target
that is done and one that is not when it stops; an interrupted run needs a second
challenge to be taken up, and a second reviewer session, because a crash loses the
first; one foreign change puts a copy or another file at a target's path before,
between or after the attempts. A capture needs a frame at the start and one at the end of
the preflight, and two more ticks to close and to be late in; one disturbance at every
place, with any slowness, is what a verdict has to tell apart. In `Components`, two
processes are the least that race for an authority, a store or an installation; a second
call of each lets a caller come back after it failed or died; two clock ticks pass a
lifetime and a cool-down of one. Three frames are a warm-up frame, a frame on the boundary and
one after it, or a gap between two; three decisions are a decision, its revision and one that
overlaps both. Two imports after a first are an activation while the other bundle is cached.
Counters are bounded by `MaxCrashes`, `MaxInstalls`, `MaxEvents`, `MaxTampers`, `MaxLogins`,
`MaxNow`, `MaxDisturb` and the constants marked "bound" in the modules of `Components`, in the
guards. Deadlock is not checked
where the system may stop for good because its bounded ids are used up.

## 5. Proofs

Eight modules hold theorems, for every value of the constants that satisfies the named
`ASSUME`s of the module proved about; TLC evaluates the same assumptions in the runs. They ask
for no more than: bounds and time limits are natural numbers (a queue size, a PIN limit, a
cool-down and a lifetime are positive; capture windows end before the clock does); what is
counted is finite; the value that marks "no row", and the marks "free" and "abandoned" of a mutex, are
not the name of an actor, a state or a row; installers are not readers, external copies not
artifacts, real sessions not synthetic ones; there is a session for the artifacts; research
bundles are sound ones; the thresholds of the evaluators are natural numbers, the length of a run
and the time it is accepted in are positive. `Preparation` assumes nothing.

Every safety proof has the same three parts: the initial state satisfies an inductive
invariant, every step keeps it (one step of the proof per action, under it one per part of
the invariant the action can disturb), and it implies the property. Each invariant was checked with
TLC before it was proved. An action property is then proved step by step from the invariant.

**`GovernanceStoreProofs`.** `TypeCorrect`: `TypeOK` is inductive by itself because it says that
recovery only holds rows that are still PENDING. `ReferencesInvariant`: the foreign keys;
without them `LineageClosed` and `WithdrawalComplete` are not inductive, since an edge between
unregistered artifacts, or a task under a session without a receipt, would break them.
`LineageInvariant` (`LineageClosed`): `register_artifact` and `add_dependency` only add edges
that leave VALID parents, and `withdraw` invalidates a closed set. `WithdrawalInvariant`
(`WithdrawalComplete`): `ReachRoots`, `ReachClosed` and `ReachLeast` say that the query is the
least closed set, `ReachExtend` that edges leaving from outside that set do not change it; a
withdrawn lineage is INVALIDATED and new edges leave VALID parents, so the lineage computed now is
the one computed at the withdrawal. `TerminalWithdrawal` (`WithdrawalIsTerminal`): from the types.
`RecoverySafe` (`QuarantineBlocks`): with `RecoveryInv`, which says what holds between the rename
and the commit of an intent: its file has been moved, or looked at and left. `CanonicalReceiptInvariant` (`CanonicalReceipt`): every stored answer
names the one receipt of its participant; the task count of a receipt stays the cardinality of a
set that no later step changes. `EventsOnce` (`EventsExactlyOnce`): the count moves in the
transaction that stores the request's key, and a stored key is never carried out again.

**`ReconciliationProofs`.** `RecInv` is `StoreInv` (types; a
withdrawal is of every session and leaves nothing VALID and no `persist` under way; the holder of the root lock is where its step says; `Kept`: what the rows of an
artifact say about the bytes under its three names) and `TargetsSound` (targets exist from the
withdrawal on, those in a run's hand are IN_PROGRESS, a verified deletion left nothing).
`FilesMatchRowsInvariant` and `TerminalImmutableHolds` (`TerminalImmutable`) follow.
`PromiseKeptTheorem` is the refinement: `Held` is the set of artifacts with bytes under one of
their names and of copies nobody attested; the initial state holds nothing, every step either
leaves the three abstract variables alone, or is a step of `WithdrawalPromise` (lemma per
action); for the receipt, `CompleteHoldsNothing` derives from a complete plan that nothing is held.
`DeletionJustifiedHolds` (`DeletionJustified`) is from `DelInv`, which adds `AttemptsSound` (a
target has an attempt only of runs that began, finitely many and with bounded numbers, so that
`Latest` exists; an open attempt is the only open one at its target, and the target is
IN_PROGRESS; unsettled attempts at one target that recorded an object recorded the same one) and
`RunSound` (the run's challenge is consumed; the targets in hand are the rows of its plan one
version on; nothing is open at what is left to do; the attempt in hand says how far the run is,
and before the delete it recorded what is at the leaf).

**`RuntimeProofs`.** For `ResearchRuntime`, `RuntimeInv` is `SingleCamera` with: `Capturing` (a
live worker is registered, so that a join waits for it, and its session is a real one that records
or has failed; a writer is open only while its session records), `Holding` (what rows, directory and files of a session agree on in each
state) and `OpSound` (what the operation in progress may rely on after it gave up the lock to
join). `SingleCameraInvariant`, `SealedIntactInvariant`, `WithdrawnCompleteInvariant` and
`WithdrawnIsFinalHolds` follow.

**`StreamProofs`.** `LossExplainedInvariant`. `StreamInv` places every event that a monitor has
not received: below its resume point with a reason, or overtaken while a thread still holds it
(`Behind`); above it, in the queue or the replay to come, or with a thread (`Ahead`); a subscriber
that a thread's loop has passed has the event or a reason (`Passed`); an event in a queue that the
generator will drop as old was received or is accounted for (`QueueSound`). `Passed` is what the shift of the list breaks when a
monitor leaves; the history variable `disturbed` records exactly that.

**`CaptureProofs`.** `FrameOwnershipInvariant`, `PassIsEarnedInvariant` and
`DiagnosisExactInvariant`. `CaptureInv` has
`Ownership` (each buffer is in one queue or in one hand, also while the clean-up drains),
`Stages` (where the worker is while it is launched, and when it ended by itself), `Cleaned`
(what was reported clean stays so, however late the reader is), `Unfailed` (a worker without a
failure saw a whole preflight and nobody, and cleaned up), `Truthful` (a stamp or a receipt in the
pipe, or in the monitor's hands, repeats what is final in the worker's record). `Truthful` carries the verdict: the monitor
judges messages whose sender has moved on.
`DiagInv` adds what the code of a verdict needs. A disturbance that ends the worker or breaks its
clean-up or its pipe leaves a mark no later step removes (`Marked`), and a receipt repeats the worker's record
(`Repeated`). When none of these happened, nobody was slow and the window leaves two ticks to close (`Quiet`), the
worker is on time (`Timely`), a failure has its cause among the disturbances (`Attributed`), what
ends is cleaned up (`Swept`), the messages heard and still in the pipe are those said, in order
(`InOrder`), and the supervisor waits for the receipt (`Patient`). Exactness follows from the
two halves: with a mark the verdict names it, without one the messages decide.

**`AuthorityProofs`.** The four single-use stores. `NativeSingleCaptureInvariant`
(`NativeInv`: one caller spends the authority, grant and camera are his, a PASS is the terminal
record); `StepsBackedInvariant` (`StagedInv`: mutual exclusion, leaves bound to the leaf they
were derived from, what a step under way found, what successes were told);
`ReceiptTruthfulInvariant` (`BootInv`: mutual exclusion through share modes, the progress of each
installer, and that a bundle published under a receipt can be neither replaced nor opened for
writing); `LaunchBackedInvariant` and `TerminalTruthfulInvariant` (`ChainInv`: for every
supervisor who excludes whom, what is on disk at each place of a mutation, what each phase of the
lifecycle has established); `LeasesAccountedInvariant` (`PrepInv`: which handles were asked to
close, how they answered, where a refusal is recorded, and which may have been lost by the
stage that failed).
`NativeUsedOnceHolds`, `StagedUsedOnceHolds` and `ChainUsedOnceHolds` are the refinements of
`SingleUse`: under the store's invariant every action leaves the five abstract variables alone or
is one of its steps. The invariant is what the step lacks by itself: that the caller who
launches holds the grant now on disk, that the leaf to be replaced is the one that was inspected,
that no terminal record is there yet. They hold for any number of processes and are not repeated by
the run `Components`; added to the `PROPERTIES` of `Components.cfg` (`NativeUsedOnce`,
`StagedUsedOnce`, `ChainUsedOnce`) TLC confirms them on its instance.

**`ServiceProofs`.** `LedgerTruthfulInvariant`, `NoCaptureWithoutExamInvariant` and
`NoLateAnswers` (`NoAnswerAfterCapture`) from `WorkInv` (`LinksSound`, `OpSound`: what each step
of a request has committed in which store; `LoopSound`: what a handler read stays true until it
acts). `GuessesBoundedInvariant` and `TokenLifetimeHolds` (`TokenLifetime`) from `AccessInv`: the
counter is the number of guesses, and from the last free guess on a cool-down lies between two
of them. `ExportUnambiguousInvariant` from `ReviewInv`, for recordings and review histories of
any length: `latest` and the order of first reviews are characterised by lemmas, not unfolded.
`EventsBackedInvariant` from `RuleInv`, for recordings of any length: frames come in order of
time; the rows of a signal are borne out by the frames (`Backed`); while an event is open the last
row is its own and every frame since its start bears it out (`Running`); otherwise all rows have
ended (`Waiting`), and the frames since a pending label show it (`Pending`). The lemmas
`AdvanceWaiting` and `AdvanceRunning` list the outcomes of `advance`. `SyntheticEvidenceSoundInvariant`
from `SynInv`: what the runner has seen is in order with its accepted times below the runner's
last readings (`WorkerSound`); an ended record has no receipt, one of a failure, or one with a
sound artifact (`RecordsSound`); the bundle is of an ended record, which never changes again
(`BundleSound`); the lock of an export keeps `close` from passing it and a reproduction compares
the bundle at hand (`UseSound`). `OnlyVerifiedServesHolds` from `RegistryInv`: what is pointed to,
cached, about to be stored field by field, or in use has passed every check (`CallerKnows`,
`ImportKnows`), and as long as no call of the capture worker has overlapped the last import the three
fields of the cache belong together, or to what a call is storing or the import is clearing
(`CacheAgrees`), for each interleaving of the two threads.

**`ComponentsProofs`.** `EvaluationExactHolds` and `RunReceiptExactHolds`: the code judges with
percentiles of sorted lists and running sums, the reference definition with counts of frames, and
the two agree for runs of any length. `RankWithin` is the bridge: the nearest-rank percentile of
some values is within a limit exactly when that share of them is. `Ranks` defines the percentile as
the least value with enough places at or below it, which is the entry of the sorted list at that
rank; so no recursion is left to reason about. For the native run, `MeasuredFrom` and
`LongestWait` say that the totals kept frame by frame are those of the frames kept, `Passing` that
a run passes the code's tests iff it is one of `AcceptableRun`, `ResultSound` what each result of the
worker implies about its receipt, and `ParentRefuses` that a receipt that came through the pipe
has lost its measures and is never a PASS; `RunInv` puts these together over the phases of a run. Where
an induction over frames is needed the proof takes a least counterexample instead.
`EachComponentRuns` lifts: a behaviour of `Components` is, for each module, a behaviour of that
module's own specification, because the steps of the others leave its variables alone.
`ComponentsSafe` and `ComponentsActions` conclude that `Components` satisfies every property its run
checks, and the three refinements of `SingleUse`, for every value of the constants.

Only model-checked:

* `RecoveryEnds`, `CameraReleased`, `MonitorCatchesUp`, `AttemptEnds`: liveness; fairness and
  `ENABLED` are outside the prover.
* The four violations are TLC's counterexamples, as are those of the three invariants named in
  section 6 without a run.

## 6. Findings

* `WithdrawalAvailable`, `RuntimeEraseStuck`: `withdraw` unlinks artifacts inside a
  transaction; when a later unlink raises, the session is SEALED again with files
  missing, and every later withdrawal fails the manifest check.
  A second way into the same state needs no failing unlink: a `recover` that dies after
  its renames renames the quarantined files again when it is repeated, to names the
  inventory of `withdraw` rejects (the same run with `MaxCrashes = 2` and unlinks that
  succeed has such a trace).
* `MonitorComplete`: `_reconcile_runtime` persists an event and publishes it to
  nobody; a connected monitor's resume point passes it with the next live event.
* `CompletePlanFinalizes`: the final receipt asks for an attempt whose run is COMPLETED
  (`reconciliation_execution.py:738`), and the run is completed in a transaction of its
  own after the last target (line 545). A process that dies in between leaves a complete
  plan, an interrupted run and nothing another run could take up.
* `UndisturbedPasses`: `WORKER_CAPTURE_TIMEOUT_SECONDS` equals `PREFLIGHT_SECONDS`
  (`m2_d1_native.py:44`). The worker stops at the first frame that is 60 s after the first one
  and then ends the camera; the monitor gives up, or rejects the closing stamp, at 60 s.
  The evidence of a PASS asks for at least 60 s. The three cannot hold together, so the
  positive lifecycle of `M2_D1_N2_DIAGNOSTIC_RECOVERY.md` is never completed.
  `DiagnosisExact` shows that two ticks more in the window are enough.

Three more invariants state what a document says of the code and do not hold. They have no run of
their own; added to the `INVARIANTS` of the run named, TLC violates each of them:

* `PartialsQuarantined` (`GovernanceRecovery`): recovery passes over every InvalidTransition of
  `_partial_file` (`m1.py:1407`), also when the partial is still there (symlink or reparse
  point, not a regular file, an OSError). The intent becomes QUARANTINED, the file stays in
  `staging/partials`, and no later recovery looks at it; `M1_PERSISTENCE_SPEC.md:75` says that a
  pending partial is quarantined.
* `EveryLeaseClosed` (`Components`): an exception between an open and the hand-over of its
  handle leaves it open, and the preparation may still end CLEAN
  (`m2_d1_n2_prepare.py:342`, `354-474` with `650-651`, `m2_d1_n2_native.py:107-120`, `196-201`,
  and an exception out of `FixedA0Verifier.verify`). The A0 remediation design (line 401) asks
  that every exception closes all leases exactly once.
* `ActivatedServes` (`Components`): two imports and a call of a capture worker that did not stop
  in time leave the cache with the active bundle's digest and fingerprint and the other bundle's
  runtime (`model_import.py:307-327`), which every call then uses until the next import.
  `MODEL_EVALUATION_SPEC.md:71` says that an import atomically activates the version. In the same
  gap the runtime returned can be None (line 314), and the AttributeError fails the session.

Read off the models, without a run of their own:

* `confirm_operator_consent` checks mutability before it looks for the stored response
  (`m1.py:1062`): a consent request repeated after a withdrawal is refused, where
  `M1_PERSISTENCE_SPEC.md:69` promises the stored response.
* `run_local` puts all targets IN_PROGRESS at once and `recover` turns them into
  RECOVERY_REQUIRED whether or not a snapshot was committed; `authority_binding` then
  refuses every further run. The design's crash table says such a target is left pending.
* A driver that fails after the authority was consumed and returns no receipt leaves no
  terminal record (`m2_d1_n2_native.py`, `D1N2ExecutionBridge.run`); the prepared-authority
  design says that terminalization occurs on every post-consume path.
* `FixedRP2Verifier._open`, `FixedBootstrapReader._close_failure`, the approval source and the
  second enumeration ignore the result of a close, and a CLEANUP_FAILED of the attestation is not
  carried into `D1N2PreparationResult`: `LeasesAccounted` excepts those handles by name.
* The terminal evidence of an N2 attempt does not ask whether the camera child ended
  (`m2_d1_n2_evidence.py:349-360`); the job that was drained stands for it
  (`CaptureWorker.Evidence`).
* The evaluator passes a run with a stage NOT_ATTEMPTED, which its verifier rejects; refusals
  for want of disk, and privacy stops by injection or by a failed frame, never verify.
  `EvaluationExact` states these exceptions.
* Receipts with AUTHORITY_FINALIZATION_FAILED never verify; an undrained worker's receipt is
  replaced by WORKER_PROTOCOL_FAILURE with `raw_retained` false; `ffmpeg_lease_closed` is true
  in receipts that measured no frame (`NativeReceipt`).
* The staged store compares grant times that were written before a reboot with a clock that
  started again (`_grant_unexpired`): a grant can seem not yet issued, or alive again.
* A reproduction that fails after its workspace was removed reports NOT_CREATED
  (`SyntheticRun`).
* Two frames in the same millisecond make `advance` raise, which fails the session; a frame
  that supports an event after a gap without frames continues it, however long the gap
  (`TemporalRules`).
* Overlapping decisions with one label, one CONFIRMED and one UNCERTAIN, do not conflict; the
  event reviewed first decides whether the frame leaves with the label (`SessionReview`).
* A change of a version's files that keeps their sizes and times is not seen while their runtime is
  cached: predictions go on, and only a status verifies the files (`ModelRegistry`, `disguised`).
* N1's `_emit_worker_phase` raises for FIRST_FRAME and CAPTURE_CLOSED
  (`m2_d1_native.py:3032`), so an N1 attempt fails at its first frame; `CaptureWorker.Emits`
  keeps that. A video child that cannot be started is reported as CLEANUP_INCOMPLETE,
  because no pipe was closed.

## 7. Plan

1. M1-R1 migration (readiness receipt, backup, authority) beside `Reconciliation`, and the
   root lease and verified reads beside `ArtifactStore`.
2. The bounded queue of the camera child, contamination windows and focus context.

## 8. Not modelled

Neural inference and pose extraction (numeric), Win32, CNG and OpenCV calls (their
outcomes are nondeterministic where they matter), canonical JSON and digests (a
digest is what it is a digest of), pages and styling of the web client, training,
packaging and audit scripts. Requests that are functions of
themselves alone (origin, host and CSRF checks, schema validation) and parsers of fixed
formats are outcomes chosen freely where a caller distinguishes them. The M1-R1 migration, the
camera child's queue and the root lease are in the plan above.
