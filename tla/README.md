# Verification of phelix

phelix is a command-line deployment tool: it builds applications, runs them as
native processes or containers, puts a local reverse proxy in front of them and
replaces them without downtime.  This directory holds TLA+ models of its core,
the TLC configurations that check them, and TLAPS proofs about them.

## 1. The system

### Parts, their state and their operations

| Part | State | Operations | What makes it hard |
|---|---|---|---|
| Blue-green engine (`internal/deploy/bluegreen.go`, `state.go`, `instance.go`) | `deploy.json` (the journal: mode, active slot, slot records, replicas, retiring), the processes | `Deploy`, `MigrateTo`, `recoverStaleSlots` | about twenty calls to three parties (processes, journal, proxy), each of which may fail; the process may be killed between any two |
| Stop, start, migration to classic (`lifecycle.go`, `cmd/lifecycle.go`) | same | `TeardownDeployment`, `StartDeployment`, `RestoreProxyRoute`, `migrateToClassic`, port handoff | operate on a journal an interrupted deploy may have left |
| Version store (`version.go`) | `versions.json`, `current` symlink | `PromoteVersion`, record, prune | two files that must agree with the journal |
| Deploy lock (`lock.go`) | an OS file lock, mirrored in `deploy.json` | `AcquireDeployLock`, `TryLoadLock`, `deploy unlock` | lost with its holder; the mirror is written without it |
| Proxy daemon (`internal/proxy`) | routing table, `proxy-state.json`, per-backend statistics | Add, Switch, Remove, Status; weighted choice per request | target replacement under requests; unsynchronised persistence; restart |
| Rolling and canary (`rolling.go`, `rollout.go`) | replicas, canary record | replace one by one; weighted steps with verification | partial progress, interruption |
| Secret transactions (`secrets_txn.go`, `internal/secrets`) | pending bindings, stamp in the journal | reconcile, commit, discard, drain retired instances | crash recovery across two stores |
| Request-key ledger (`internal/ops/ledger.go`) and its user `cmd/oprun.go` | one JSON file shared by all processes | `BeginKey`, `CompleteKeyData`, orphan clean-up, eviction | several processes, crashes, PID reuse, a full ledger |
| Webhook pipeline (`internal/webhook`) | delivery ledger, job store, per-app queues | accept, enqueue, rebuild with retries, recover after restart | at-least-once delivery, three stores written in turn |
| Worker supervision (`internal/supervisor`, `worker*.go`) | replica records and rollout journal in `deploy.json`; handles, probe counters and restart counters in the monitor | supervisor pass, worker deploy and its revert, start, stop, restart, scale, recovery | two processes take turns on one file; exits race manual restarts; a deploy that fails half-way |
| Classic applications (`internal/app`, `cmd/rebuild.go`, `cmd/rollback.go`, `cmd/restart.go`) | `apps.json`, the binary and its backup, `deploy.json`, `versions.json`, the secret store | rebuild, rollback, restart, secrets set and apply, stop, start, restoration at boot | five records no single write covers, compensation after a failure, records read before the lock |
| Remote commands (`internal/grpc`), matrix builds, workspaces, sessions and plans, authorization, self-update | their own ledgers and journals | see `PROJECT.json` | de-duplication, cancellation, plan staleness |
| Builders, tool chains, env files, schemas, logs, monitoring | - | I/O | not modelled |

The deploy engine calls the proxy daemon over a Unix socket and keeps what it
has done in the journal; `rebuild`, `rollback`, `stop`, `start`, the webhook
executor and remote commands all go through the engine under the per-app deploy
lock.  The ledger stands in front of the mutating commands.

### Properties that make the parts correct

* Deployment: requests only ever go to instances that passed their check; no
  operation stops an instance that serves; a failed deploy leaves the app
  served (section 3, *Blue-green*, says where it does not); journal, proxy and
  version store agree when no operation runs, and a later deploy repairs the
  disagreement a crash has caused; no running instance drops out of the records.
* Ledger: one execution per key at a time; the record of a running operation is
  never lost; what is replayed is the result of that very request.
* Proxy: the split follows the weights; a restart restores what was enrolled.
* Webhooks: a delivery is rebuilt at most once, a refused one is forgotten, every
  job ends, and none is called a success it was not.
* Rolling: a deploy never serves with less than the fleet it found.  Canary: a
  rollout that ends leaves the traffic with the instance it records; that an
  interrupted one always converges on *stable* is finding 4.
* Workers: a deploy that reports a clean failure has brought the old version
  back; a stop stays a stop; no process is forgotten.
* Classic applications: bindings, process and binary succeed or fail together,
  and no launch outlives the transaction it belonged to.

The hazards, each at its line, are in `PROJECT.json`.

## 2. Modules

| Module | Models | Built on |
|---|---|---|
| `Service` | abstract: what a deployment promises to an app's users | - |
| `BlueGreen` | deploy, rollback, stop, start, reconcile, migration to classic of one app | instantiates `Service` |
| `MCBlueGreen` | two instances for TLC, side by side | `BlueGreen` |
| `BlueGreenProofs` | proofs that hold for any faults, about operations that meet one fault, and of the refinement | `BlueGreen` |
| `RequestLedger` | the ledger with clients that respect its answers | - |
| `OpRun` | the ledger as the CLI commands use it | `RequestLedger` |
| `MCRequestLedger` | instances for TLC | `OpRun` |
| `RequestLedgerProofs` | proofs | `RequestLedger` |
| `WebhookPipeline` | the webhook daemon: handlers, delivery ledger, job store, queue, executor, restart | - |
| `MCWebhookPipeline` | instances for TLC | `WebhookPipeline` |
| `WebhookProofs` | proofs | `WebhookPipeline` |
| `DeployWorld` | what rolling and canary deploys touch and do not own: processes, `deploy.json`, proxy table, and how each touch fails | - |
| `Rolling` | rolling deploy, stop and start of a fleet, migration from classic and blue-green | `DeployWorld` |
| `Rollout` | canary and progressive rollout, its recovery and reconciliation | `DeployWorld` |
| `RollingProofs` | proofs | `Rolling` |
| `RolloutProofs` | proofs | `Rollout` |
| `ProxyDaemon` | the proxy's control connections, listeners, state file, restart | - |
| `ProxyProofs` | proofs | `ProxyDaemon` |
| `ProxyRouting` | target replacement and weighted choice under requests | - |
| `WorkerFleet` | supervisor, worker deploy and revert, worker commands | - |
| `WorkerProofs` | proofs | `WorkerFleet` |
| `ClassicApp` | a classic application with secrets and all commands that replace it | - |
| `ClassicProofs` | proofs | `ClassicApp` |
| `MCRolling`, `MCRollout`, `MCProxy`, `MCWorkerFleet`, `MCClassicApp` | instances for TLC | the modules above; `MCProxy` extends `ProxyDaemon` and instantiates `ProxyRouting` |

### BlueGreen

An operation holds the deploy lock and runs a sequential program.  `pc` names
the next call it makes to something it does not own, `mem` is its in-memory
`DeployState`, `loc` its local variables (`pre` = `captureMode`, `legacy`,
`slot` = `inactive`, `active` = `oldActive`, `cand` = the launched process,
`switched`, `proxyOK`, `enrolled`).  Each such call is one action, with its
success and its failures as disjuncts; what the code computes between two calls
belongs to the action before or after it.  `disk` is `deploy.json`, `current`
the version `versions.json` marks current, `route` the proxy's targets for the
app, `alive` the running instances, `classic` a process outside the proxy that
owns the public port.

| Steps of `pc` | Code |
|---|---|
| `drain`, `storeDrained`, `reconciled` | `ReconcileSecretTxn` without a pending transaction: `drainSecretRetirements` |
| `load`, `migrate`, `recover`, `storeRecovered`, `probe` | `Deploy` 140-209 |
| `build`, `storeStarting`, `health` | 211-293 |
| `cutover`, `add`, `abort`, `storeAborted` | 295-383, with `handOffPublicPort` |
| `commit`, `compensate`, `promote`, `demote`, `bestKnown`, `retire`, `stopRetired` | 385-473 |
| `stopLegacy`, `stopOld`, `storeFinal`, `fail` | 474-514 and the deferred hook 169-182 |
| `unroute`, `teardown`, `storeTorn` | `runDeployAwareStop`, `TeardownDeployment` |
| `launchActive`, `listen`, `storeStarted`, `undoStart`, `restoreRoute` | `runDeployAwareStart`, `StartDeployment`, `RestoreProxyRoute` |

Instances are numbered in the order of their launch; the number stands for the
PID and for the internal port, because neither is reused within a behaviour and
the code guards signals by executable path.  Ports outlive PIDs in the records,
as in the code: a stopped slot keeps its port, and compensation uses it.

Faults are those the code handles or meets: a `Store` that fails before or after
its rename, a proxy call that is lost or whose reply is lost, a `Status` that
fails while `Ping` answers, a promotion that fails and is restored, a stop that
cannot be confirmed, a kill between any two steps, an instance that dies, a
daemon that comes back without its routes, and the unlocked `RemoveState` at the
end of a migration to classic.  `Faults` selects the kinds a run admits,
`MaxFaults` how many of them one operation meets.  `before` is who served when the
operation began, the classic process counted as `0`.

Abstractions: one app, native runtime, no pending secret transaction; health
checks, builds and launches are nondeterministic outcomes; the lock mirror in
`deploy.json` (written under the lock, no field modelled here) is left out; an
automatic rollback after a failed deploy is a further operation; the rolling
strategy appears as a starting situation.  The second branch of the deferred
hook (`pre.mode == ""`) is dead code, since `LoadOrInit` always sets the mode,
and is not modelled.

### RequestLedger and OpRun

`begin` and `complete` are critical sections under a blocking file lock:
`Initialize` takes the lock and re-reads the file (a process's first load closes
orphaned entries and persists that), the next action decides on the view,
persists and unlocks.  A crash in between loses the lock and the view.  A run is
one admitted execution; runs are numbered in admission order, which is also the
order of the entries in the file.  `old` is set once an entry exceeds
`abandonedInProgressAge`; the model takes the code's word that no live run is
that old.  `outcome` is the history of what really happened to each run.
`OpRun` adds what the CLI does after a refusal: the deferred `finish` completes
the key.

### WebhookPipeline

Four kinds of actors share the daemon's state: request handlers, the app's
worker, the stage detector that reads a rebuild's output, and the daemon's own
start and shutdown.  Beside them live the rebuild processes, which outlive the
daemon, and operators who take the same deploy lock.

| State | Code |
|---|---|
| `ledger` | `DeliveryLedger`: `order` in memory and on disk, and the sticky `err` |
| `req` | `handleWebhook` of each request: `recorded` (after `SeenOrRecord`), `created` (after `Create`), `enqueued`, or on the way back `uncreated`, `unqueued`, `rejecting`; then its reply |
| `jobs` | `JobStore`; `update` keeps memory and disk equal, so one variable stands for both.  `none` is no record, `expired` one that retention removed, `interrupted` is `failed` with `WEBHOOK_JOB_INTERRUPTED` |
| `queue`, `worker` | the app's channel and `run`: `select`, `syncing`, `waiting` for the deploy lock, `running`, `stopped` |
| `sub` | the `phelix rebuild` process of a job |
| `app` | deploy lock, current version with the time of its deployment, newest automatic rollback relative to the executor's baseline |
| `daemon` | `up`, `draining` (HTTP shutdown), `closing` (`Queue.Close`), `down` |

Each write of a store is one action with its failures: a ledger write may fail
before or after its rename; a failed ledger write poisons the ledger until the
daemon restarts; a failed status write is ignored, as in the code.  Requests are
numbered in the order of arrival, and `DeployedAt >= AcceptedAt` compares these
numbers.  The check of the stop channel is part of the step that ends a job.

Abstractions: one app (workers of different apps share only the two stores);
authentication, parsing and branch matching are the arrival of a request; git
preparation, builds and deployments are outcomes; job stages, which no
transition depends on, and the failure to delete an expired record are left out.

### DeployWorld, Rolling and Rollout

`DeployWorld` declares the state outside an operation, numbered instances as in
`BlueGreen`, and gives every touch its outcomes once: `StoreOK`/`StoreFails`,
the proxy calls, `StopOK`/`StopFails`.  The two deploy modules use them; each
has `pc`, `mem` and `loc` as `BlueGreen` has.

| `Rolling` | Code |
|---|---|
| `LoadState`, `MigrateTo`, `PlanFleet`, `Build` | `RollingEngine.Deploy` up to the loop |
| `LaunchReplacement`, `StoreReplacing`, `HealthPasses`/`HealthFails`, `HandOffPublicPort`/`HandOffServed`, `SwapMembership`, `Commit`, `DrainOld`, `StopLegacy` | `rollOne` on its way forward |
| `Discard`, `StoreRestored`, `Compensate`, `StoreBestKnown`, `StoreBack`, `StopCandidate`, `FailedAt`, `UndoMigration`, `Cancelled` | `rollOne` and `Deploy` on the way back |
| `StopSurplus`, `StoreFinal`, `Promote` | the shrink and the end of `Deploy` |
| `RemoveRoute`, `Teardown`, `StoreTorn`, `StartReplica`, `StoreStarted`, `UndoStart`, `RestoreProxyRoute` | `runDeployAwareStop` and `runDeployAwareStart` for a fleet |

| `Rollout` | Code |
|---|---|
| `Refuse`, `ResolveStable`, `MigrateTo`, `StoreAdopted` | preconditions, the stable instance, adoption of a rolling fleet |
| `RecoverRoute`, `StoreRecoveredAborted`, `RecoverStaleSlots` | what an interrupted rollout left |
| `CheckEnrolled`, `LaunchCanary` ... `StoreRunning`, `StopUnrouted`, `StoreFailed` | the canary up to its health gate |
| `HandOffPublicPort`, `SwitchTraffic`, `StoreStep`, `VerifyPasses`/`VerifyFails`, `StopLegacy` | one step of the plan |
| `RestoreStable`, `StoreBestKnown`, `Settle`, `StopCanary`, `FinishAbort`, `UndoMigration` | abort |
| `StorePromoted`, `PromoteVersion`, `DrainOld`, `StoreFinal` | promotion |
| `ReconcileCanary`, `StoreAccepted`, `StopStable`, `StoreStopped`, `Drain`, `StoreDrained` | `ReconcileSecretTxn` over a journal without a transaction |

`checkEnrolled` reads a failing `Status` as "not enrolled" (`PlanFleet`,
`CheckEnrolled`).  The first replacement or traffic step then finds the public port
taken, by the proxy itself, and hands it off: `stopPublicPortOwner` stops the process
that `apps.json` names, which `reconcileAppWithDeploy` has made a serving one or nobody
(`HandOffServed`, and `HandOffPublicPort` in `Rollout`); the port stays bound, so the
operation gives up.

A weighted split is the set of instances with a positive weight; the weights
themselves are the subject of `ProxyRouting`.

### ProxyDaemon and ProxyRouting

`ProxyDaemon` has one step per access to shared state: the daemon's lock covers
a lookup or a replacement in the table and a snapshot, never `SetTarget`, the
listener or the file.  A connection's handler goes `Arrive`, `Lookup`, then
`Swap` (same port) or `Bind`, `Install`, `Retire` (new port or first enrolment),
then `Snapshot` and `Write`.  `Serve` is the goroutine that a listener gets;
`ListenerDies`, `Crash`, `Shutdown`/`Exit` end things, `Restart` is
`restoreState` with `reconcileBackends`.  A route is the sequence of backend
hosts, the primary first, as `SetTarget` normalises it.

`ProxyRouting` is one `Proxy`: `Publish` stores the new targets, `Reset` the
counters in a second step; a request takes the published targets, keeps the
healthy ones (`Arrive`) and later takes a turn among them under the counters'
lock (`PickWeighted`).  The two modules share only the calls of `SetTarget`, which
`ProxyRouting` admits at any time, so `MCProxy` runs one plane with the other at
rest.

### WorkerFleet

The supervisor in the monitor and the commands of the CLI take turns under the
per-app lock; between turns processes exit.  `state` is `deploy.json` (replica
records, desired state, rollout journal, retirements), `handle` and `fails` what
the supervisor alone knows: the process it launched for a slot and the slot's
failed probes in a row.

| Actions | Code |
|---|---|
| `Pass...` | `Reconcile`, `reconcileReplica`, `applyPolicy`, the probe |
| `StartSlot`, `StopSlot`, `RestartSlot`, `Relaunch`, `GrowSlot`, `ShrinkStop`, ... | `WorkerStart`, `WorkerStop`, `WorkerRestartReplica`, `WorkerScale` |
| `DeployLoad`, `Build`, `Roll...`, `Classic...`, `Promote` | `WorkerEngine.Deploy` with both strategies |
| `Revert...`, `Reverted` | the revert after a failure and the recovery of an interrupted deploy |
| `Exit`, `Killed`, `MonitorRestart` | the environment |

Back-off, stable window and startup timeout are over or not; no secrets are
bound.

Four history variables carry what the properties excuse.  `unsaved`: the operation
ignored the error of a `Store`.  `stopped`: the fleet was stopped by command, its
record was written, and nothing has started it since.  `lostHolder`: an operation was
killed, or `replaceOne` could record neither its undo nor the start of the revert, so
that the journal still names a replacement that is gone.  `astray`: processes whose stop
could not be confirmed, or whose record `WorkerScale` wrote over (section 3, *Workers*).

### ClassicApp

Nine kinds of command (`rebuild`, `rollback`, `restart`, `set`, `apply`, `stop`,
`start`, `restore`, and `settle`, the recovery at the monitor's start) resolve the
application, take the deploy lock and run step by step.  `store` is the secret
store (bindings, value, pending transaction, last apply), `journal` the secret
part of `deploy.json`, `apps` the application's record, `bin` the binary and its
backup, `mem` the manager's copy of the record, `early` what the next command knew
before it had the lock: it resolves its application while this one runs (`Resolve`),
and may begin with that view (a fault of its own kind).

| Steps | Code |
|---|---|
| `Resolve`, `Begin`, `Reconcile`, `CommitTxn`, `Reclaim...`, `Kill`, `DiscardTxn` | `GetAppInfo`, the lock, `ReconcileSecretTxn` and what it derives |
| `BeginTxn`, `Check`, `Capture`, `BackupBinary`, `CopyBinary`, `Build` | `runClassicRebuild` and `rollbackClassic` before the stop |
| `StopExisting`, `StopApplication`, `SaveStopped`, `Start`, `Launch`, `SaveStarted`, `StopNewlyStarted` | `AppManager` |
| `Accept`, `RefreshJournal`, `Promote`, `DiscardBackup`, `Finish` | `acceptClassicSecrets` and the successful end |
| `Undo`, `Decide`, `Compensate`, `RestorePrior`, `StartPrior`, ... | `runClassicRebuild`'s deferred restoration, `compensateClassicRollback` |
| `Unaccept`, `Withdraw`, `Relaunch`, `Unstamp`, `SaveRelaunch` | `RestartApplicationWithSecrets` on the way back |
| `SetValue`, `ReplaceBindings`, `Change`, `Follow`, `RecordSkipped`, `Record` | `secrets set`, `secrets apply` |

A launch with a pinned set carries the transaction's tag, which is how
`reclaimSecretLaunches` finds it.  Left out: the container runtime, the merging
of `apps.json` fields written by another process, applications without secrets
(their restart takes no lock), and the stamp without `SecretCleanupPending`,
which no path of a classic application writes.

## 3. Runs

| Run | Result | Shows |
|---|---|---|
| `bluegreen` | pass, 2.5 million states | with one failing call per operation: types, only proven instances routed, no serving instance stopped, no live instance dropped from the journal, journal and versions agree between operations, a failed deploy leaves the app served, and `BlueGreen` implements `Service`; with two faults per operation, crashes, lost replies, failing `Status`, unconfirmed stops, migrations from rolling and to classic: the next completed deploy restores agreement |
| `rolling` | pass, 3.6 million states | with any two faults per operation: only proven instances routed, the fleet never serves below its strength and no serving instance is stopped unless a lost reply or a failing `Status` misleads the engine, a completed deploy leaves one version recorded, running and routed; with one fault, no instance is lost |
| `rollout` | pass, 2.3 million states | with any two faults per rollout, kills included: only proven instances get traffic, no instance with a share is stopped unless the engine is misled or met a failing `Status`, and a rollout that completes, or fails without a fault of its own, leaves the traffic with the recorded instance wherever earlier ones were killed |
| `rollout_interrupted` | violation | finding 4 |
| `proxy` | pass, 1.8 million states | the state file follows the routing, a restart brings it back, every listener is accounted for; the turns follow the weights within one turn, and exactly after each round |
| `workers` | pass, 2.2 million states | two commands or deploys, one fault, one process that exits by itself: honest failures, no orphans, stops honoured, a rolling replica drained only behind a proven one |
| `worker_handle` | violation | finding 2 |
| `classic` | pass, 5.5 million states | commands killed at any step, two faults each, records read before the lock: no launch of a discarded transaction survives, a recorded apply is true; with one fault, a failed command leaves the old service or an accepted new one |
| `request_ledger` | pass, 1.3 million states | with every fault: mutual exclusion, no running operation forgotten, replays faithful, results final |
| `oprun` | violation | finding 1 |
| `webhook` | pass, 1.06 million states | two requests and any two failing calls, stops or manual operations: one rebuild per delivery, refusals forgotten, open jobs in somebody's hands, successes earned, statuses forward only, and every job ends |
| `webhook_redelivery` | violation | finding 3 |

### Bounds

*Blue-green.*  Three instances suffice for an active instance, a candidate, and
one more operation after an interrupted one; the two slots cannot hold more.  One
fault per operation (kills and deaths are not counted) puts a failure at every
call, and successive operations may each meet one.  A failed `Store` followed by
a failed compensation does break the properties (the proxy stays on a candidate
the journal does not name, which the code reports as "compensation
unavailable"), so the single fault is also the claim.  The run holds two instances of
the module that share nothing; in a behaviour one of them runs.  The second admits
two faults per operation, so that compensations fail as well, and asks only for
what the next completed deploy makes good (`RecoveryRestoresAgreement`).

*Rolling and rollout.*  Four instances are two replicas and two replacements, a
classic process and a fleet with one replacement, or stable, canary and a second
rollout after a killed one; two replicas separate
"the one being replaced" from "another one"; two steps separate a split from the
full switch.  Two faults per operation let the compensation fail too; `misled`
marks the behaviours in which a lost reply, a failing `Status` or a failed restoring
call has left the engine with a wrong idea of the routing.  A
rollout is also misled from the start when the operation before it met two
faults or more: a promotion whose compensation could not be recorded leaves
`deploy.json` naming the canary while the proxy is back on stable.  Both end with
the next completed rollout.  In `Rollout` a failing `Status` does not set `misled`:
`NoServingKill` excepts only the hand-off it leads to.  `rollout_interrupted` needs no
fault but kills, and three instances.  The proofs hold for every number of instances,
replicas, steps and faults, so these bounds only limit what TLC sees.

*Proxy.*  Two apps contending for two ports, two connections, three requests, one
outage; two backends, one of them also listed twice.  The data plane has a
canary split, an unweighted triple and an unequal triple, two requests at a time,
two replacements and six turns, the length of a full round.  Apps and connections
are symmetric: no definition orders them, and only invariants are checked.

*Workers.*  Two replicas, two versions and four processes, so that a deploy can
replace both replicas, or replace one and, the other failing, revert it; one restart
attempt and two probe retries separate "once more" from "given up".  The proofs hold
for all of these and for any number of faults and operations.

*Classic.*  Four processes, two transactions, two versions, two values and two
binding sets: a second command always differs from the first in all of them.
`deploy.json` does not exist at first (`Journaled`): with it the run passes as well,
on 7.9 million states.  One waiting command at a time has a view taken before the lock.
`LaunchesAccounted` leaves out the processes in `doubled`, which ran when a restoration
began on a record that had them stopped: it launches a second process and records that
one (section 3, *Classic*).
`FailureRestores` excuses a command that has met both faults (the restoration may
have failed as well), one that acted on a stale record, an application that died, a
rollback that could not save its stop, and an application beside which an unrecorded
process ran when the command began (section 3, *Classic*).  Four processes are too few
for the last case to matter: it takes a crash, a start after it and the command.

*Ledger.*  One entry of capacity for two keys, so that each admission evicts, and
three processes: two contenders and a third to clean up.  Processes, keys and
fingerprints are symmetric, for the same reason as above.

*Webhooks.*  A ledger, a queue and a job history of one entry each, so that the
second request meets every limit.  Two requests give all pairs of concurrent
handlers, a duplicate before and after a restart, and a redelivery after a
refusal.  Two rebuild attempts instead of three still separate a retry from the
last attempt.  `MaxTrouble` counts failing calls, stops and manual operations
together.  `webhook_redelivery` needs no failing call and one stop.  `DeliveredOnce` promises nothing for a
delivery whose entry is evicted while its own handler is still at work: with 512
entries that takes 512 other deliveries within one handler.

### Deadlock and fairness

Deadlock checking is on in the deployment, classic and ledger runs: between
operations another can always begin.  It is off in the webhook, proxy and
worker runs, where the bounded requests, commands and processes may all be used
up.

Fairness is assumed only for `JobsEnd`: handlers and the worker are goroutines,
rebuild processes and manual operations end, `Queue.Close` and the end of the
process are bounded by timeouts, and a service manager starts the daemon again.
Arrivals, crashes, shutdowns and the start of manual operations are not fair.
The property excuses jobs only after a failed status write or an unreadable
deploy lock: after either, the code leaves the record open until the next start.

### Findings

1. A command whose request key is refused still completes that key when it
   returns, so the entry of the process that is executing it is closed with the
   refusal, which later callers get as the result (`oprun`).
2. The supervisor applies the exit of the process its handle is for to whatever
   process the record names by then: after `worker restart` the old process's
   exit closes the record of the new, live one (`worker_handle`).
3. A delivery is recorded before its job exists.  If the daemon dies in between, the
   redelivery is acknowledged as already processed and no job ever exists
   (`webhook_redelivery`), against `server.go:236-240`, "GitHub must never be told
   "accepted" while Phelix holds no durable record of the job", and
   `docs/guides/webhooks.md:155-157` and 211.
4. A rollout whose canary failed its verification, killed before it stopped that
   canary, leaves a `retiring` record.  `ReconcileSecretTxn` takes such a record for
   the sign of an accepted rollout, so that after the next rollout was killed at its
   first traffic step it promotes the unverified canary (`rollout_interrupted`), against
   "an interrupted rollout always converges on stable" (`rollout.go:37-39`).  It does
   not ask whether that canary is alive either.

### Observations

Behaviours met while the properties were being stated.  Each explains a guard or
an excuse in a property; none has a run of its own.

*Blue-green.*
* A crash between the proxy switch and the post-switch `Store` leaves the
  candidate serving in a non-active slot; the next deploy's `recoverStaleSlots`
  stops it, against its comment that such a process "cannot be receiving traffic"
  (`bluegreen.go:576`).
* When `Ping` succeeds and `Status` fails, an enrolled app is taken for an
  unenrolled one, and the port handoff stops the instance that serves.  The comment
  at `cmd/lifecycle.go:278` says that it only ever stops the classic process.
* A first enrolment from a classic process stops that process before its `Add`
  (`bluegreen.go:320-342`).  If the `Add`, or the commit after it, then fails, the
  candidate is retired and nobody serves: no path starts the classic process again.
  `FailedDeployKeepsService` counts the classic process among those who served when
  the deploy began and gives it up at the hand-off, which is where the code does.
* In a rolling to blue-green migration a failing post-switch `Store` makes the
  compensation remove the app from the proxy while its old replicas are alive.

*Rolling.*
* After a failing `Status` the hand-off stops a serving replica (section 2), although
  the comments at `rolling.go:646-649` and `rollout.go:741-744` expect the first `Add`
  to "fail with a clear error".  The same happens in a canary rollout.
* A deploy cancelled after some replicas were replaced leaves `ActiveVersion` at
  the old version.
* A shrink whose stop fails leaves the surplus replica alive and unrecorded.
* A blue-green to rolling migration whose first persist fails routes to
  `127.0.0.1:0`.
* A replica a crash left as `replacing` is dropped from the membership by the
  next deploy.

*Canary.*
* When the call that restores the stable routing fails, the canary is kept as
  `failed` and still routed; the next rollout's `recoverStaleSlots` stops it.  A
  lost reply of the first switch has the same effect at once.
* A crash in the middle of an adoption leaves the old fleet unrecorded.

*Proxy.*
* Two parallel enrolments may leave the older of their snapshots in
  `proxy-state.json`, against the comment at `control.go:87-91`.
* The first multi-target `SetTarget` publishes targets before the counters' map
  exists; a request in between writes to a nil map and its handler panics.
* A `Shutdown` that comes before `Serve` leaves the listener open.
* A restart drops backends that do not answer and does not rewrite the file.

*Workers.*
* `WorkerScale` grows from the number of records (`worker_manage.go:263`), not from the
  free slots.  With replicas in slots 0 and 2 it launches over slot 2 and the process
  that ran there is in no record.  Such a fleet comes from legal steps: a deploy that
  only has to replace slot 2 fails in its promotion and leaves its journal open, a
  scale-down removes slots 1 and 2, and the recovery at the monitor's start brings slot
  2 back.  It takes three replicas; the attempt to prove `NoOrphans` showed it.
* Two failing `Store`s in one deploy leave the old process unrecorded; a crash
  between the launch's `Store` and that of `ReplacedFrom` makes the recovery call
  the slot done with its old process an orphan.
* The final `Store` failing after `PromoteVersion` makes a later recovery revert
  a promoted version.
* `WorkerStop` ignores the `Store` error when all replicas were dead already.
* The recovery at the monitor's start restarts a stopped fleet, and one after a
  scale-down creates the removed slot again.

*Classic.*
* A rollback whose stop succeeded and whose `SaveState` failed restores the
  binary and leaves the application down.
* A failing rebuild or rollback restores from the record it read before it had
  the lock, and so stops an application that was started in between.
* `RestoreAutoStartApps` with a stale record may start a second process and
  record its PID, although the first one holds the port.
* A crash of an untagged start or rollback between launch and `SaveState` leaves
  an orphan on the port.  A later start, or the restoration after a failed rebuild or
  rollback, then takes the orphan's listening for that of the process it launched,
  which exits for want of the port, and records the PID of the latter as running.  With
  five processes TLC shows that a failed command may so leave `apps.json` naming
  nobody.
* When accept's `Store` fails after its rename, the transaction is committed and
  the version not promoted.

*Webhooks.*
* The delivery of an interrupted or cancelled job stays in the ledger as well, so the
  redelivery that `docs/guides/webhooks.md:211` recommends is answered as already
  processed.

## 4. Proofs

`BlueGreenProofs` proves `TypeOK` and `OnlyProvenRouted` for every number of
instances, every set and number of faults and every starting situation, from
the assumptions named in `BlueGreen` alone.  `OnlyProvenRouted` is not
inductive: a compensation points the proxy at whatever port the old active slot
records.  The invariant therefore adds that the active slot of every journal an
operation may hold (on disk, in memory, in the mode snapshot) names a proven
instance (`JournalsProven`), that the slot a deploy replaces is proven and
different from the one it writes (`OldSlotProven`, `OldSlotActive`), and that
the candidate is recorded in its slot from launch to commit and proven from
`cutover` on (`CandidateRecorded`, `CandidateLaunched`, `CandidateProven`).
Most actions only write the journal, only stop processes or only decide, and
are discharged by one lemma per such shape; the others have a lemma each.
It also proves `DeployRestoresAgreement`, which run `bluegreen` checks as
`RecoveryRestoresAgreement`, under the same assumptions, from an
invariant (`Following`) that says how far a deploy has come in making the proxy,
then `deploy.json`, then `versions.json` follow its candidate.

Its second part proves the other five safety properties of `BlueGreen` and that it
implements `Service`, for every number of instances.  What it assumes of the
faults is what the code can stand.

* `VersionAgrees`: no kills, one fault per operation, of any other kind, from any
  starting situation.  A kill between the commit and the promotion separates
  the files until the next deploy; a second fault can defeat the compensation.
  `Versions` says which file holds which version at each step of commit, promotion
  and compensation, and that a compensation has no fault left to meet.
* `JournalNamesServing` and `NoLiveRecordDropped` (`OneFault`): besides, every stop
  is confirmed (`Teardown` clears PIDs whatever its report says), nothing deletes
  `deploy.json` outside the lock, and no rolling fleet is being migrated (its
  replicas are in no slot while they are still stopped and served).  `Tidy` says of the
  journals on disk and in memory that a record's PID is the instance on its port or
  cleared, that slots do not share instances, and that the PID of a running active
  instance is on record (`Journals`); that what is stored next has on
  record every running instance the disk has (`Covered`); and at which steps disk and
  memory name whoever is routed (`Agreement`).  A proxy whose reply was lost, or whose
  `Status` failed, is allowed: it costs service, never the records.
* `NoServingKill`, `FailedDeployKeepsService` and the refinement: besides, no reply is
  lost and `Status` answers if `Ping` does (`HonestProxy`), since an engine that
  believes a `Switch` failed stops the candidate it switched to, and one that believes
  the app is not enrolled frees its port by stopping who serves.
  `Unrouted` says that the candidate is not routed before the cutover and after a
  compensation, and `Served` that whoever of the routed instances served when the operation began is
  routed up to the cutover and is what a compensation brings back, `ClassicServes`
  that a classic process that served runs until the hand-off of its port.  `ServiceImplemented`
  maps the initial states to `Service`'s and every step to one of `Service`'s or a
  stutter, provided no instance dies by itself, which `Service` does not describe.

What the hypotheses leave out, with one fault per operation unless said otherwise:
"proved" is covered by the theorem, "fails" has a counterexample of TLC on three
instances, "checked" has none there but is not proved.

| | kill | unconfirmed stop | deleted journal | lost reply | failed `Status` | two faults | from rolling |
|---|---|---|---|---|---|---|---|
| `VersionAgrees` | fails | proved | proved | proved | proved | fails | proved |
| `JournalNamesServing` | fails | checked | fails | proved | proved | fails | fails |
| `NoLiveRecordDropped` | checked | fails | fails | proved | proved | checked | fails |
| `NoServingKill` | fails | checked | checked | fails | fails | fails | checked |
| `FailedDeployKeepsService` | fails | checked | fails | fails | fails | fails | fails |

`RequestLedgerProofs` proves `TypeOK`, `LiveRunsRemembered`, `MutualExclusion`,
`ResultsAreFinal` and `ReplayFaithful` for any processes, keys, fingerprints,
capacity and faults.  The invariant says that the lock holder's view is the file
(`HoldsLock`, `ViewIsFile`), entries carry admitted runs (`EntriesHaveRuns`),
and every executing run is in progress in the file under its owner.  Mutual
exclusion follows, because the entry of a key has one owner.

`WebhookProofs` proves every property of the `webhook` run that is not about
liveness, for any number of requests, deliveries, failures, crashes and manual
operations: `TypeOK` with the capacities of ledger and queue, `SucceededIsEarned`,
`NoStrandedJob`, `ForwardOnly`, `DeliveredOnce` and `RefusalForgotten`.

* `SucceededIsEarned` is not inductive: the worker writes a success on the exit
  status of a rebuild, and restart recovery infers one from the current version.
  The invariant says that both are evidence: a rebuild that ended well has earned
  its request (`OkEarned`), and a current version of a request's commit, deployed
  after the request arrived, has earned it (`CurrentEarned`).  The latter survives
  further arrivals because the current version was never deployed later than now
  (`DeployedEarlier`).  Most steps leave all of this alone (`Keeps`); the ends of
  rebuilds, manual operations and arrivals have a lemma each.
* `Located` says where a job is: a job in the queue is there once, was not built
  yet and is not the worker's, the worker's job is open, and an open job is queued,
  the worker's, in the hands of the handler that created it, or behind a restart.
  `NoStrandedJob` is its last part; `ForwardOnly` follows because no step that
  writes a status can meet a job whose status is already final.
* `Memory` says who holds an entry of the delivery ledger: a delivery being handled
  or accepted has recorded its identifier, no other delivery of that identifier
  holds it, and the entry is there unless it was evicted.  A second delivery is
  therefore refused (`DeliveredOnce`), and a delivery whose job could not be queued
  takes its own entry out and nobody else's (`RefusalForgotten`).

`RollingProofs` proves, for every fleet size, number of instances, set and number
of faults and starting situation, all five properties of the `rolling` run:
`OnlyProvenRouted`, `NoServingKill`, `CompletedFleetAgrees`, `CapacityKept` and
`NothingLost`.  None is inductive.  The invariant is built in layers:

* `Inv`: the ports a journal records are those of proven instances, each its own,
  the replacement is recorded nowhere until it is swapped in, and the instances a
  deploy is about to stop (the replaced one, the surplus, the legacy ones) are not
  among the targets it last sent to the proxy.  This gives `OnlyProvenRouted` and
  `NoServingKill`.
* `EnrolledOK`: a deploy that nothing has misled is right about whether the proxy has
  the app, so that only a misled one hands off the port of an app that is served.
* `RolledOK`: every replica the loop of `Deploy` has passed lives and runs the
  version being deployed, and there is none beyond the size asked for.  At the end
  of the loop this gives `CompletedFleetAgrees`.
* `OwedOK`: every replica that served when the deploy began, and stays, serves;
  of the one being replaced, the old instance or the new one does.  They are as many
  as `owed`, and their instances differ: a counting argument over finite sets that
  gives `CapacityKept`.
* `ModesOK`, `NoneYetOK`, `KnownOK`: as long as at most one call failed, every live
  instance is in memory, in `deploy.json`, or among the one or two instances the
  step at hand has launched or replaced.  This gives `NothingLost`; the single fault
  is needed because a compensation, which follows a first one, may fail by a second.

`RolloutProofs` proves all three properties of the `rollout` run, `OnlyProvenRouted`,
`NoServingKill` and `RolloutConverges`, for any number of instances, traffic steps
and faults, with kills between any two steps:

* `Inv`: what a journal may record (`JournalIn`), that the stable instance is proven
  and the one the journal read at the start called serving (`HeldOK`), and where the
  canary is recorded at each step (`CanaryOK`).
* `Traffic`: how the proxy's targets relate to the journal.  `Calm` says that what
  is on disk never misplaces traffic: the slot beside the active one has none unless
  the record of a rollout in progress says so, and a retired instance has none.
  This is what one operation hands to the next, and why a rollout finds its traffic
  wherever the one before was killed.  `SplitOK` and `BackOK` follow the targets
  through the steps and through abort and compensation, `StopsOK` keeps whatever is
  about to be stopped without traffic (the hand-off after a failing `Status` aside, as
  in `NoServingKill`), `StartOK` carries the routing of the journal
  read at the start to `undoMigration`.  `Calm` has one exception: while a promotion
  is compensated the disk may already name the canary; a second fault there leaves it
  so, which is the case `misled` records.

`ProxyProofs` proves `FileFollowsRouting` and `ListenersAccounted` for any
applications, ports, routes, control connections and numbers of requests and
outages, provided the applications are finitely many and `MaxProxies` is at least
their number (the bound stands for memory, which the code does not run out of).
Neither is inductive.  `OwnProxy` says that a Proxy is in the table once and that one
about to be installed is in nobody else's hands; `Alone` that a handler which met no
other has changed no other application's route and holds a snapshot that is still the
routing; `FileKnown` that, while `settled`, the file lacks at most the effect of that
one handler's request; `Owed` that what a restart is expected to bring back stays in
the file until then, a shutdown that waits for its handlers included.  From `Owed`
follows `BroughtBack`, `RestartKeepsRoutes` up to what `reconcileBackends` makes of a
route: every application that was settled comes back on its port with its recorded
route reconciled, unless the port is taken.  The restart numbers the Proxy objects;
that a numbering exists and leaves no number out is a lemma about finite sets.  That
the reconciled route has the hosts that answer is a fact about `SelectSeq`, which the
prover cannot expand, and stays with TLC.

`ClassicProofs` proves `LaunchesAccounted` for any bounds, binding sets, commands and
faults, with `deploy.json` there at first or not, and kills between any two steps.  It
takes five records to be inductive, and so the invariant has two parts.

* `Ledger` holds at every step: a stamp naming the open transaction still needs its
  cleanup (`StampKept`), a stamp that needs its cleanup names the open transaction or
  a committed one (`CleanupJustified`), the accepted process of a transaction is the one
  `apps.json` records (`AcceptedIsRecorded`), and the process deploy.json's slot names,
  which `reclaimSecretLaunches` spares, belongs to the open transaction only if that is
  stamped (`SlotIsStamped`).
* `Flow` says what the command has established so far: its transaction is open and not
  stamped until its process is accepted (`WorkingFlow`, `AcceptingFlow`), a discarded
  transaction has no process (`SettlingFlow`), and `apps.json` is only overwritten
  when the process it records is gone or is the one in memory (`Vacant`,
  `RestoringFlow`).

`HonestApply` needs a second invariant above these, `Honesty` (`RecordsStayHonest`).
The claim "succeeded" survives failed commands, so that it has to be true of every
process that may still become the recorded one.

* `RecordsHonest`: `apps.json`, the view taken before the lock, the record resolved at
  the start and the one in memory name processes that are gone, have what the store
  claims, or belong to the open transaction.
* `PriorFlow`: while a command may have to restore the prior process, it knows it, and
  that process has what the store claims (`Restorable`): the value a restoration
  launches it with is the truth again.
* `AcceptedFlow`: from the stamp on the recorded process has the bindings which the end
  of the transaction leaves in force (`Given`), so that `RecordApplied` writes the truth,
  before or after the commit and when a finished reconciliation is repeated.
* `EarlyFlow`: a view that another command took meanwhile shows the recorded process or
  one that is gone; only a restoration can make it show another.
* `FailedFlow` and `KindFlow`: a command on its way back claims no success, and which
  commands come to which step.

`FailureRestores` needs a third invariant above both, `Recovery` (`RecoveryHolds`).
`Tallied` holds at every step: no open transaction counts as committed, and a live
process of the stamped transaction is the one in the slot of `deploy.json`, so that a
reconciliation spares it.  `Course` holds while the command is `Tracked`, that is, one
process served when it began and it has met one fault at most.

* `UntouchedFlow` and `GoneFlow` follow the process: until the stop it serves and is
  recorded, then nobody runs until `ReplacedFlow` has the new process, or `Relaunched`
  one like the old.
* `BinaryFlow` follows the binary: the one that served is in place, or in the backup
  whenever the steps ahead may restore from it.
* `PriorKept` and `WithheldFlow` follow the command's knowledge: it knows the process to
  bring back, and its own transaction is neither committed nor stamped while it may.
* `ReversalFlow` says that a rebuild which asks whether it was accepted (`Undecided`)
  either was, with its process in force, or can still be undone completely.
* `EndingFlow` says that what is left is one of the two outcomes, `Back` or `InForce`.

A fault of a tracked command is its first and only one (`Pursuit`), so that no step after
it fails (`Undisturbed`): the proof has the fault at every step at which nothing had
failed, and a restoration that runs to its end.  The proof needed the history variable
`before` to ask that nobody but the recorded process runs; asking only that it runs, as
an earlier version did, made the property false from five processes on.

The steps of `Free` claim nothing more; the actions that only move between them share
one lemma (`QuietFree`).  An earlier version of the model let a view taken before the
lock lapse when it equalled the state at that time; the attempt to prove the invariant
showed that commands then hardly ever acted on a stale one.

`WorkerProofs` proves every property of the `workers` run for any number of replicas,
processes and versions, any restart policies, faults, kills and restarts of the monitor:
`HonestFailure`, `NoOrphans`, `StopHonoured` and `OldOutlivesGate`, and the types with the
bounds of the restart and probe counters.  `BoundsAssumption` is all it assumes.  The
invariants build on each other.

* `Placed` says which kind of operation comes to which step, and when its loop still has
  a slot to visit.
* `Machine` says how `deploy.json`, the copy in memory and the processes relate at each
  step.  Records that count do not share a process and name none that was never launched
  (`Sounds`); while a slot is replaced, the record on disk, the one in memory and
  `loc.old` differ as that step leaves them (`Replacing`, `Relaunching`, `Draining`); what
  was just launched is recorded in its slot only (`Launching`, `Growing`).
* `StopFlow` gives `StopHonoured`: a slot the stop has passed has no live process
  (`StopUnderWay`), and a fleet at rest names live processes in neither journal
  (`StoppedQuiet`); the supervisor relaunches only what is `restarting`, which a stop
  overwrites.
* `Covered` gives `NoOrphans`: every live process is in the memory of the running
  operation, or is the one it is replacing or has just launched (`MemCovered`), and in
  `deploy.json` up to what the step at hand is about to write (`DiskCovered`).  The
  exception for an undo and a revert that both fail to be recorded was found by this
  proof, as was the unrecorded process of a grow.
* `Honest` gives `HonestFailure`.  `Untouched` says that what the deploy did not touch
  runs as before, `Journal` that the rollout journal records the version each touched slot
  had, `Progress` which slots the loop has reached, and `GoingBack` that every slot the
  revert has passed runs its old version again or its process exited by itself.
* `PutAside` says that during a rolling replacement `deploy.json` names a proven process
  other than the one put aside when that one is drained, and that a slot is given back
  the process put aside only with the version the journal has, which a revert leaves
  alone; with it each step satisfies `OldOutlivesGate`.

In the rolling, rollout and worker modules an `Effect` lemma per action lists what the
action changes, and the layers are proved from these lists, with one case per
action.

Only model-checked:

* `RestartKeepsRoutes` in `ProxyDaemon` up to what is proved of it above: the rest is a
  fact about `SelectSeq`.
* `SharesKept` in `ProxyRouting`: it is about recursive sums and sequences of requests.
* `JobsEnd`, which is liveness.

## 5. Plan

Done: the blue-green engine, the ledger, the webhook pipeline, rolling and canary
deploys with proofs of every safety property their runs check, and of the refinement;
the proxy's control plane with proofs of its file and its listeners; classic
applications with proofs that no launch of a secret transaction is forgotten, that a
recorded apply is true and that a failed command restores; the worker fleet with proofs of all its properties; the
proxy's data plane, model-checked.

Next: the secret transaction inside the blue-green, rolling, canary and worker deploys
(section 6).

## 6. Not modelled

Builders, tool chains, schemas, encryption, masking, logs, metrics, telemetry
and the terminal interface change no state the modelled parts depend on.  They,
the generated gRPC code and the commands' output are most of the repository: of
its 98 thousand lines the map names the few thousand that keep deployments,
processes, routes, secrets, requests and jobs consistent.

The secret transaction inside a blue-green, rolling, canary or worker deploy is a
second journal within each engine; it is modelled for classic applications, where
it decides over the process as well as over the bindings.  The lock's mirror in
`deploy.json`, `TryLoadLock` and `deploy unlock`, the pruning of versions,
autoscaling decisions, remote-command ledgers, matrix builds, sessions and plans,
authorization and self-update are listed in `PROJECT.json`, each with the reason.
