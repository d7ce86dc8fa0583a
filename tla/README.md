# Verification of Sneakoscope Codex (`sks`)

`sks` is a trust layer around the Codex CLI. Every command is a short-lived Node
process; several of them run at the same time on one checkout (hooks, a daemon,
the menu bar, parallel agents), and they coordinate only through files: lock
directories, JSON state, append-only logs and index generations under
`.sneakoscope/`. What is hard in this code is therefore not arithmetic but
interleaving: two processes between a read and the write that depends on it, a
process that dies between two writes, a late write that lands after its lease is
over, a worker that never answers.

This directory holds TLA+ models of the parts that carry that coordination, the
TLC configurations that check them on small instances, and proofs that TLAPS checks
for every instance. `PROJECT.json` maps each definition to the source lines it
stands for, and lists runs, mutants, findings, hazards and theorems.

To check: `tlc -config X.cfg M` for a run, `tlapm M.tla` for a proof module.

Paths below are relative to the repository root.

## 1. The system

| Component | State it keeps | Operations | What is hard | What makes it correct |
|---|---|---|---|---|
| **File lock** (`src/core/locks/file-lock.ts`) | a lock directory with `owner.json`; in memory a heartbeat timer, protected pids | `withFileLock`, `tryWithFileLock`, heartbeat, `protectPid`, stale recovery, release | dead holders, several waiters, heartbeats that land late, release by path | one callback at a time; every waiter ends; a dead holder's lock is reclaimed; nobody else's lock is removed and a protected child keeps it (both false, see below) |
| **Generation store** (`src/core/triwiki/context-graph/store`, `compiler/publish-index.ts`, `query/workspace.ts`) | pointer, meta mirror, generation files with sidecars, operation journal, temporary index | publish (stage, promote, replace, clean), abandon, recover, resolve | a crash or failed write between any two files; a reader during a publish; two compilers | the pointer always names a complete generation; the previous one survives; recovery converges |
| **Agent scheduler** (`src/core/agents/agent-scheduler.ts`, `agent-work-queue.ts`, `agent-worker-slot.ts`) | work queue, worker slots, active sessions, stop signal, blockers | refill, dispatch, settle, enqueue follow-ups, stop, drain | workers that never end; a stop between any two awaits; conflicting write paths; a failing callback | the run ends; its completion claim is honest; disjoint writes; slots and sessions agree |
| **Update lock** (`src/core/update/update-operation.ts`) | `update.lock`, `update.lock.recovery`, both published complete by a hard link | acquire, confirm, recover a dead owner, release, remove by id and inode | a dead owner's file renamed away by path; a recoverer that dies | one update at a time; the holder's file stays in place; nobody alive leaves a lock |
| **Update operation** (`update-operation.ts`, `src/core/update-check.ts`) | installed version, operation receipts, last-install pointer | start, probe, install, stages, finish, authorise rollback | death between npm, receipt and pointer; an npm that outlives its updater; facts found out before the lock is taken | a rollback takes back what was installed, and one that was offered works |
| **Hook daemon** (`src/core/daemon`) and hook dedupe (`src/core/hooks-runtime`) | pid claim, socket, markers with an age | start, serve, refuse by version, retire, client fallback, claim an invocation | two starting daemons; a late answer after the client gave up; expired markers | every hook is answered; a hook runs once; its decision is not lost |
| **Remote worker** (`src/core/remote`) | bounded command ledger, bounded event journal, cursors, connections and their pending requests | send, claim, execute, complete, append, answer, watch | a re-send over another connection; death between claim and complete; a full ledger; a filtered cursor | at-most-once side effects; honest receipts; a watcher is told when it lost events |
| **Patch handoff** (`src/core/agents/agent-patch-*.ts`, `agent-orchestrator.ts`) | queue entries, per-file locks, apply results with their undo records | enqueue, coordinate, apply serially, apply in parallel, validate rollback, report | several files written one after the other by several entries; journal appends that fail after the writes or between two releases; crash and rerun | an ok report describes the tree; what was refused is not in it; the run can be undone; no lock stays |
| Naruto pool (`src/core/naruto/naruto-active-pool.ts`) | active workers, pending items, tick count | tick, refill, time out | tick budget against hard timeout | not reached by the product: only check scripts call it |
| Loop runtime (`src/core/loops`) | leases with a time to live, loop states, interrupts | lease, renew, checkpoint, interrupt, finalize | a lease that expires under its owner | not reached by the product: only check scripts call `runLoopPlan` |
| Subagent waves (`src/core/subagents`) | start and stop events, waves | record, fold, close a wave | lost, repeated and reordered events | a wave closes once, after its members |
| Stop gate (`src/core/stop-gate`) | gate files | resolve, evaluate, write | stale gate of another mission | only a passing, current gate lets a mission stop |
| Mission state (`src/core/mission.ts`) | mission directories, current state | create, set | read-modify-write by several hooks | no update is lost |
| Desktop bridge (`src/core/codex-lb`) | configuration, rollback receipts | migrate, roll back | partial migration | a rollback restores what was there |
| Release gates (`src/core/release`) | DAG, verdict cache | schedule, cache | stale verdicts | a gate passes only on its own inputs |

Everything else the repository names (compiler and query kernel, Codex SDK control
plane, menu bar, worktrees, doctor, search, routes, policy, command line) is listed in
`PROJECT.json` with the reason it is not modelled: sequential data transformation,
text policy, user interface or plain I/O.

How they interact: almost everything that reads and rewrites a shared file does so
inside the file lock. The generation store is written under the compile lock, a user
of the file lock. The scheduler is called by the agent orchestrator, which launches
workers; the patch envelopes they hand back go through the patch handoff. Hooks are
separate processes, served by the daemon or by themselves, and read mission state,
gates and subagent evidence. The remote worker's ledger and journal are read and
rewritten inside the file lock. The update operation runs under the update lock,
which is a protocol of its own and not the file lock.

## 2. Modules

| Module | Role |
|---|---|
| `FileLock` | the lock protocol, one action per await |
| `GenerationStore` | publish, cleanup, recovery and query of the context index |
| `IndexRegister` | abstract specification: what the generation store promises |
| `AgentScheduler` | the agent pool: loop, queue, slots |
| `RemoteWorker` | client, connections, worker processes, command ledger, event journal |
| `RemoteEffects` | abstract specification: side effects once per remembered command |
| `UpdateLock` | the lock around `sks update`, one action per file operation |
| `UpdateOperation` | update and rollback under that lock: receipts, pointer, installed version |
| `HookDaemon` | daemon start and retirement, clients with timers and fallback, the dedupe marker |
| `PatchHandoff` | from patch envelopes to files: queue, conflicts, application, undo, report |
| `MC...` (one per component) | instances for TLC: symmetry sets, dependencies, write paths, envelopes |
| `FileLockProofs`, `GenerationStoreProofs`, `AgentSchedulerProofs`, `RemoteWorkerProofs`, `UpdateLockProofs`, `UpdateOperationProofs`, `HookDaemonProofs`, `PatchHandoffProofs` | theorems and proofs |

Operators whose comment begins "Wrong variant" are not part of any specification.
Each is a plausible bug of the definition after it (a dropped guard, a missing reset,
a swapped order); substituted for that definition, it makes the property named in
`PROJECT.json` fail. They show that every property can fail.

### FileLock

`dir` is what is at `lockPath` (with its maker, which is not on disk, the owner record
and whether its heartbeat and mtime are older than `staleMs`); `pc[p]` is the await
process `p` has reached; `writes[p]` are owner-record writes that have been composed
and have not been renamed into place; `child[p]` is the protected process.

| Code | Actions |
|---|---|
| `withFileLock`, `tryWithFileLock` | `Call`, `Retry`, `GiveUp`, `Finish` |
| `tryAcquireFileLock` | `Mkdir`, `WriteOwner` |
| `recoverStaleLock` | `JudgeRecord`, `JudgeMtime`, `Quarantine` |
| heartbeat, `protectPid`, `writeOwnerAtomic` | `Heartbeat`, `ProtectPid`, `LandWrite`, `LoseWrite` |
| `releaseIfOwned` | `ReadOwner`, `RemoveRecord`, `RemoveDir` (recursive removal is not atomic) |
| environment | `Age`, `Expire`, `ChildExit`, `Crash` |

Age is one bit because the code asks one question of the clock. A directory does not
grow old between two adjacent file operations of a process unless `"stall"` is among
the faults. Hostnames are left out (all processes on one host), an owner record is
readable or missing, and each process makes one call at a time.

### GenerationStore and IndexRegister

`pointer`, `mirror`, `idx`, `side`, `journal` and `temps` are the files; `pc`, `job`,
`jr`, `j0`, `ptr`, `todo` and `kind` are each process's local state; `rd` is one query
and counts the pointer moves it has lived through. Every write and removal is one
action, atomic because the code writes a temporary file and renames it.

| Code | Actions |
|---|---|
| `beginContextIndexOperation` | `Begin`, `ReadJournal`, `Prepare` |
| `stageContextIndexGeneration` | `Stage`, `Indexed` |
| `commitContextIndexGeneration` | `Commit`, `AlreadyCurrent`, `Promote`, `Rename`, `Sidecar`, `Mirror`, `Publish`, `Replace`, `Committed`, `Reread` |
| `cleanContextIndexOperation`, `pruneToCurrentPointer`, `abandon` | `Clean`, `RmTemp`, `List`, `Prune`, `RmJournal`, `Abandon` |
| `recoverContextIndexOperation`, `planContextOperationRecovery`, `reconcileContextIndexMeta` | `Recover`, `Plan`, `Discard`, `DiscardJournal`, `Reconcile` |
| `resolveCurrentContextIndex`, `openWorkspaceContextIndex` | `ReadPointer`, `ReadMeta`, `Open` |
| failures | `Crash`, `Fail`, `Damage`; `ListFails` (a directory that cannot be read is listed as empty) |

The source fingerprint is compared wherever the configuration is and is folded into
it. Unreadable JSON and the reader's cache are left out. Recovery is only called when
no compile is running (the compile lock), hence `Quiet` in `Recover`; a publish is
serial when the constant `Serial` says that its callers hold the lock. `blind` is a history
variable: the processes whose last listing failed, which prune nothing and drop the
journal all the same.

`IndexRegister` says what the header of `generation-commit.ts` promises: one current
index that moves in one step from one stored generation to another, remembers the one
it replaced, and loses neither. `GenerationStore` implements it with
`current <- pointer` and `stored <- {h : idx[h] # Nil}`.

### AgentScheduler

`queue` is the work queue in order of arrival; `slots` the worker slots; `batch` the
sessions leased and not yet launched; `active` those the loop races on; `live` those
whose worker has not ended; `open` those whose generation entry is not closed; `pc` and
`ret` are where the loop is.

| Code | Actions |
|---|---|
| `runAgentScheduler`: start, loop, race | `Start`, `Loop`, `StopWhileWaiting`, `Settle` |
| `refillSlots`, `collectLaunchBatch`, dispatch, refill delay | `Refill`, `Lease`, `Collected`, `Dispatch`, `Launched` |
| `stopScheduler`, drain, return | `StopCleanup`, `Drain`, `Drained`, `Throw` |
| `agent-work-queue.ts` | operators `Ready`, `ActiveWritePaths`, `Leasable`, `CompleteWorkItem`, `Accepted` |
| workers, clock, caller | `WorkerEnds`, `WallTime`, `Abort` |

Which leasable item comes first (owner, priority) is left open, which allows every
order the code can choose. `lost` is a history variable: some reported follow-up was
dropped. Utilisation metrics and the text of state files are not modelled.

### RemoteWorker and RemoteEffects

`ledger` is `commands.json` (an entry per envelope, with its place in the file); `conn`,
`queue`, `waiting` are a connection, the lines its worker has received and the requests
its client waits for; `pc`, `cur`, `resp` are where the worker is in `handleCommand`;
`log` and `after` are the journal and the watchers' cursors. `effects`, `applied`,
`evicted`, `told`, `seen` and `gapMark` are history variables.

| Code | Actions |
|---|---|
| `RemoteSshWorkerClient` | `Connect`, `Send`, `Disconnect`, and the client's half of `Respond` |
| `runRemoteWorkerJsonl` | `Begin`, `Refuse`, `Respond`, `Exit` |
| `RemoteCommandLedger.claim`, `boundedCommandEntries` | `Claim`, `ClaimKnown`, `ClaimFull` |
| `handleCommand` | `Execute`, `Complete`, `AppendEvent`, `HandlerFails` |
| `RemoteEventJournal.watch` | `Watch`, `WatchGap` |
| failures | `Crash`, and the failing branches above |

A ledger or journal operation is one step because the code runs it inside the file
lock. The clock is not modelled: any line may have expired when its turn comes.
`RemoteEffects` knows only which commands have taken effect since they were last
remembered: an effect happens to a command that is not among them, and only a settled
command is forgotten. `RemoteWorker` implements it with
`settled <- {c : ledger[c] is completed}`.

### UpdateLock

`file` is what is at the two paths; `mine[p]` the ids `p` published; `seen`, `claim` and
`rm` are what a process read before a rename, what the rename caught, and the removal
it is in.

| Code | Actions |
|---|---|
| `acquireUpdateOperationLock` | `Call`, `CheckRecovery`, `DropDead`, `Create`, `CreateTaken`, `Confirm`, `Release` |
| `recoverDeadUpdateOperationLock` | `Recover`, `Judge`, `Rename`, `Settle` |
| `removeOwnedLock` | `RmRead`, `RmRename`, `RmSettle` |
| environment | `Crash`; `Left` says which files an earlier dead process left |

An inode and the random owner id in it are created together and compared together, so a
file is its id. A link is atomic and fails on an existing path; a malformed lock file is
left out, because the lock is linked only when complete.

### UpdateOperation

`installed` is the global package version, `receipts` the receipt files in order of
creation, `pointer` the project's last-install pointer, `op[p]` the operation a process is
in (with the receipt it holds in memory). The update lock is `holder`.

| Code | Actions |
|---|---|
| `runSksUpdateNowInternal` | `StartUpdate`, `StartRollback`, `Lock`, `Probe`, `Intent`, `Skip`, `Install`, `Stages` |
| `beginUpdateOperation`, `finish` | `CreateReceipt`, `FinishReceipt`, `FinishPointer`, `PointerFails`, `FinishLatest` |
| `authorizeUpdateRollback` | operators `Authorize`, `PointerTrusted`, `Scan`, `Binding` |
| failures | `Throw`, `Crash` |
| npm without an updater | `OrphanLands` |

`holder` is an atomic lock that a dead owner gives up: what `UpdateLockProofs` establishes
for two processes, and for any number when no recoverer dies. npm is spawned detached
(`src/core/safety/mutation-guard.ts:207`, `src/core/fsx.ts:686`) and the lock does not know of
it: when the updater is killed, npm goes on (`orphans`), the lock is free, and the version may
change under the operations that come next. `overtaken` records to which of them that
happened between probe and install.

### HookDaemon

`pidFile`, `socket`, `dir` and `marker` are the files; `dpc` and `cpc` the steps of daemons
and clients; `eval[c][side]` how far the evaluation for a client is, in the daemon and in
the client's own process; `ver` the package version a process was loaded from.

| Code | Actions |
|---|---|
| `startSksdHookDaemon`, `claimPidFile` | `ReadPid`, `JudgePid`, `DropPid`, `OpenPid`, `WritePid`, `ClearSocket`, `Listen`, `Harden` |
| retirement, idle shutdown | `Refuse`, `Shutdown`, `Sweep`, `Unclaim`, `RmPid`, `RmDir` |
| `callSksdHookDaemon`, `dispatchHook` | `Invoke`, `Connect`, `ConnectFails`, `RequestTimeout`, `ConnectionLost`, `Answered`, `Printed` |
| the daemon's request handler | `Accept`, `Refuse` |
| `claimHookInvocation`, `evaluateHookPayloadOnce` | `OpenMarker`, `JudgeMarker`, `DropMarker`, `ReopenMarker`, `ClaimFails`, `Evaluate` |
| environment | `Expire`, `Install`, `Crash` |

What a hook decides is one step that may throw. A marker's age is one bit. A behaviour
begins with nothing, with the files of a dead daemon, or with one of the daemons in
`Standing` up, which an earlier hook has spawned.

### PatchHandoff

`patch` is what each entry writes; `files` and `base` are the working tree now and at the
beginning of the run; `status` is the queue; `work` the attempts of the
serial part still to make (a file and an entry); `at`,
`left`, `held`, `buf`, `bad` where `applyAgentPatchEnvelope` is with each entry; `results` the
apply results with their undo records; `active` and `lockFiles` the locks in memory and
on disk. A file's text is a sequence of fragments, so that overwriting, replacing and
adding differ. `torn`, `stuck` and `busy` are history variables: the entries that failed
after they began to write, the locks a failure left behind, the locks an entry was
refused for.

| Code | Actions |
|---|---|
| `runAgentPatchHandoffRuntime` | `Enqueue`, `StartParallel`, `EndParallel`, `EndThrow`, `Report` |
| `coordinateAgentPatchMerge` | `Coordinate` |
| `executeAgentPatchConflictRebase` | `StartSerial`, `EndSerial` |
| `applyAgentPatchEnvelope` | `Barred`, `LockFile`, `LockBusy`, `Settled`, `StartWrites`, `WriteFile`, `Record`, `ReleaseFile` |
| `validateAgentPatchRollback` | operator `CanRollBack` |
| a file operation of an apply fails | `LockFails`, `SettleFails`, `ReadFails`, `WriteFails`, `RecordFails`, `RmFails`, `ReleaseFails`, `ArtifactFails` |
| one of the handoff's own fails | `DryRunFails`, `MarkFails`, `HandoffFails` |
| environment | `Crash`, `Rerun` |

Every await of an apply may fail unless the code it calls catches that; an append to the
journal is such an await. The `finally` block gives one lock back at a time, and an append that
fails in between leaves the rest. In the serial part an exception becomes a blocked result
without a rollback record; in the parallel part it rejects the handoff.

## 3. Runs

| Run | Instance | Result | Shows |
|---|---|---|---|
| `filelock_live` | 2 processes, crashes, failing owner writes and removals (no stall) | 27,545 states | `MutualExclusion`, `CallEnds`, `AbandonedReclaimed` |
| `filelock_two_waiters` | 3 processes, crashes | violation | finding 1 |
| `generation_serial` | 3 hashes, 1 configuration, 2 faults of any kind | 324,104 | `ImplementsRegister`, `StoreInvariant`, `CommittedIsPublished`, `RetentionHolds`, `ReaderOutlivesOnePublish`, `RecoveryRestoresMirror` |
| `scheduler_pool` | 2 slots, 3 slices, 2 follow-ups, every fault | 691,472 | `RunEnds`, `ReturnHonest`, `SessionsMatchSlots`, `SliceWritesDisjoint`, `PoolInvariant`, `NothingBehindFailure` |
| `remote_ledger` | 2 workers, 3 envelopes (one reuses the key of another and the command id of a third), ledger of one entry, 3 sends | 924,462 | `LedgerInvariant`, `RepeatedOnlyIfEvicted`, `HonestAnswers`, `EffectsOncePerClaim` |
| `remote_live` | 1 worker, 2 sessions, journal of one event, batches of one | 72,403 | `NoSilentSkip`, `EventReachesWatcher`, `OrphanExits` |
| `update_lock` | 2 processes, 3 calls each, both files left by a dead process | 188,355 | `LockInvariant`, `NoLockLeftBehind` |
| `update_rollback` | 2 processes, 1 project, 3 versions, 3 receipts, deaths with and without an npm left over | 3,087,565 | `ReceiptInvariant`, `OfferedRollbackWorks`, `NoSilentDowngrade` |
| `hook_daemon` | 2 clients of one hook, 2 daemons, 1 package update, 1 fault | 1,918,185 | `DaemonInvariant`, `RepeatedOnlyAfterExpiry`, `DecisionLostOnlyWithEvaluation` |
| `hook_live` | 2 clients of 1 daemon that may be up before them, 1 package update, 1 death of the daemon | 295,787 | `HookAnswered`, `StaleRetires` |
| `patch_serial` | 3 envelopes on 2 files that write, replace or add, 1 failing file operation | 1,907,645 | `HandoffInvariant`, `OkMeansSerial`, `RollbackRestores` |
| `patch_rerun` | 2 envelopes on 2 files, protected paths, conflict predictions, 2 runs, 1 crash or failing file operation | 418,596 | `HandoffInvariant`, `LocksOnlyFromFailure`, `HandoffEnds` |

State counts of passing runs are distinct states (up to symmetry where a symmetry set
is declared: the runs with a liveness property have none).

Why the bounds are enough. *FileLock*: a race over the lock needs a holder and at most
two waiters; the second call of a process differs from a call of another process only
in its token, and `MutexHolds` is proved without the bound. *GenerationStore*: three
hashes give a current, a previous and a new generation, so pruning removes something;
two faults put a second failure into the recovery of the first. The number of
publishes and recoveries in a behaviour is not bounded. *AgentScheduler*: two slots
and two slices on one path make the conflict between a batch and a running item
happen; the third slice waits for the first and so can be left behind a failure; two
follow-ups, one behind the other and one on the contested path, with reports of up to
two ids over a limit of two, reach repetition, the limit and an unresolvable
dependency. *RemoteWorker*: two workers race for one command and three sends allow a
re-send of each of two commands; a ledger of one entry makes eviction, and refusal of
a full ledger, happen at once; a journal of one event makes every second event a gap.
*UpdateLock*: two live processes and what a third, dead one left give a dead owner, its
recoverer and a newcomer; three calls each exhaust the orders of release and recovery.
`RecovererDies` lets the recoverer die too. *UpdateOperation*: three versions are an
install, an install on top and a rollback to either; three receipts let the newest be
uncertain while two older ones compete for the scan. *HookDaemon*: two daemons race for
one pid file, two clients of one hook are the project's and the user's configuration
firing it, one package update makes one of them stale; a daemon that is up before them lets
both connect to it, so that one client's evaluation hangs in a daemon that the other finds
to be stale. *PatchHandoff*: three entries over
two files give chains of conflicts and an entry in two of them; the second run of a mission
meets what one failure of the first left. What an entry is refused by policy does not depend on
a third entry, so protected paths and conflict predictions are in the run of two.

Fairness. *FileLock* (`FairSpec`): weak fairness of each process's continuations, of
writes in flight settling one way or the other, and of children ending: what the Node
event loop and the operating system give. `Age` is strongly fair, because time passes
whatever processes do, while in the model it pauses whenever a process is between two
adjacent operations. `CallEnds`
has the hypothesis `TimersFire`: that `timeoutMs` runs out. The heartbeat is not
fair, and neither is `Call`. *AgentScheduler*: weak fairness of the loop's own steps and
of the wall clock (`maxWallTimeMs`); no worker has to end and the caller never has to
abort. *RemoteWorker*: weak fairness of each worker's own steps (a process that does not
die runs) and of polling by each watcher; the client never has to connect or send.
*HookDaemon*: weak fairness of a daemon's start and end, of a client's call (its timers
included), of answering and of a client's own claim and evaluation, and of the passing
of the marker window; nothing is assumed of an evaluation inside the daemon, which may
hang. *PatchHandoff*: weak fairness of the runtime and of each entry being applied.
*GenerationStore*, *UpdateLock* and *UpdateOperation* state no liveness.

## 4. Findings

*Two waiters reclaim one lock* (`file-lock.ts:213`, run `filelock_two_waiters`). Two waiters
judge the same dead record. The first renames, creates and owns a new directory; the
second renames that one away. Both callbacks run. The comment at `file-lock.ts:188-190`
excludes it.

**Further configurations.** These instances are kept beside the runs. All but
the first end in a counterexample, to each property where two are named.

| Configuration (module) | Property | What it shows |
|---|---|---|
| `FileLockExclusion` (MCFileLock) | `Exclusive` | passes: the inductive invariant of the proof, with 3 processes and failing removals |
| `FileLockRelease` (MCFileLock) | `ReleaseSparesOthers` | `file-lock.ts:231-232`: the record is read and the directory then removed by path, and a missing record stops nothing; with a third process that quarantined the directory meanwhile, a release removes the lock of its successor. `src/core/locks/__tests__/file-lock.test.ts:86` says "release must not delete a lock now owned by someone else" and the comment at `:228-230` claims it |
| `FileLockChild` (MCFileLock) | `ProtectedChildKeepsLock` | `file-lock.ts:129`: a heartbeat composed before `protectPid` and landing after it restores a record without the child; if the parent dies before the next beat, the lock is reclaimed under the child (`naruto-run-admission.test.ts:439` expects it to be kept) |
| `GenerationStoreConfigs` (MCGenerationStore) | `CurrentIntact` | `generation-commit.ts:233`: republishing a snapshot under another configuration renames over the file the pointer names before the pointer moves; a crash there leaves the current index unreadable |
| `GenerationStoreAbandon` (MCGenerationStore) | `AbandonLeavesIndexServed` | `publish-index.ts:183`: abandoning after the mirror write leaves mirror and pointer divergent; queries are refused until a recovery or the publish of another snapshot |
| `GenerationStoreRetention` (MCGenerationStore) | `TwoGenerationsSurvive` | `generation-retention.ts:57`: a directory that cannot be read counts as empty, so nothing is pruned and the journal is removed; `:4` says "Exactly two generations survive a compile" and `:9-10` that "the journal file itself is removed only once there is nothing left to finish" |
| `GenerationStoreTwoCompilers` (MCGenerationStore) | `StaleWriterLoses` | `generation-commit.ts:293`: comparison and pointer write are two steps; the callers' compile lock is what makes them safe |
| `AgentSchedulerLeases` (MCAgentScheduler) | `WriteLeasesDisjoint` | `agent-work-queue.ts:121`: write leases of follow-ups are recorded and not consulted; only slices' `write_paths` are kept disjoint |
| `UpdateLockDeadRecoverer` (MCUpdateLock) | `MutualExclusion` | `update-operation.ts:581`: three live processes beside a dead owner and a dead recoverer. Two remove the dead recovery file by path, one of them catching the file of a third that has just begun a recovery; two recoveries then run at once and a held lock is renamed away (32 steps; the test at `src/core/__tests__/update-operation-receipt.test.ts:198` says one contender proceeds) |
| `UpdateOperationOrphan` (MCUpdateOperation) | `NoDowngradeOutsideRollback`, `RollbackUndoesUpdateAlways` | `mutation-guard.ts:207`: npm outlives a killed updater and the lock does not know of it. The next operation installs a newer version and the old npm replaces it, or a rollback replaces a version that nobody reported as an update of the one it restores. `CHANGELOG.md` says "A global cross-process lock prevents overlapping npm installs" and that "a killed update parent can no longer authorize a competing writer while live owned work remains" |
| `UpdateOperationPointer` (MCUpdateOperation) | `PointerMovesForward` | `update-operation.ts:356-360`: a rollback that the scan authorised rewrites the pointer with an older receipt than it named (23 steps) |
| `HookDaemonOnce` (MCHookDaemon) | `SingleHookNotDuplicate` | `sksd-hook-dispatch.ts:4-6` says behaviour is the same with and without the daemon: an evaluation that throws in the daemon leaves a fresh marker, so the client's fallback reports a suppressed duplicate of itself (16 steps) |
| `PatchHandoffDomain` (MCPatchHandoff) | `DomainBlocksByDefault` | entries with a common conflict prediction are applied when they also share a path: the serial group of the path retries them; `scripts/agent-patch-conflict-rebase-check.ts:85` says they are blocked by default (16 steps) |

Observations met while modelling, without a run of their own: a release whose removal
fails leaves a lock that names a live process and is not reclaimed before it exits
(`file-lock.ts:138-139`); between the mirror write and the pointer replace, queries are
refused; discarding an operation removes the journal before it prunes
(`generation-recovery.ts:96`), so a crash there leaves extra generations until the next
cleanup; an id a worker reports twice in one result is enqueued twice and booked on the
first (`agent-work-queue.ts:151`); `max_attempts` is recorded by the queue and read by no
retry in the scheduler.

Remote worker: an envelope that expired while it waited is answered under the id
`unknown`, so its client waits for its own timeout (`protocol.ts:184`); answers to
conflicts and to duplicates of a command in flight carry no receipt, which makes the
client give up the connection; the in-flight entry of a worker that died is never
retired, so the ledger can only fill up; the local worker client does not validate
envelopes. Hook daemon: a daemon killed between creating and writing its pid file leaves
an empty file, on which `JSON.parse` throws in every later start
(`sksd-hook-daemon.ts:110`); a retiring daemon removes the socket by path and may take
its successor's (`:252`). Two starting daemons that read the same dead pid race
(`:116-117`): the second removes by path the claim the first has just created, and both
own the root. `DaemonInvariant` exempts a behaviour in which that happened (`raced`) and says that
nothing else leads to two owners. A client that gives up after five seconds evaluates the hook
itself while the daemon still does (`:331`), because the marker lives three seconds; and of two
processes that judge the same expired marker the second removes the one the first has
just created (`hook-invocation-dedupe.ts:75`). `RepeatedOnlyAfterExpiry` exempts expired and
failed markers (`lapsed`) and says that nothing else repeats an evaluation.

Patch handoff: an entry that shares two paths with others is in
two serial groups and applied once for each (`agent-patch-conflict-rebase.ts:63`); a failure after the first
write of a patch leaves files without an undo record: a later write that fails
(`agent-patch-apply-worker.ts:118`), but also a journal append or result artifact that throws
when every file is written (`:122-123`, `:127`). In the serial part the entry then counts as
blocked (`agent-patch-conflict-rebase.ts:126-143`) with its text in the tree. An append that
throws in the `finally` block strands the remaining locks in memory and on disk (`:125-136`), a
lock file that cannot be removed stays (`:322`), and so does one that was created and could not
be written (`:309`); the lock files of a crashed run are never reclaimed (`:307`);
a dry run of conflicting patches fails its own rollback check.

## 5. Proofs

Every safety property that a run checks is also a theorem. Theorems hold for all values
of the constants that satisfy the named assumption of their module
(`FileLockAssumption`, `GenerationAssumption`, `SchedulerAssumption`,
`RemoteWorkerAssumption`, `UpdateLockAssumption`, `UpdateOperationAssumption`,
`HookDaemonAssumption`, `PatchHandoffAssumption`). These say what kind of thing each
constant is, that a partition has finitely many slices, and that the value for "no
file" is not a file. What a theorem assumes beyond that is in its statement.

Each theorem has the same shape: an inductive invariant whose parts are named
definitions, a lemma per action or per group of actions that move the same variables,
and a last step that derives the property. Facts about what a recursive function computes
(`Without` of the scheduler, `UndoAll` of the handoff) are proved by taking the least
argument for which they fail.

**FileLockProofs.** `TypeCorrect`: `Spec => []TypeOK` under every fault.
`MutexHolds`: `Undisturbed => (Spec => []MutualExclusion)`, where `Undisturbed` excludes
crashes, stalls and failing first records, but not late heartbeats, timeouts or failing
removals. Mutual exclusion alone is not inductive: it says nothing of a process about
to create, to rename away or to remove the directory. `Exclusive` adds that whoever is
past `mkdir` made the directory that is there, that a directory without a record is
young and has a maker at work, and that nobody is about to quarantine. `Exclusion`
proves it inductive. With crashes
the statement is false (finding 1), so the hypothesis is needed. Of the release guard nothing is
proved: where the hypothesis holds nobody quarantines, and where somebody does the guard is
not enough (`FileLockRelease.cfg`).

**GenerationStoreProofs.** `StoreTyped`: types, and that a publish in progress works on a
real operation, whether serial or not. `SerialStoreSafe`: `Serial => (Spec =>
[]StoreInvariant)` for any number of faults. Its parts: one process works at a time;
from `Promote` on, what the process saw is still the pointer; a promoted generation is
on disk; a prune lists nothing the pointer names; and current and previous are on disk.
The last is the point, the others make it inductive. `SerialStoreRefines`: the store
implements `IndexRegister`; `Replace` maps to its `Publish`, `Rename` to `Store`, the
pruning of an index file to `Collect`, everything else stutters. Without `Serial` the
invariant is false (`GenerationStoreTwoCompilers`).
Four theorems follow what a serial store leaves on disk. `SerialStoreTidy`: when a
cleanup that could list the directory drops the journal, only current and previous are left,
also of what earlier cleanups could not see; the invariant `Tidy` says
that whatever a prune did not list is kept. `QueryOutlivesPublish`: `QueryNear` says that
the generation a query resolved is current until the pointer moves and previous until
it moves again. `CommittedJournalTrue`: `Truthful` ties the journal on disk to the one the
publisher holds; nobody advances it beyond indexed before the pointer is replaced.
`RecoveryReconciles`: after a complete recovery the mirror agrees with the pointer;
`Described` says that every generation the pointer names has its sidecar. This one needs
`OneConfig`: the reconciliation compares hashes, so the mirror may keep another
configuration of the same snapshot.

**AgentSchedulerProofs.** `SlotsInStep`: `Spec => []SessionsMatchSlots` for every queue,
set of slots, bound and fault. The inductive `PoolInv` adds the types of the pool, that
a terminal reason is set only on the way out, and that a batch exists only while it is
collected or dispatched, and in slots that are idle. The other four theorems rest on
`SchedulerInv`, which adds the queue. `Books` ties it to the sessions: a slice is queued
once, every session has its item and every running slice its session, sessions share
neither slices nor written paths, and nothing runs before its dependencies. `Honest`
says that whatever must withhold the claim has left a blocker, `Launchable` that a refill
that was promised work finds some. `WritesApart` and `FailuresHold` follow from `Books`
for every dependency relation and write set, `ClaimsHonest` from `Honest`, and
`PoolSafe` from `Launchable` and from the bound on what `Without` adds to the queue.

**RemoteWorkerProofs.** For any clients, commands, sessions, workers and bounds, with lost
lines and crashes anywhere. `LedgerSafe` and `RepeatsNeedEviction` rest on `Once`: beside
`ClaimHeld` it says that an effect is remembered by a ledger entry, that a claim about to
be executed has not been applied, and that a command that was never evicted took effect
at most once. `AnswersHonest` rests on `Honest`, which extends the promise from what
clients were told to every answer on its way to them, stored in the ledger or held by a
worker: it is correct, and the command is spent. `WorkerRefines`: the worker implements
`RemoteEffects`; `Claim` maps to its `Forget` (or stutters), `Execute` to `Apply`, `Complete`
to `Settle`, everything else stutters. `WatchersNotSkipped` adds that a cursor never points
beyond the journal; a bounded batch is a prefix of what is newer than the cursor.

**UpdateLockProofs.** `LockTypes` holds for any processes, calls and deaths. `HeldLockStays`,
`OneUpdateRuns` and `LockGone` assume `Calm`: at most two processes, or no recoverer dies
and no recovery file was left. The hypothesis is needed: with three processes and a dead
recoverer's file, a late removal can take a live recoverer's file, two recover at once
and one renames a lock that is held (`UpdateLockDeadRecoverer.cfg`). Under `Calm` the
invariant `LockInv` says that a published lock is at its path until its removal
(`LockPlaced`), that a removal and a recovery catch what they read
(`LockRemoval`, `RecoveryCatches`), and that one process recovers at a time
(`OneRecovers`). With two processes a late removal may catch the recovery file of a
recoverer; `RecoveryPlaced` says that the other process, the only one that could begin a
second recovery, is then about to put it back, or dead.

**UpdateOperationProofs.** For any processes, projects, versions and receipts, with a
process dying or a write failing anywhere, and npm processes of dead updaters landing at any
time.
`RollbacksUndo`, `OffersHold` and `DowngradesAreRollbacks` rest on one invariant. `Sound` says
of each operation what it may rely on: under the lock it is alone, the version it found
is still the installed one until its own install unless an orphan npm has overtaken it, what it was authorized for was
reported, its receipt is about it and no pointer names that receipt before `FinishPointer`.
`Files` says of the disk that a confirmed receipt was reported, that a pointer is a copy
of a confirmed receipt, and that every rollback on offer rests on a receipt nobody will
write again. Without the last part `OfferedRollbackWorks` is not inductive: a receipt that
its operation may still rewrite could cease to authorize. The exceptions in `RollbackUndoesUpdate`
and `NoSilentDowngrade` are the orphan's landing and the operations it overtakes, no others;
without them both are false (`UpdateOperationOrphan.cfg`).

**HookDaemonProofs.** For any daemons, clients, package updates and faults. `OneDaemon`:
`ClaimInv` says that the pid file of whoever relies on it is on disk unless a file was
removed that its remover had not judged, and that a pid judged dead stays dead.
`EvaluatedOnce` and `DecisionTraced` rest on `HookInv`. `MarkerHolds`: as long as the marker
of a hook has neither expired nor failed, whoever got past the first attempt found or
created it, so it exists and one evaluation holds it. `Traced`: a marker, a duplicate and
an answer without a decision each stem from an evaluation that was begun.

**PatchHandoffProofs.** For any envelopes, files, runs, conflict domains and faults. The
invariant is built in layers, each used by the next. `Locks`: the locks in memory and on disk
are those the entries hold or a failure left, and entries that run together write different files; this gives
`LocksGivenBack`. `Stat` ties the status of an entry to where the handoff is with it,
`Bufs` the files on disk to what the entry read and wrote, and `Mine` says that an entry
with a trace in the tree is one that may have written, or is torn; this gives `RefusedNowhere`.
`Roll` says that undoing the results, last first, from the tree without the writes in
progress gives the tree the run began with, file by file for all that no torn entry
writes; this gives `ResultsUndo`. `Whole` says that
the buffers are the operation's work on all of its paths, `Told` what an ok report says
of the results, and `InOrder` that the entries of the results lead from the first tree
to the present one; with as many results as entries each occurs once, which gives
`OkIsSerial`. The exceptions in the statements (an entry that failed after it began to write, a
lock a failure left behind, an entry in two serial groups) are those of section 4.

**Only model-checked.** Liveness (`CallEnds`, `AbandonedReclaimed`, `RunEnds`, `EventReachesWatcher`,
`OrphanExits`, `HookAnswered`, `StaleRetires`, `HandoffEnds`), which is out of the prover's
reach, and what the further configurations show.

## 6. What is not modelled

See `PROJECT.json` for every component. In the modelled ones: clocks are reduced to the
comparisons the code makes; file contents to the fields that are compared; several
hosts sharing a lock directory, several calls of one process on one lock path, corrupt
JSON and power loss that reorders writes are out of scope. `RemoteWorker` leaves out the
reads other than watch, owner proofs and the local client; `UpdateOperation` the registry
binding, the age limit and the scan bounds of receipts, dry runs and the content of the
later stages; `PatchHandoff` envelopes of git worktrees, overlapping subtrees and the
journal's text. What a file operation left half-done is modelled by its outcomes: a write
leaves the old text, an empty file or the new text.

The models cover a small part of the repository's 300,000 lines. Most of the rest is
policy over text, prompts and reports, configuration files repaired by one process,
desktop integration, and check scripts: code without a state that two actors share,
about which a model would say what a unit test says.

## 7. Plan

Next, in order of what they protect:

1. A composition of `FileLock` with `GenerationStore`, in which `Serial` is what the lock
   gives rather than a constant.
2. `SubagentWave`: start and stop events that are lost, repeated and reordered.
3. The stop gate as pure operators against a reference definition.
4. Mission state, desktop-bridge rollback and the release DAG.

Of the modelled components every safety property is proved; theorems to add are those
of the modules above, first of all that the composition gives the store what `Serial`
assumes.
