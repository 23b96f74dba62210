# TLA+ verification of A3S Box

A3S Box runs OCI workloads as MicroVMs (libkrun) or as shared-kernel Sandboxes
(crun). Several services and commands keep a durable record of what should run and
have to bring the processes of the host in line with it, while callers race,
give up, and processes die. This directory models five of them, checks the models
with TLC and proves their safety properties with TLAPS for every value of the constants:

- the local execution manager behind the `ExecutionManager` facade (CLI, SDK,
  control plane);
- the E2B-compatible control plane above it;
- the daemon that keeps a warm pool of VMs;
- the CRI runtime service;
- the CLI commands, monitor and health workers for boxes without a managed execution.

## 1. The system

Paths are relative to `src/src/`.

| Part | State it keeps | Operations | What is hard about it |
| --- | --- | --- | --- |
| Managed execution record and store: `runtime/src/box_record.rs`, `managed_execution_store.rs`, `local_execution/{store,record}.rs` | `boxes.json`: per execution a state, a generation, a pending operation, the cold-pause marker, `stopped_by_user`, the last completed restart | reserve, get, transition_with, begin_remove, finish_remove | a record must be readable after every interruption; the generation fences stale callers |
| Local execution manager: `runtime/src/local_execution/{api,create,operations,recovery,restart,snapshot,remove}.rs` | nothing in memory but the lifecycle lock it holds | create, start, inspect, pause, resume, snapshot, restart, kill, remove, reconcile | claims are persisted before side effects; a crash may happen after any step; a failing call may have taken effect |
| Sandbox backend: `local_execution/{vm_backend,vm_sandbox,resources}.rs`, `sandbox/{controller,handler}.rs`, `vm/{mod,sandbox,reap}.rs` | registered `VmManager`s of this process; on the host: the crun container, `sandbox/runtime.json`, the writable rootfs, volume and network attachments | start, inspect, pause, resume, kill, stop_for_restart, attach, clean up | the container exits at any moment; host commands fail half way; a restarted manager only knows what `runtime.json` says |
| Caller-visible lifecycle: `core/src/traits/execution.rs` | the promise | `ExecutionManager` | idempotent restarts, exactly one generation per pause, resume and restart |
| MicroVM path: `runtime/src/{vm,vmm}` | VM processes, disks | boot, snapshot fork, destroy | not modelled except for `destroy` |
| Warm pool and its daemon: `runtime/src/pool`, `cli/src/commands/pool.rs` | idle VMs, an autoscaled `min_idle`, permits, leases | run, lease, exec, release, reap, evict, replenish, drain | tasks that hand VMs to each other with locks given up in between; a VM whose manager is dropped runs for ever |
| Scale manager: `runtime/src/scale`, `operator.rs` | services, replicas, registry | reconcile desired and observed counts | stale instances, partial failure |
| Compatibility control plane: `compat/src/control`, `compat/src/production` | SQLite records with a generation, leases, deadlines | create, connect, pause, set timeout, kill, reap expired, reconcile at start | two durable state machines (its own and the record above) that must converge; requests are dropped at any await |
| Runtime driver: `runtime/src/a3s_runtime_driver` | adapter metadata | apply, inspect, stop, remove | mapping of idempotency keys |
| CLI and monitor: `cli/src` | `boxes.json`: status, PID, restart count, health, `stopped_by_user` | start, stop, kill, pause, unpause, restart, rm, prune, monitor poll, health probes | separate processes on one record; every load reconciles it without the lifecycle lock |
| CRI service: `cri/src` | sandboxes, containers, VM managers, stop controls, `state.json` | Run/Stop/RemovePodSandbox, Create/Start/Stop/RemoveContainer, exit supervisors | kubelet deadlines drop calls; check-then-act across awaits; restart with VMs still running |
| Snapshot, image, volume and network stores; guest init, netproxy, shim; SDKs, lambda, TEE; vendored h2 and libkrun | | | file formats, syscalls, packets, cryptography: not modelled |

Interaction. The control plane, the runtime driver and the CLI's managed boxes call
the execution manager; the pool daemon, the CRI service and the CLI's other boxes
drive VMs directly (`VmManager`, shim processes).

A caller invokes an `ExecutionManager` operation. It takes the
execution's cross-process lifecycle lock (`lifecycle_lock.rs`, a file lock), reads the record,
persists a *claim* (a transitional state with an intent), calls the backend,
releases attachments where the runtime is gone, and publishes a stable state by
compare-and-swap. Whoever comes after a crash finds the claim:
`inspect` finishes what the backend can prove, `reconcile` (called by the
control-plane supervisor, `compat/src/control/supervisor.rs`, and by the runtime
driver) finishes or undoes it. The container runs beside all this and exits
when it wants.

What makes it correct: the record can always be read back and followed; a
container that recovery can find is never left behind, killed unasked or
doubled; attachments and rootfs are kept exactly as long as promised; the record
and the container agree when nobody is at work; a claim is eventually resolved;
and callers cannot tell the machinery from an atomic lifecycle. For the pool: a VM has
one owner, limits hold, forgotten leases come back. For the control plane: its
record and the execution converge after a crash, and what is recorded as
killed does not run. For CRI: one starter per container, what is listed as
running or ready is backed, what ended stays ended. For the CLI: one VM per box, tracked
and mounted, restarts within the policy. The list
`hazards` in `PROJECT.json` names each place where this could go wrong.

## 2. Modules

| Module | Contents |
| --- | --- |
| `ManagedExecutionStore` | the record, `LegalEdges` and `TransitionGeneration` (the table in `transition_generation`), `TransitionWith` (the whole of `transition_with` with its runtime update, intent and restart completion), removal, and the validation a stored record has to pass |
| `SandboxBackend` (extends it) | the host state of one execution (`crun`, `runtimeJson`, `owner`, `rootfs`, `attached`) and, per backend call, the outcomes it may have; `Fault` counts environment faults |
| `LocalExecution` (extends it) | the manager: `rec`, the operation `op` that holds the lock, the published snapshots, one action per step, crashes, exits, all properties |
| `ExecutionLifecycle` | the abstract specification of the trait, with atomic operations |
| `WarmPool` | the idle list of one pool, booting, the maintenance task with the autoscaler's decision, shutdown |
| `PoolDaemon` (extends it) | connections as tasks, permits, leases, the reaper, the drain |
| `SandboxControl` | the control plane's record, requests and supervisor over an execution manager; instantiates `ExecutionLifecycle` |
| `CriRuntime` | one pod sandbox: stores, VM, containers, handlers, supervisors, service restart |
| `CliLifecycle` | one box: record, shim processes, command processes, monitor, health workers |
| `MC...` | symmetry and policy choices for TLC |
| `LocalExecutionProofs` | types, readable records, legal decisions, refinement |
| `LocalExecutionHostProofs` (extends it) | what the manager leaves on the host |
| `LocalExecutionAgreementProofs` (extends it) | record and container agree; the rootfs of a cold pause |
| `PoolDaemonProofs`, `SandboxControlProofs`, `CriRuntimeProofs`, `CliLifecycleProofs` | the safety properties of each module, `SandboxControlProofs` also a refinement |

### The execution manager

How the model follows the code:

- An operation is a record `op` with a program counter `pc`. `Acquire` takes the
  lock for a request. `Dispatch` is the part of each API method up to its first backend call:
  fencing, early returns and the claim, which is one write of the state file.
  `InspectBackend` is `backend.inspect`
  together with the decision its caller takes on the answer (`Decide`: one
  operator for each of `observe_record`, `resolve_*_error`, `recover_start`,
  `finish_cold_resume`, `drive_snapshot`...). The other steps are the backend
  calls. `ReleaseStep` and `CommitStep` are `release_resources` and
  `complete_transition`, with the decision carried in `op.then`. Steps end
  where a crash, an exit or an error leaves something different behind.
- Backend start has four steps, because a crash between them matters:
  `StartPrepare` (resource guard, registration), `StartLaunch` (`require_absent`,
  rootfs, `crun run`), `StartRecord` (`runtime.json`), `StartReady`
  (readiness, process identity).
- `runtimeJson` is `"current"` when it names the container crun has, `"stale"` when
  it was written by an earlier start. All recovery goes through it: a container with no
  `runtime.json` is invisible (`Untracked`).
- `VisibleActiveState` is the code's: what a registered runtime is reported as
  is computed from the record.
- `acquired` and `reuse` are the local variables of `start` that decide what a
  failed boot gives back and whether it keeps the rootfs.
- A destroy (stop, delete, remove directories) is one step; its failure may or
  may not have deleted the container.
- `FinishRemove` forgets the record. Ids are fresh UUIDs, so `"removed"` is final.

Environment faults are `"crash"` (the manager process dies; lock and registered
managers are gone, everything on the host survives), `"error"` (a host command, a file
or the state file fails) and `"slow"` (the exec endpoint is not ready in time). Their
number is bounded by `MaxFaults`; exits of the container are free.

Abstractions: one execution, not configured persistent, on the crun backend; one
manager process at a time, so the lock makes the conflict branches of the
compare-and-swap (lost claim in `create.rs:124-164`, conflicts in
`complete_transition`) unreachable; kill options, health, exit codes,
timestamps, logs and ports are left out; requests that would exceed
`MaxGeneration` are not made.

### The warm pool and its daemon

A connection is a task with a program counter; a step is what it does between two
awaits. `live` are the VM processes: dropping a `VmManager` does not stop one, so a
VM belongs to whoever holds its manager (`Owners`). Locks that span awaits are
guards: the map of leases during `drain_all` (`MapUnlocked`), the mutex of a leased VM
(`VmUnlocked`). Permits are not a counter but derived from who holds one. The reaper's three
phases (scan, take out, decide) are separate steps because the code unlocks between them.
Ages are abstracted to `stale`. `Evaluate` is the set of the autoscaler's
possible decisions (the miss rate is not computed). `Losses` names the
two ways in which the code loses a VM (below): a guest that is not ready in time and a client that
disconnects. A lost VM stays in `live`, the history variable `lost` remembers it, and the properties that
exempt it say so. One pool key; identities of dead processes are used again; which one a boot gets is left open (`Fresh`).

### The control plane

`rec` is the persisted record; an actor works on its `copy` and writes it by compare and
swap (`Write`), as service and supervisor do. Manager calls take two steps: `Claim` (lock
and claim) and `Complete`, between which the service or the request may be lost;
`Interrupted` is what is left. With `"slow"` the guest is not ready when the manager starts or observes it: the
start fails, the execution stays `starting`, and `Reconcile` defers it (`ReconcileOutcome::Creating`). Two history
flags of `exec` name what the properties exempt: `unnamed` (the sandbox was killed while its record named no
execution, so the kill asked nothing of the manager) and `early` (a client called before the supervisor's
startup reconciliation was through). `Completions` and `Observations` reduce `LocalExecution` to
the claims and outcomes a caller can tell apart: the run checks that the reduction stays
within `ExecutionLifecycle` (`ManagerKeepsItsPromise`), which
`LocalExecution` is proved to implement. Expiry is a flag; the repository's expiry claim is one
transaction. Creation and one sandbox; requests that would exceed
`MaxGeneration` are not made.

### The CRI service

One sandbox with a bridge address and its containers. A handler's step ends where it awaits
a lock, the guest or a child; a dropped call is possible at each (`Abandon`, `CancelBoot`,
`CancelPersist`, `CancelCall`). `vm.handle` says who has the `VmManager`: the map or
a handler; or nobody, and why: `"dropped"` (its destruction failed or was dropped, the VM may run), `"guard"`
(the guard of a dropped RunPodSandbox destroyed it), `"halted"` (a call was dropped after it had destroyed the VM and
before it marked the sandbox). `ip` is the address: `"held"`, `"none"`, or `"leaked"` when the network store refused to take it back,
which the code logs and passes over. The stores persist in the step that changes
them, except for `add_sandbox`. `sup` is the exit supervisor
of a container. Restarting is `load_state`, which reaps what a dead service left, or, when the state cannot be
read, starts fresh and reaps nothing (`RestartFresh`).

### The CLI

Each command process has a program counter; a step lies between two waits (lock,
boot, signal and wait, probe). A load reconciles the record and, when that changes it, tears the dead
box down in one transaction. `prune` lists the inactive boxes and removes them later, without the lifecycle lock;
a boot that meets the removal undoes itself (`UndoBoot`). With `"write"` in `Faults` every write of `boxes.json` may fail:
a load ignores it (`Reconcile`), commands return the error (`SettleFails`, `LoseBoot`). `"kill"` (SIGKILL) is the same as `"stop"` here, and
`"rm"` a part of `"rm_force"`; the runs use the representatives. A PID with its start time is one
identity. A policy `on-failure:N` carries its own limit, where 0 means never; for the others 0 is unlimited.
Two history variables name the VMs that the properties leave out. `untracked` are the VMs the code loses: a start or restart
interrupted between boot and record or unable to write the record, a box killed with a stopping
signal that is not waited for, and a box that `prune` removes after it was started. `exposed` are the VMs whose
mounts a failed write puts at risk: the VM booted while `boxes.json` still names a dead one (the next load tears the
box down again), and the VM of a kill that does not wait and whose record could not be written.

## 3. Runs

Identities are model values. Symmetry is used where the code only compares them, and
never with liveness. `CHECK_DEADLOCK FALSE` everywhere: a removed execution, an exited
daemon, a finished sandbox or a removed box has no further steps.

| Run | Bounds | Checks |
| --- | --- | --- |
| `safety` | creation id and 2 restart ids, 2 options, 2 snapshots, all fault kinds, 3 faults, 3 generations; 958 000 states | `TypeOK`; `RecordConsistent`: no stored record is rejected on reading; `DecisionsAreLegal`: what an operation decides after its side effects, the store accepts; `TrackedRuntimeHasLiveRecord`; `RemoveNeverKills`; `StoppedReleasesResources`; `RestartReplacesRuntime`; `RecordAgreesWithRuntime`, unless a crun pause or resume reported an error; `ColdPauseKeepsRootfs`: a cold-paused execution that had its rootfs does not lose it; `ImplementsLifecycle`: the refinement |
| `liveness` | all fault kinds, 2 faults, 3 generations, fairness | `OperationsReturn`; `ClaimsResolve`: one reconciliation without a fault resolves a claim |
| `pool_safety` | 3 VMs, `max_size` 2, `min_idle` 1 to 2, 2 tasks, 2 leases, both losses; 4.3 million states | `VmHasOneOwner` and `InUseWithinPermits`, of the VMs not lost; `CommandsOutliveReaper`; `DrainedPoolStaysEmpty` |
| `pool_liveness` | `max_size` 1, 2 tasks, 1 lease, fairness | `AbandonedLeasesReclaimed`; `RequestsGetPermits` |
| `control_safety` | 2 requests, all operations and faults, 5 generations; 2.1 million states | `RecordsReadBack`; `KilledDoesNotRun`, unless `unnamed`; `FencedStateIsTrue`; `TerminalLeavesNoRuntime`, with the exemptions below; `ManagerKeepsItsPromise` |
| `control_recovery` | 1 request, no kill, crashes, unready envd, slow guests, 6 generations, fairness; 32 300 states | `InterruptedWorkIsFinished`, unless deferred or `early` |
| `cri_safety` | 2 calls at a time, 2 containers, dropped calls, crashes, failing destructions, loads and spawns, VM exits, the remains of one dropped call at a time; 3.7 million states | `OneStarter`; `RunningIsBacked`; `ReadySandboxHasVm`, with three exemptions; `StartableHasRootfs`; `RemovedLeavesNothing` and `LiveVmHasHolder`, unless the VmManager was dropped; `ExitedIsFinal` |
| `cli_lifecycle` | 2 users and the monitor, 2 processes, policies `always` with limit 1 and `on-failure:0`, failing writes; 3.2 million states | `OneVm` and `LiveVmIsTracked`, next to the `untracked` VMs; `TeardownSparesLiveVm`, of the VMs not `exposed`; `RestartBudget`; `NobodyWaitsForItself` |

Each of the `_safety` runs and `cli_lifecycle` also checks its module's `TypeOK`, which in
`SandboxControl`, `CriRuntime` and `CliLifecycle` relates a lock, a handle or a PID to the program counters.

Why the bounds are enough to be interesting: three generations hold a pause, a resume and
a restart in any order; two restart identities are what a retry of an old one
against a new one needs; two options and two snapshots make mismatching
retries possible; three faults allow a fault during the recovery from a fault
during a recovery. Two tasks and two leases make every pair of pool operations race, with the
reaper and the drain as third and fourth party. Two requests and the supervisor make
three writers for one record; five generations hold a create, a pause, a
resume and a kill that interrupts any of them. Two handlers make every pair of CRI calls race, two
containers make the other-running-containers fallback possible. Two users and the
monitor make the three parties that a lost update needs; a limit of one restart is reached
and exceeded by one more; `always` asks for every restart that `on-failure:1` does. In `pool_safety` three identities hold a lost VM next to two in use.

Faults left out of a run. `control_recovery` has no manager errors, no exits of the runtime and no kill:
an error or an exit during the one reconciliation leaves the record in transition until the next start, and a
reap that races a client's kill is the case of `control_kill_wedged`. `cri_safety` leaves out `"network"`: no action reads
`ip` and no property of the run tells `"leaked"` from `"none"`, while the states double; the theorems of section 4
cover it. It bounds the dropped calls (`MaxRemains` = 1): while a container
created or started half-way, or a VM whose VmManager is lost, is left over from one of them, no other call is dropped. Without that bound
the run passes too, on 5.2 million states, and the theorems hold for every value of it.

Fairness. `liveness`: weak fairness of the steps of an
operation that holds the lock (a running task goes on), and nothing else: nobody is assumed to call `reconcile`,
and `ClaimsResolve` says what a reconciliation does that was called, got the lock and met no fault. Its exemptions are a
snapshot, a container that `runtime.json` does not name, and a container that exits meanwhile. `pool_liveness`: tasks are scheduled and commands end (they
have a timeout), the semaphore serves waiters in order (strong fairness of `AcquirePermit`), the reaper ticks,
time passes, a drain that began goes on. `control_recovery`: handlers and the
supervisor are scheduled and the service is restarted after a crash. Nothing is assumed of clients, of
containers, or of faults.

The supervisor reconciles once per start of the service (`production/service.rs:338-341`), and reaps expired sandboxes
periodically. `InterruptedWorkIsFinished` is about that one reconciliation, and exempts by name the two cases in which it does
not finish the work: a guest still starting when it looks (`Deferred`, `supervisor.rs:152-159`) and a client that called
during it (`exec.early`). `TerminalLeavesNoRuntime` exempts `early`, `unnamed`, and a start or a cleanup kill that the manager could not
finish, whose claim stays with the manager.

Violation runs state what the repository says of itself:

| Run | Property | What TLC shows |
| --- | --- | --- |
| `control_kill_wedged` | `InterruptedWorkIsFinished` | a kill overtakes a pause, the pause advances the generation, the service crashes: no restart ever finishes the kill |
| `cri_abandoned` | `AbandonedRunIsUndone` | a RunPodSandbox dropped during the boot leaves its VM and address: the guard is armed after the boot |
| `pool_permit` | `InUseWithinMax` | a client disconnects before its answer is written: `write_frame` returns early (`pool.rs:1194`), the permit comes back, the VM runs on, and with `max_size` 1 two VMs are in use, although "the permit bounds concurrent in-flight sandboxes and is released only once the VM is torn down" (`pool.rs:1127`) |
| `cli_resurrect` | `MonitorRespectsStop` | the monitor has listed a dead box, the user starts and stops it, the monitor boots it |

### Observed and not repeated by a run

These follow from the models (the actions, and the history variables that the properties exempt), and are written down
because the properties above are stated around them.

Execution manager:
- A container that exits after a successful boot but before its identity is read leaves a failed
  record with its attachments: `resolve_start_error` (`create.rs:166`) does not release them.
- A crash between `crun run` and `runtime.json` (`sandbox/controller.rs:308`): kill sees nothing, remove forgets
  the record, the container lives. A cold resume interrupted there rolls back to
  cold-paused over a live container, although `vm_backend.rs:782` says that a
  cold-paused execution has no provider process.
- A failing `crun delete` does not stop the removal of the rootfs (`controller.rs:585`, against `vm/reap.rs:86`).
- A kill finished by `inspect` after a crash is not recorded as a stop by the user (`recovery.rs:83`).
- A container that exits during a snapshot leaves the execution `snapshotting` for ever (`snapshot.rs:109`); `ClaimsResolve` excludes snapshots.
- A pause that took effect and then reported an error is rolled back to running over a frozen container, since
  `visible_active_state` (`vm_backend.rs:768`) answers from the record. `freezeFailed` remembers such an error until the
  container is replaced, and `RecordAgreesWithRuntime` exempts it.
- A pause without memory that claims a record whose container a crashed observation had already destroyed
  is published without a rootfs (`operations.rs:42`); `ColdPauseKeepsRootfs` speaks of executions that had it, from the
  paused record on: a pause interrupted before that record is written is still `pausing`.
- A restart revives stopped and failed executions, which the comment of `is_terminal` (`box_record.rs:319`) excludes.

Pool daemon:
- A guest that is not ready in time is left running without manager (`warm_pool.rs:498`, `"unready"`).
- A lease inserted after `drain_all` emptied the map (`pool.rs:677`), and VMs of tasks that the daemon's exit ends, stay behind.
- Eviction writes an idle count that is stale by then (`warm_pool.rs:908`); only statistics read it.

Control plane:
- A client that calls during the startup reconciliation (`early`): the reconciliation lists the record of a create in progress, finds no execution, marks it failed, and the
  runtime that is then started belongs to nobody (`production/service.rs:238`).
- A kill of a sandbox that is being created (`unnamed`) asks nothing of the manager and records killed (`service.rs:688-701`);
  the create then starts the runtime and fails to publish it, and no one looks for it again.
- When envd does not become ready and the cleanup kill fails too, the record is marked failed over a live runtime, in create and connect
  (`service.rs:291-303`) and in recovery (`supervisor.rs:413-424`).
- A guest that is still starting at the reconciliation is deferred (`supervisor.rs:152-159`, `223-230`), and nothing comes back to it
  until the next start of the service.
- A pause that loses its compare and swap leaves a running record with an old generation; it is corrected by no later operation but a kill.

CRI:
- StopContainer of a container read as created can mark it exited after a StartContainer won; the workload then runs until the sandbox stops.
- `has_other_running_containers` is asked before the VM is taken: a container started in between loses its VM.
- A container registered between the recheck and a removal has no sandbox (`mod.rs:1418`).
- RunPodSandbox dropped while `add_sandbox` saves the record: the sandbox is in the store and ready, and its guard destroys the VM, although the
  comment at the disarm says that "a successfully-created sandbox can never be torn down by a late cancellation" (`mod.rs:757-760`).
- StopPodSandbox dropped between the destruction and the update leaves the sandbox ready without VM, which the comment at `mod.rs:846-850` means to rule out.
- After a failed spawn the container is marked exited so that "a retry can then start it cleanly" (`mod.rs:1594-1596`), and
  start_container refuses an exited container (`mod.rs:1477-1481`); `ExitedIsFinal` follows the code.
- A failing disconnection is logged and the address stays allocated (`service_ops.rs:126-142`).
- A service that cannot read its state starts fresh and leaves the VMs of the old one running (`mod.rs:482-485`).

CLI:
- The exit code file in the rootfs is not cleared at boot, so an old clean exit hides a crash from `on-failure`.
- The monitor's own probes are not fenced by boot: the verdict is written to whatever runs by then. The health worker ends at a pause and unpause starts none.
- A stop whose record was reconciled to dead meanwhile returns an error, and the monitor may restart the box.
- `RestartBudget` needs that one monitor runs.
- `kill` with a stopping signal other than SIGKILL clears the PID at once (`kill.rs:236-263`), and an interrupted boot leaves a VM without
  record (`monitor.rs:197-203`): the next start boots a second VM beside the one that still runs.
- A box booted after the flush of its reconciliation failed loses its mounts: the file still names the dead VM until the boot is
  recorded, and a load in that time tears the box down (`file.rs:39`).
- `prune` takes no lifecycle lock and writes back the records it loaded (`prune.rs:27-45`): a box started in between loses its record while
  it runs, although "Running boxes are never touched" (`prune.rs:5`). What it does to the records of other boxes is not modelled.

Every property of a passing run has a mutant in `PROJECT.json`: a definition
changed the way a plausible bug would change it (operators marked *Mutant* in
the modules; nothing uses them).

## 4. Proofs

Every invariant and every action property that a passing run checks but `TerminalLeavesNoRuntime`, and both refinements, are
also theorems: the run shows it on a small instance, the theorem for every value of
the constants that satisfies the named assumptions of the modules. Those say only what the code
or the modelling needs: identities that stand for nothing differ from real ones
(`NoVmAssumption`, `PidsAssumption`, `NoRecordAssumption`...), the sets of operations, faults and policies
are those of the code, bounds are natural numbers, and what the daemon counts is finite
(`VmsAssumption`, `FiniteAssumption`).

Each proof has the same shape: an inductive invariant `IndInv` as a conjunction of named parts; lemmas about the
operators of the model; one lemma per action; and the theorems, which follow from
`IndInv` by propositional temporal logic.

### `LocalExecutionProofs`

- `TypeCorrect`: `Spec => []TypeOK`
- `RecordsReadBack`: `Spec => []RecordConsistent`
- `OnlyLegalDecisions`: `Spec => []DecisionsAreLegal`
- `Refinement`: `Spec => ImplementsLifecycle`

The first three follow from `IndInv`:

- `TypeOK`;
- `RecordReadable`: validation, strengthened by `ColdMarker` (validation allows
  the cold-pause marker in more states than the code ever leaves it in, and the
  weaker form is not preserved by publishing a state);
- `StepFits(rec, op)`: the record is in a state the program counter can meet
  (`Allowed`), and a decision that waits in `op.then` is a legal edge, ends a
  snapshot in its source state, comes with a runtime update that keeps the
  marker valid, and is followed by a step that fits the new state
  (`DecisionFits`). Without it nothing connects what an
  operation decided before `release_resources` with the record it meets after;
- `HasRoom(rec, op)`: transitions that advance the generation are only under
  way below the bound.

The lemmas go bottom-up: types of intents, records and
operations; `TransitionReadable` (the core: `TransitionWith` of a readable
record by a fitting decision is readable); `CommitFits`, `GotoFits` and friends
for the ways a decision is formed; one lemma per decision operator; one lemma
per action. Backend actions only have to keep `BackendTypeOK`.
`Refinement` needs `IndInv` and `VacantIsNew` (an absent or removed record carries no
history) and shows for each action which abstract step, or stutter, it maps to.

### `LocalExecutionHostProofs`

- `NoTrackedLeftover`: `Spec => []TrackedRuntimeHasLiveRecord`
- `RemoveSparesRuntime`: `Spec => []RemoveNeverKills`
- `StoppedHoldsNothing`: `Spec => []StoppedReleasesResources`
- `RestartReplaces`: `Spec => RestartReplacesRuntime`

for every kind and number of faults. `HostInv` is added to `IndInv`. Its main part is
`RuntimeIsGone`: neither a record without a runtime, nor an operation that has *decided* to
publish such a record, has a container that is live and named by `runtime.json`. The
second half is what a crash between the decision and the commit needs. The argument:
every backend call but start, pause and resume only takes away (`Shrinks`), and a decision
that ends the runtime is taken on evidence that it is gone (a destroy that succeeded, or an
inspection that answered so). `StartIsNotFrozen` is needed because
`recover_start` takes a paused answer for the end of the boot and records a failure; `ResourcesReleased` covers
the steps between the release and the commit.

### `LocalExecutionAgreementProofs`

- `ColdPauseKeeps`: `Spec => ColdPauseKeepsRootfs`
- `RecordAndRuntimeAgree`: `Spec => []RecordAgreesWithRuntime`

both for every kind of fault.

`ModeInv` says which steps belong to a pause or resume with memory and which to one
without, so that no step of the first kind destroys the rootfs of the second.
`AgreeInv` says which records may have a frozen container (`FrozenIsTracked`), which must not have a
running one (`PausedIsFrozen`, `ColdIsGone`), the same of decisions under way (`DecisionAgrees`), and what a
failed call means as long as no pause or resume reported an error (`StepAgrees`: it found no container).
The invariant proved is `AgreementInv == freezeFailed \/ Leaked \/ AgreeInv`: after a failed freeze or thaw nothing is claimed until the
container is replaced, and a frozen container that `runtime.json` does not name, under a record that is ending, restarting or gone
(`Leaked`, over the states of `LeakStates`), is one about which the property says nothing in that state either.
The steps that leave those two cases, the launch and the end of a container, establish `AgreeInv` again.

### `PoolDaemonProofs`

- `TypeCorrect`, `ReaperSparesCommands` (`CommandsOutliveReaper`), `DrainIsFinal` (`DrainedPoolStaysEmpty`)
- `EveryVmIsOwned` (`VmHasOneOwner`) and `PermitsBoundUse` (`InUseWithinPermits`)

all for every `Losses`.

`IndInv` says where tasks and leases have a VM (`Fits`), that `active_execs` of a lease is the number
of its commands (`CountsFit`, on which the reaper relies), that pool, tasks and leases hold disjoint
sets of running VMs which are all the running VMs but the lost ones (`Owned`), that
the permits taken are at most `max_size` (`PermitsFit`), and what a drain has emptied (`DrainFits`).
Two parts were found by failed proofs: a pool that is not created yet is empty, and the slots and
doomed VMs of the maintenance task exist only at the step that uses them. Without the exemption of `lost` the bound is
false, as `pool_permit` shows.

### `SandboxControlProofs`

- `TypeCorrect`, `RecordsAreReadable` (`RecordsReadBack`), `KilledIsDead` (`KilledDoesNotRun`), `GenerationFences` (`FencedStateIsTrue`)
- `ManagerWithinLifecycle`: `Spec => ManagerKeepsItsPromise`

The key is `GoodCopy`: every write advances the record's generation, so an actor's copy that
has the record's generation *is* the record. A compare and swap then
replaces exactly what the actor read, and `GoodRecord` (what the record says of the
runtime, with the transitions that may be aborted) is kept. `Evolves` is what a manager call may do to an
execution in one step; it is also what the refinement needs. `KilledIsDead` has the exemption of `KilledDoesNotRun`: a killed record that
never named an execution says nothing of the runtime its create may still start.

### `CriRuntimeProofs`

- `TypeCorrect`, `OnlyOneStarter`, `RunningContainersAreBacked`, `ReadyMeansVm`, `StartableContainersHaveFiles`,
  `RemovalLeavesNothing`, `LiveVmIsHeld`, `ExitIsFinal` (the action property `ExitedIsFinal`)

`SandboxInv` gives the VM's handle, the address and the sandbox record at each step of Run, Stop and Remove, and says that at
most one handler has the handle (`OneOwner`); `ContainerInv` does the same for the containers' create and
start calls and their supervisors. The exemptions of `ReadyMeansVm` and `LiveVmIsHeld` are values of `vm.handle`, one for each way in which
the code parts with the VM; a destruction that succeeds and is followed by its bookkeeping is none of them.

### `CliLifecycleProofs`

- `TypeCorrect`, `AtMostOneVm` (`OneVm`), `LiveVmTracked` (`LiveVmIsTracked`), `TeardownIsSafe` (`TeardownSparesLiveVm`),
  `BudgetIsKept` (`RestartBudget`), `NoSelfDeadlock` (`NobodyWaitsForItself`)

`LockHeld` ties the lock to the program counters; `HolderFits` says what can happen to the record under the holder's
feet: readers do not take the lock, and may find the PID dead and drop it, and `prune` may remove the record with the VM still running
(which is then `untracked`), but nobody replaces it. It also says that a boot over a record that still names a dead VM is `exposed`.
`UntrackedFits` was the place of two corrections of the model: only processes that live are given up, and one that exits later is
forgotten.

### Only model-checked

Liveness under fairness is out of the prover's reach: `OperationsReturn`, `ClaimsResolve`, `AbandonedLeasesReclaimed`,
`RequestsGetPermits`, `InterruptedWorkIsFinished`. TLC checks them on the bounds of section 3. `TerminalLeavesNoRuntime`
is an invariant and could be proved; it is not yet, because its
inductive invariant has to follow an interrupted create through crash and reconciliation.

## 5. Not modelled, and the plan

Not modelled: the krun boot path, guest init, netproxy and shim (syscalls, packets and hypervisor
calls, seen here as boots, readiness and exits); image, layer, snapshot, volume and network
stores (file formats); SDKs, lambda, TEE attestation (wrappers and cryptography); streaming,
exec and attach of CRI and of the guest; the containerd shim; routing and gateway of the
control plane; vendored code.

Next, in this order:

1. A proof of `TerminalLeavesNoRuntime`.
2. Two manager processes over one record: the registry of owners per process
   goes stale when the other process restarts the runtime.
3. Runtime driver and scale manager.
