# devnet-builder: a TLA+ verification project

devnet-builder runs local Cosmos-SDK test networks ("devnets").  The repository
holds three programs: `devnet-builder`, a stand-alone CLI; `devnetd`, a daemon
built like a small Kubernetes control plane; and `dvb`, the command-line client
of the daemon.  This directory specifies the parts of the system that keep
state, run concurrently and have to survive failures: the daemon, and of the CLI
the devnet commands, the resumable upgrade and the Docker deployment.

## 1. Inventory

### 1.1 The daemon (`internal/daemon`)

| Component | State it keeps | Operations | Hard behaviours | What makes it correct |
|---|---|---|---|---|
| Work queue (`controller/queue.go`) | queue, dirty set, processing set, shutdown flag, sleeping workers | Add, Get, Done, Requeue, ShutDown | condition variable, two critical sections after a failure, shutdown while workers hold items | no item lost, no lost wake-up, one worker per key, everything served |
| Controller manager (`controller/manager.go`) | registered controllers, worker goroutines, `stopped` channel | Register, Enqueue, Start, StopWithTimeout | context cancellation races with Stop, timeout | a graceful stop leaves no worker behind; cancelling terminates |
| Store (`store/bolt*.go`, `store/memory.go`) | devnets, nodes, upgrades, transactions, each with a generation | Create, Get, Update, Delete, List, Watch | optimistic concurrency, delete and re-create, cascades | an update is never lost; generations never go back |
| Devnet controller (`controller/devnet.go`) | devnet phase, conditions, events | Reconcile per phase, progress callback | read, long call, conditional write; callback shared between workers | a devnet reaches Running only when provisioned; failures are visible |
| Node controller (`controller/node.go`) | node phase, desired phase, PID, restart count | Reconcile per phase | user commands, health sweep and two workers race; process dies at any time | a node ends where the user wants it; at most one process per node |
| Health controller (`controller/health.go`) | failure counters, backoff, restart counts | Reconcile, sweep, restart of crashed nodes | several resources written in one pass, stale reads, conflicts | restarts are bounded and reach the node controller |
| Upgrade controller (`controller/upgrade.go`) | upgrade phase, proposal, votes | Reconcile per phase | side effects before the conditional write, cancel and retry while running | one proposal, no vote for a cancelled upgrade, ends Completed or Failed |
| Transaction controller (`controller/transaction.go`) | transaction phase, unsigned transaction cache | Reconcile per phase | cancel races with a worker; writes are unconditional | a cancelled transaction is not broadcast |
| Provision log fan-out (`controller/provision_logs.go`) | subscribers with bounded buffers | Subscribe, Unsubscribe, broadcast | slow reader, unsubscribe during a broadcast | never blocks, never sends on a closed channel, order kept |
| Process runtime (`runtime/process.go`, `supervisor.go`) | supervisors by node, PIDs, restart counts | StartNode, StopNode, RestartNode, Cleanup, Detach, Reconnect | goroutine per process, signals, grace period, daemon restart | one process per node, stop kills, detach leaves it running |
| Docker and service runtimes (`runtime/docker.go`, `service*.go`) | containers, launchd/systemd units | the same interface | external daemon | as above |
| Subnet allocator (`subnet/allocator.go`) | devnet to subnet map, file | Allocate, Release, load, save | save failure, crash between write and rename, wrap-around of an 8-bit counter | no two devnets share a subnet; memory and file agree |
| Provisioner (`provisioner/*.go`) | data directory, node records | Provision, Deprovision, status | partial failure, retry | idempotent; nodes created once |
| gRPC services (`server/*_service.go`) | none of their own | Create, Start, Stop, Delete, Apply, Cancel, Retry | they race with the controllers over the same records | a rejected request changes nothing; an accepted one is acted on |
| Ante handlers (`server/ante`) | none | validate requests | stateless | rejects what the services assume absent |
| Server (`server/server.go`) | lifecycle of all of the above | Run, Shutdown, reconnect | shutdown order, restart | processes survive a daemon restart exactly once |
| Log store (`logs`) | ring buffers, files, rotation | write, tail, rotate | rotation while reading | bounded, ordered |
| Builder, genesis, nodeinit, checker, upgrader | caches of built binaries, generated files | build, fork genesis, initialise, probe | external commands | mostly I/O |

### 1.2 The CLI (`internal/application`, `internal/infrastructure`)

| Component | State it keeps | Operations | Hard behaviours | What makes it correct |
|---|---|---|---|---|
| Resumable upgrade (`application/upgrade`, `commands/manage/upgrade.go`) | state file with the stage reached, the proposal and its height; PIDs of nodes | upgrade, `--resume`, `--resume-from`, `--force-restart`, `--clear-state` | killed or interrupted between an effect and its save; chain that votes, halts and resumes by itself | stages in order across kills, no switch before the height, completed means upgraded, ends |
| Port allocator and registry (`docker/port_allocator.go`, `persistence/port_registry.go`) | ranges by devnet in a file, lock file | AllocateRange, ReleaseRange, ValidatePortAvailability | several processes, read-modify-write under flock, death of the holder | disjoint ranges, lowest fit, no lost allocation |
| Docker orchestrator (`docker/orchestrator.go`, `network_manager.go`, `node/docker.go`) | state file by devnet, networks, containers | Deploy, Rollback | failure half-way, cancelled context, kill, two deployments | a rollback leaves nothing behind |
| Devnet commands (`application/devnet/*.go`, `application/service.go`, `persistence/*_repository.go`, `process/*_executor.go`) | `metadata.json` with a status, a `node.json` with a PID per node, processes that outlive the command | deploy, start, stop, reset, destroy, node start, node stop | killed between an effect and its save, writes that fail and are only logged, processes that do not end in time, commands that trust the status | no process is lost by a stop, a removal stops what is recorded, nothing is lost when nothing fails |
| Binary cache (`infrastructure/cache`) | cached binaries, symbolic link to the active one | store, activate, clean | links replaced while in use | the active link names a cached binary |

The remaining use cases (status, health, exports, keys, snapshots) read, format, prompt and
call external programs.

## 2. Plan

The order follows what the rest of the daemon depends on: everything goes
through the queue and the store, the life of a node is what users see, and the
larger resources are built from nodes.

| Step | Module | Models | Uses | State |
|---|---|---|---|---|
| 1 | `WorkQueue` | queue, workers of one controller, manager shutdown | - | checked, proved |
| 2 | `SubnetAllocator` | allocation, saving and loading of subnets | - | checked, proved |
| 3 | `ResourceStore`, `AtomicResource` | one stored resource and its clients; the atomic resource it implements | - | checked, proved |
| 4 | `ProcessRuntime` | runtime, supervisors, processes and log writers of one node | - | checked, proved |
| 5 | `NodeLifecycle` | node record, services, node controller, health restarts, reduced runtime and queue | what 1, 3 and 4 show of queue, store and runtime | checked, safety proved |
| 6 | `DevnetLifecycle` | devnet controller, devnet service, provisioner, cascading delete, subnet release | what 1, 2, 3 and 5 show | checked, safety proved |
| 7 | `UpgradeController` | upgrade phases, work before the conditional write, cancel, retry and delete | what 1 and 3 show | checked, safety proved |
| 8 | `ProvisionLogs` | subscribers with bounded buffers, streams, broadcasts | - | checked, safety proved |
| 9 | `ResumableUpgrade` | stages of the CLI's upgrade, the chain, kill and resume | - | checked, safety proved |
| 10 | `DockerDeploy` | port registry and allocator, networks, containers, deployment and rollback | - | checked, proved |
| 11 | `CliDevnet` | files and processes of the CLI's devnet, and the commands that change them | - | checked, proved |
| 12 | binary cache, log rotation, ring buffer, reconciler diff | files shared by processes; pure functions against a reference | - | planned |

Every invariant and every action property that a run checks is now a theorem
(section 5).  Theorems still to come: that the reduced queues of `NodeLifecycle`,
`DevnetLifecycle` and `UpgradeController` are what `WorkQueue` allows.

## 3. Modules and code

A `M` module has its TLC instances in `MCM` and the `.cfg` files that start with
that name, and its theorems in `M_proofs`, except that `DaemonServices_proofs` holds those
of `ResourceStore`, `SubnetAllocator` and `ProcessRuntime`, and `Provisioning_proofs` those of
`ProvisionLogs` and `DevnetLifecycle`.  Where a proof module extends several models their
specifications have different names (`SubnetSpec`, `RuntimeSpec`, `LogsSpec` beside `Spec`).  Names of actions are those of the
functions in the code.  The variants marked faulty in the modules are not part
of any specification; they are what the properties must be able to notice.

**WorkQueue** (`controller/queue.go`, `controller/manager.go`).  `queue`,
`dirty` and `processing` are the fields of the same name.  A worker is running,
asleep on the condition variable, holding a key, between `Requeue` and the
deferred `Done` of `processItem`, or gone.  Each critical section of the mutex is
one step, `Signal` wakes one arbitrary sleeper, and a woken worker competes for
the mutex with those that are not asleep.  `Start`, the cancelled context and
`StopWithTimeout` with its timer are steps of their own.

**SubnetAllocator** (`subnet/allocator.go`).  Memory and file are two
variables; `save` writes a temporary file and renames it over the old one, so the file is
replaced at once or not at all, and the daemon may die before or after that.  The probe of `Allocate` is stepped subnet by
subnet in 8-bit arithmetic.  The hash of a name is an arbitrary function.

**ResourceStore** and **AtomicResource** (`store/bolt_*.go`).  The content of a
resource is the set of edits made to it, which is all that a lost update can be
told from.  A client reads a copy, edits it and writes it back; the store compares
generations (`Checked`) except for transactions.  `UpdateDevnet` counts the generation of
the caller's own copy up before the commit (`bolt_devnet.go:108`), so a commit that fails
leaves a copy ahead of the store.  Most callers drop the copy after an error; the progress
callback of the devnet controller goes on with it (`devnet.go:392`).  `Keepers` are the
clients of that kind, and `ahead` (history) those whose copy a failed commit has changed.  The incarnation in a record is a
history variable: the code does not store it.  `AtomicResource` is what clients
reckon with: every accepted edit is added to what is there.  The store implements it up to
updates from a copy of an earlier incarnation or from one that is ahead.

**ProcessRuntime** (`runtime/process.go`, `supervisor.go`, `logs.go`).  A
supervisor is a goroutine at a place of `run`, `startAndWait` or `runMonitor`,
with its `stopCh`, flags and counters; a process is alive or not and may have a
signal on its way.  `StopNode` is stepped from removing the supervisor from the
map to closing the log, since it waits without the lock.  The daemon can exit
at any time, and a new one can reconnect to a process that is alive, with a log writer or
without one when the log cannot be reopened (`process.go:302`).

**NodeLifecycle** (`controller/node.go`, `controller/health.go`,
`server/node_service.go`, parts of `server/devnet_service.go` and
`upgrader/runtime.go`).  It composes the components above in reduced form: the
queue keeps how often each key is queued and who holds it; the store keeps the
record and, per worker, whether its copy is still fresh; the runtime keeps the
supervisor that is registered.  A reconcile is one step up to its first call of the
runtime, and one step for each call and the final write after that.  A node has
two keys because services queue `namespace/devnet/index` and the health
controller `devnet/index`.

**DevnetLifecycle** (`controller/devnet.go`, `server/devnet_service.go`,
`provisioner/devnet.go`, `provisioner/orchestrator.go`, `health.go`'s phase of the
devnet).  One devnet, its record, and what a provisioning leaves outside it:
directory, subnet, node records and the queue entries of the nodes.  A reconcile that
provisions is stepped through directory, subnet, the phases of the orchestrator with
their progress reports, the node records and the final write; the callback through
which reports reach the record is one variable, as it is one field in the code.
`DeleteDevnet` and `StartDevnet` are stepped through their writes.  The queue, the
store and the health sweep are in the reduced form of `NodeLifecycle`; of a node there is
left whether it has a record, whether it was queued for its controller (`managed`), left out
because the nodes could not be listed (`missed`) or not there yet (`created`), and the subnet
of its address.  Listing the nodes, queueing them and writing the devnet are three steps.
What the code only logs before it goes on is modelled as it goes on: a report that is not
committed leaves the worker a copy that is ahead of the record (`ahead`; `late` is the
copy that a callback still writes after the reconcile it came from has ended), nodes that cannot be listed are not
queued, and each step of a deletion may fail and be passed over (`left` tells which).
Whether nodes run is not part of the model; a sweep may find the devnet Running or Degraded.

**UpgradeController** (`controller/upgrade.go`, `server/upgrade_service.go`,
`upgrader/runtime.go`, `store/bolt_upgrade.go`).  One upgrade, its workers and the
nodes they switch.  A reconcile is a read, its work (one step per node where it
loops over nodes), and the conditional write.  The proposal and the votes are not
state, because the runtime of the daemon only simulates them.  A switch gives a node the path
that the source of the upgrade has: a new one, none (types cache and GitHub without a path)
or the one it had (`upgrader/runtime.go:211`); a node without a path is started with
`Default`, the binary found by name.

**ProvisionLogs** (`controller/provision_logs.go`, `StreamProvisionLogs`).  A
broadcast copies the list of subscribers and then checks and sends subscriber by
subscriber; a stream receives, sends to its client, and leaves when the context of
the call is done or the client is gone.

**ResumableUpgrade** (`application/upgrade/*.go`, `commands/manage/upgrade.go`,
`persistence/upgrade_state_repository.go`).  The state file, the run that works on
its copy of it, the nodes and the chain.  Every effect on the chain or on a node and
every save of the file is a step, so a kill falls between any two of them.  The chain
is external: as long as it produces blocks it ends voting periods and takes proposals and
votes (`Alive`); it halts at a planned height until more than two thirds of
the nodes have the new binary, and otherwise produces blocks as long as more than two thirds
of the nodes are up.  Once it has applied the upgrade, only nodes with the new binary count:
the old one cannot process the blocks behind the height (`applied`).

**DockerDeploy** (`docker/orchestrator.go`, `docker/port_allocator.go`,
`docker/network_manager.go`, `persistence/port_registry.go`, `node/docker.go`).
Processes that deploy and roll back.  Under the lock the registry is loaded and
saved in two steps; the docker commands of a phase are a step each; each save of the
state file that follows an effect is a step.  The error of a save is ignored by the code
(`orchestrator.go:85`): a fault of the disk lets any save or removal of a state file in that
call leave the old file or one that cannot be read.  A docker command whose context is cancelled
is killed, and the Docker daemon may carry it out all the same (`CarriedOut`).  No command of the repository calls the orchestrator
yet; it is modelled as its interface (`domain/ports/orchestrator.go`) and its tests use it.

**CliDevnet** (`application/devnet/provision.go`, `run.go`, `reset.go`,
`application/service.go`, the repositories and executors).  A command begins with what it
reads, and then launches, records, stops or removes node by node; every effect and every
write is a step, so that a kill falls between any two.  What provisioning does before it
saves the metadata (keys, genesis, configuration) is one step that may fail.  `strays` and
`trouble` are history: which live processes lost their record, and whether something has
failed or a node was started that was not down.  A forced stop sends SIGKILL and does not wait,
so a process may be dying when its data is removed; that state is `killed`.  A write that is
killed or fails leaves the old file or a torn one that cannot be parsed; `destroy` then
goes on without having stopped anything (`DestroyUnstopped`, `reset.go:199`).  Two commands at
the same time and reuse of PIDs are left out.

## 4. Runs

| Run | Instance | Shows |
|---|---|---|
| `work_queue` | 2 keys, 3 workers, 2 failures | bookkeeping of the queue and of a graceful stop (`QueueInv`), no item lost, none waits while a worker sleeps, at most one worker per key until a failure; every key is served, shutdown completes |
| `subnets` | 4 devnets, subnets 252 to 254 | unique, durable subnets and complete roll-backs (`AllocatorInv`); the probe sees every subnet and ends |
| `store` | 3 clients, one of which keeps its copy, 3 edits, 2 incarnations | generations tell contents (`StoreInv`); refinement of `AtomicResource`: no accepted edit is lost, except by an update from a copy of an earlier incarnation or one changed by a commit that failed |
| `runtime` | 2 supervisors, 1 restart | who owns which process, restart limit, stops are final (`RuntimeInv`); failures are retried |
| `node` | 2 workers, 1 command, 1 launch, 1 daemon restart | what fresh copies tell and that an acknowledged stop stands (`NodeInv`), only a command takes it back, no node is left in Starting |
| `devnet` | 2 workers, 2 nodes, 3 events of which 1 may be an upset, 2 refused writes | what copies tell, so that no accepted write takes a stop back, but for a copy kept after a failed commit (`DevnetInv`); reported nodes exist, were queued unless they could not be listed, and have addresses in the subnet held; a deletion leaves only what its own steps failed to remove; provisioning ends |
| `upgrade` | 2 workers, 2 validators, 1 full node, 4 commands, 2 upsets | copies match the record (`UpgradeInv`), no switch before the height, completed means switched to what the source gives, cancellations stand |
| `provision_logs` | 2 streams, 2 broadcasters, buffer 1, 2 entries | who is on the list (`LogsInv`), order, no silent loss, no stuck broadcast |
| `resumable_upgrade` | 2 validators, 4 commands, 2 upsets | file, run and chain agree (`ResumeInv`), stages in order, switch at the height, completed means upgraded, commands end unless they are stranded behind an earlier plan |
| `docker_deploy` | 2 processes, 2 names, 7 ports, 3 calls, 1 fault | the registry belongs to the holder of the lock (`DeployInv`), disjoint ranges, first fit, what a rollback leaves after a kill, a cancelled context or a broken disk |
| `cli_devnet` | 2 nodes, 5 processes, 5 commands, 2 upsets | which processes the files know (`CliInv`), a removal stops what is recorded unless a destroy cannot read the files, nothing is lost when nothing fails |
| `upgrade_stuck` | 2 workers, 1 command | the departure of section 6 |

The bounds are small but every action fires within them.  Three workers and two keys
give a sleeper while two others hold a key; two failures give the double
entry twice.  Four devnets on three subnets run the space full, and two of them
prefer the last subnet so that the probe wraps around.  Three clients let two
copies go stale by different updates, and the copy that one of them has kept after a failed
commit be caught up by those of the two others; the second incarnation starts at
generation 1 under copies of the first.  Two supervisors suffice for a dropped one
and its successor; a third adds another of the same.  In `node` counters of restarts
saturate at the limit and the queue holds at most two copies of a key; one
command races with both workers, a launch, a death and a daemon restart.  A
longer sequence of commands is covered for safety by the proofs, which have no bound.
In `devnet` three commands give a creation, a deletion or stop while a worker
provisions, and the next creation under the same name; a refused write gives the
two copies of the key that let both workers provision.  `ProvisioningEnds` gives up at the
second refused write, so the retry after the first one is checked.  The upset is a failing
step, listing or commit of a reconcile, a health sweep, a daemon restart or a failing step
of a deletion.  In `upgrade` four commands give cancel and retry while both workers are busy,
with sources of all three kinds; heights 0, 1 and 2 are before, at and behind the first target.
One place in the buffer is full with one entry, and with two entries from one or two
goroutines order and loss can be told.  Two upsets in `resumable_upgrade` are a kill,
the resume, and another kill or failure; two validators suffice, as one vote or one restart can
be missing.  Seven ports leave one over when three blocks of two are taken, so gaps
of one, two and three ports occur; one host service makes the port check fail.
In `cli_devnet` five commands give deploy, two that disturb, start, and a removal; two
upsets give a launch or write that fails, or tears its file, and a kill after it, and with five
processes both nodes can be launched twice.

The `work_queue` and `subnets` runs check deadlock, although it says little there,
since somebody may always call again; `ShutdownCompletes`, `EventuallyServed` and
`ProbeTerminates` are what shows that nobody waits for ever.  The other models may stop,
because their bounds are used up, nobody has to call, and a process need not exit; they
say `CHECK_DEADLOCK FALSE`.

### Fairness

- `WorkQueue`: weak fairness of each worker and of the shutdown goroutines.  Go's
  scheduler runs every goroutine that is ready, and the mutex hands itself over to a
  waiter that starves.  Keys are served in the order of the queue.
- `SubnetAllocator`: weak fairness of the steps of a probe, a loop under the mutex that
  calls nothing.
- `ProcessRuntime`: weak fairness of goroutines, of `StopNode` in progress, of
  the timer of the grace period and of SIGKILL.  Nothing is assumed of a process that
  was not killed.
- `NodeLifecycle`: weak fairness of a worker that holds a key, of the launch and of
  the health ticker.  Taking a key has strong fairness, because its order in the queue
  is abstracted: a key in a FIFO queue reaches its head however often other keys
  are taken in between.  It also excludes a store that fails for ever.  Callers,
  deaths and daemon restarts have no fairness.
- `DevnetLifecycle`, and `UpgradeController` in the run `upgrade_stuck`: weak fairness of each
  worker, for the same reasons as in `WorkQueue`.  The calls a worker makes have timeouts.
- `ProvisionLogs`: weak fairness of the goroutines that broadcast, and of a stream's
  handler once its context is done.  Nothing is assumed of clients.
- `ResumableUpgrade`: weak fairness of the command that runs, of the end of a voting
  period on a chain that produces blocks, and of blocks as long as the command waits for one
  and the chain is able to produce it.  Users, kills and failures have no fairness.
- `DockerDeploy` and `CliDevnet` state no liveness: `docker` commands and `flock` may take
  for ever, and nobody has to give a command.

## 5. Proofs

All theorems hold for every value of the constants that the named assumptions
allow; the bounds of the runs are constants too, so they are no restriction.

| Theorem | Says | Argument |
|---|---|---|
| `WorkQueue_proofs!QueueInvariant`, `NothingLost`, `StopIsGraceful` | bookkeeping, no lost key, graceful stop | every dirty key is in the queue or held by a worker that will look at `dirty`; the manager counts itself done only after all workers are |
| `WorkQueue_proofs!Deduplicates` | one worker per key until a failure | without a failure a key in the queue is dirty, is there once, and no worker holds a key that is being re-queued |
| `WorkQueue_proofs!NoLostWakeup` | queued items have workers coming for them while others sleep | as a cardinality: an `Add`, `Done` or `Requeue` that lengthens the queue by one also wakes a sleeper, if there is one, and a worker that falls asleep has seen the queue empty, so both sides of the inequality move together |
| `DaemonServices_proofs!AllocatorInvariant` and its corollaries | unique, durable, exhaustive | what memory and file differ by is determined by the step the operation is at; a probe has visited an interval, cyclically, from the preferred subnet |
| `DaemonServices_proofs!StoreInvariant`, `CurrentUpdatesAreSafe` | generations order the contents of an incarnation, for copies no failed commit has changed; an accepted update from such a copy keeps every edit | inductive as it stands: such a copy is never ahead of the store, and with equal generations has its content |
| `DaemonServices_proofs!StoreIsAtomic` | where generations are compared, every step is one of `AtomicResource` or none, except an update from a copy that is not vouched for (of an earlier incarnation, or kept after a failed commit) | from the above |
| `DaemonServices_proofs!NothingLost`, `StoreImplementsAtomic` | no lost update, and the refinement without exception, when moreover the resource is created once and nobody keeps a copy after a failed write (`Keepers = {}`: nodes and upgrades) | from the above: then every copy is vouched for |
| `DaemonServices_proofs!RuntimeInvariant` and its corollaries | restart limit, stops are final, no launch after stop | launches and restarts are in step at every place of the loop; a supervisor not waiting for a process has none |
| `DaemonServices_proofs!LogKept` | cached log writers are open; only a `StopNode` takes the log from the supervisor in the map, and one that never had it is the monitor of a reconnected process | inductive as it stands, with the types |
| `NodeLifecycle_proofs!NodeInvariant`, `StopIsRespected`, `StopsAreKept` | an acknowledged stop stands, and only a command takes it back | `StopStands` is not inductive: that a worker may save Running needs that its copy, being fresh, was read while the node was wanted up (`CopiesMatch`) |
| `Provisioning_proofs!DevnetInvariant`, `NodesAreThere`, `DeletionIsComplete` | copies that no failed commit has changed match the record, reported nodes exist and were queued unless they could not be listed, a deletion leaves only what its own steps failed to remove | none is inductive alone: a copy needs that it was read of a devnet that exists (`CopiesAreReal`, and `LateCopies` for those a callback outlives), a deletion that no worker is busy unless that is counted as overlap (`DeletionIsAlone`), and the nodes what a worker has made at each stage (`WorkerProgress`), that a copy which reports nodes was made after they were queued (`CopiesTold`), and what a deletion has removed so far (`DeletionProgress`) |
| `Provisioning_proofs!ListOfOpenStreams`, `EntriesInOrder`, `NothingLostInSilence` | the list is that of the open streams, order, no silent loss | a broadcast has a copy of the list that names nobody twice (`BroadcastPlaces`), a `done` channel is closed exactly when the call has returned (`DoneIsEnded`), and what has reached a stream is older than what is still to come to it (`NumbersPast`) |
| `UpgradeController_proofs!UpgradeInvariant`, `SwitchAfterHeight`, `CompletedIsSwitched`, `CancellationHolds`, `FailuresStand` | no early switch, completed means switched to the path the source gives and, if the upgrade names its version, run with it; cancellations and failures stand | a step of a worker has one of five effects on record and nodes; the write of a worker is accepted only when its copy is current, and then says what it was read as (`CopiesMatch` in `UpgradeInv`), so it takes nothing back |
| `ResumableUpgrade_proofs!ResumeIsSafe`, `SwitchAtHeight`, `CompletedIsUpgraded`, `StagesFollowTable` | file, run and chain agree across kills; stages in order; no early switch; completed means upgraded | the proposals of the chain are ordered by height and their fates follow from their votes (`ChainInv`), the file names one of them and nobody voted for a later one (`VoteInv`), a run is in the stage its memory says (`RunInv`); a block beyond the plan then needs the new binary on a quorum (`PlanReached`, `BlockNeedsNew`) |
| `DockerDeploy_proofs!DeployInvariant`, `AllocationsAreKept` | the registry changes only under the lock, no save loses an allocation | the copy of the holder of the lock equals the registry |
| `DockerDeploy_proofs!PortRangesDisjoint`, `AllocatorIsFirstFit` | ranges do not overlap and are the lowest that fit | a range proposed by the probe lies behind every range it has passed; by well-founded induction over the ports left, no lower range was free |
| `DockerDeploy_proofs!RollbackIsComplete` | what a rollback without errors leaves, a stale state file, a killed `docker network create` and a container that was created and not started excepted | a deployment has one name in files, calls and registry (`NamesInv`), one process makes it and another one that rolls it back disturbs it (`AloneInv`), its network is in no state before it exists and does not come back once removed (`BeforeInv`, `NetworkInv`), and what there is of an undisturbed deployment is in the state of its call or, without a call, in its file (`CallInv`, `FileInv`); a container outside that list is the one `docker run` has not started (`ListedInv`) |
| `CliDevnet_proofs!CliInvariant`, `RemovalsStopNodes`, `OrderlyUseIsSafe` | the files know every process that is not counted as lost; removals stop what is recorded, unless a destroy cannot read the files; orderly use loses nothing | `CliInv` is inductive; the other two need what a command has done so far: below the node a stop is at nothing recorded is up, in a removal that has stopped the nodes (`RemovalProgress`), and without trouble nothing is up above the node a start is at, or outside a Running devnet (`OrderlyProgress`) |

The assumptions are those named in the modules: sizes and bounds are natural numbers, where
needed not zero; the `No...` values differ from the values they stand beside; subnets
and ports form ranges.

The inductive invariants of `Provisioning_proofs` and `ResumableUpgrade_proofs` and that of the
rollback also hold in all states TLC reaches on the instances of their runs.  The attempt to prove `CompletedMeansUpgraded` showed an error of the model: nodes with
the old binary counted for the blocks behind the upgrade height, so a chain could be found
to have resumed without a quorum of new nodes.  The chain now keeps whether it has applied the
upgrade (`applied`).

Only model-checked: liveness under fairness (`EventuallyServed`, `ShutdownCompletes`,
`ProbeTerminates`, `FailureIsRetried`, `StartingIsLeft`, `ProvisioningEnds`,
`BroadcastEnds`, `RunEnds`), which is outside the prover's reach.

## 6. Where the code departs from what it says

A run in which TLC finds the behaviour.

| Run | Property | What happens |
|---|---|---|
| `upgrade_stuck` | `UpgradeProceeds` | "Daemon orchestrates" (`docs/v2/quickstart.md:249`), but a reconcile moves the upgrade one phase on and nothing queues it again, so it stays in Proposing |

## 7. Further departures seen while modelling

These were read in the code.  No run is devoted to them, so none is confirmed by a
counterexample that a reader can reproduce here, and a change of the code that repairs or
worsens one would not fail a run.  Those about a modelled component are for the most part
behaviours its model allows; those about transactions, full nodes, `init`, the lookup of the
binary by `node start` and two CLI commands at once are outside the models.

Queue, store and nodes:

- A failed reconcile queues its key twice: `Requeue` appends it and the deferred `Done`
  finds it dirty (`queue.go:123`), so two workers may reconcile one key.  `queue.go:8`
  calls the queue deduplicating; `SingleFlightUntilFailure` is what holds.
- A devnet created anew starts at generation 1 and accepts a copy of its predecessor
  (`bolt_devnet.go:35`).
- `StartNode` of the runtime drops a supervisor that is about to launch
  (`process.go:73`), and both launch.
- `RestartNode` (`node_service.go:282`) never stops the process, so the start is
  refused and the running node is recorded as Crashed.
- A Running node whose supervisor gave up is never queued (`health.go:197`), although
  `docs/v2/quickstart.md:207` says the daemon recovers crashed nodes.
- A node has two keys (`health.go:288`); under them one worker may start the node
  after the other has stopped it.
- A progress report whose commit fails is only logged, and the reconcile goes on with a copy
  whose generation is counted up already (`controller/devnet.go:392`, `bolt_devnet.go:108`).
  Its next write is refused if nobody else has written, and accepted, over what was
  written, if somebody has: the check of generations is then the wrong way round.
- Transactions are updated without comparing generations (`bolt_transaction.go`), so
  the later of two updates from the same copy wins.
- "stop signals the supervisor to stop gracefully" (`supervisor.go:232`), but it closes
  `stopCh` and waits for a goroutine that is in `cmd.Wait` and sends no signal: a graceful
  `StopNode` takes as long as the process lives, and `Cleanup` waits like this under the lock.
- `StopNode` of a process the daemon reconnected to returns success and leaves it
  running: `runMonitor` ends without a signal when `detachMode` is set.
- `forceStop` between the supervisor's stop check and `cmd.Start` kills nothing and
  then waits for the process that is launched afterwards.
- `Detach` closes the log writer behind the output pipe of processes that are meant
  to live on.
- A process the daemon reconnects to while its log cannot be reopened is supervised without
  a log (`process.go:302`).
- A `StopNode` that ends late closes the log writer a newer supervisor was given.
- The health controller queues a crashed node under a key without namespace; outside
  the default namespace it names no node, which then stays Pending.
- `SwitchNodeBinary` sets a node to Pending and queues nothing; so does `StartDevnet`
  when its update of the devnet conflicts.
- The PID is asked for before the supervisor has launched the process, and not again
  after a restart, so the record of a running node may lack it or hold an old one.
- After a daemon restart a node recorded as Running whose process is gone is not
  queued, although `process.go:353` says that the controller will restart it.
- Transactions are queued under `default/<name>` (`transaction_service.go:87`) and
  looked up under that whole key, so none is ever found and all stay Pending.

Devnets:

- A deletion while a worker provisions leaves what the worker creates afterwards:
  node records, subnet, directory.
- An update during provisioning makes the final write fail; the key is then queued twice, and
  two workers may provision the devnet and erase each other's directory, again and again.
- Nodes that cannot be listed after they were created are not queued, which is only logged; the
  devnet is written Running all the same, and nobody queues them later (`devnet.go:284`).
- A deletion goes on after each step that fails and removes the record
  (`devnet_service.go:170`), so node records, subnet or directory stay without a devnet; node
  records left so keep their old addresses in the next devnet of the name.  One that fails in
  the last step leaves a devnet that reports nodes it no longer has.
- All reconciles share the provisioner's one progress callback, so reports of one may
  be written through the copy of another.
- Nothing queues devnets after a daemon restart: one in Provisioning stays there.
- A Degraded devnet without nodes becomes Running at its next reconcile.
- `StartDevnet` that fails part of the way leaves nodes Pending that nobody queues.

Upgrades of the daemon:

- Only validators are switched; full nodes keep the old binary, although
  `docs/v2/quickstart.md` has the daemon switch and restart all nodes.
- An upgrade whose source gives no binary (types cache and GitHub without a path) switches
  nothing, and without a version to verify it is Completed (`upgrader/runtime.go:211`).
- `DeleteUpgrade` checks the phase and then deletes whatever is there.
- A worker that was switching when the upgrade failed elsewhere goes on after a retry and a
  cancellation.

Provision logs:

- The stream ends when its channel is closed, "provisioning complete"
  (`devnet_service.go`), but nothing closes it: a stream ends only with its client.

Resumable upgrade:

- A user's interrupt or an error of the RPC endpoint is saved as Failed, which
  `--resume` refuses, although `docs/workflows.md:138` says "If an upgrade is
  interrupted (network issue, crash, etc.), you can resume".  Only a kill is resumable.
- Killed between the submission and the save, the resumed run submits a second proposal.
- A proposal that passes while the command is down in Voting makes the resumed run fail.
- Whether governance is skipped is taken from the flags of the resuming command and not
  from the file.  The lock of the state file is never taken.
- A node that does not restart does not fail the switch; a kill between its start and the
  save of its PID leaves a process that the next run does not know.
- Without a proposal number in the receipt number 1 is assumed.
- After `--force-restart` the chain may halt at the height of the first plan while the
  command waits, without a deadline, for that of the second (`execute.go:272`).  `RunEnds`
  excepts this wait (`Stranded`).

Docker deployment:

- "On any failure, automatically rolls back all changes" (`domain/ports/orchestrator.go:12`)
  does not hold for a port conflict: the range enters the state after the check
  (`orchestrator.go:346`), stays allocated, and the next deployment of the name is refused.
- A second `Deploy` of a name that runs overwrites its state file, fails, and deletes it.
- A rollback with a cancelled context releases the ports of containers it could not stop.
- Rolling back twice never succeeds: containers that are gone are errors, and the state
  file stays.
- Started containers enter the state file only when all have started, and a network only
  after it was created, so a kill in between leaves them unknown.
- The error of a save of the state file is ignored (`orchestrator.go:85`), so a rollback may
  work from a stale file, succeed, and leave a network, containers or ports.
- `NetworkID` is set from the output of `docker network create`, so a command that is killed
  while Docker carries it out leaves a network the rollback does not know.
- A container that `docker run` created and could not start is left by the rollback.
- Ports are released by name, whichever deployment allocated them.
- Container names are the same for all devnets; a second deployment is refused, or,
  between `inspect` and `rm -f`, removes the container of the first.

Devnet commands of the CLI:

- Every command but `deploy` takes its service from `GetService` (`application/service.go:943`),
  which never sets Docker mode, so its executor is the local one.  On a Docker devnet `stop`
  stops nothing, records Stopped and reports success ("Stop running nodes without removing
  data.", `docs/commands.md:910`), `start` fails every node, and `reset` and `destroy` remove
  data under running containers.
- `init` also gets a service without a network module; provisioning then has no RPC endpoint
  (`provision.go:99`) and always fails.
- `stop` records Stopped although nodes did not end in time (`run.go:381`); a later `start`
  launches them again over the live ones and overwrites their PIDs.
- `start` of a Failed devnet launches all nodes, also those that run (`run.go:59`).
- `reset` and `destroy` stop nodes only when the status is Running (`reset.go:47`), so after
  a failed start, a killed `deploy` or `node start` in a stopped devnet they remove data
  under live processes.
- A `destroy` whose stop fails only warns, and one that cannot read the metadata does not stop
  at all (`reset.go:190`); one `node.json` that cannot be parsed, as a killed write leaves it,
  is enough (`node_repository.go:113`), and the data is removed under recorded live processes.
- "If nodes don't stop gracefully within the timeout, they will be forcefully terminated."
  (`stop.go:26`), but `stop` never sets `Force`, so they are not; the model follows the code.
- A node that is up but does not answer yet is launched a second time by `node start`.
- `node start` looks for the bare name of the binary (`service.go:570`, `local_executor.go:72`),
  which is found only in the current directory.
- A `node.json` that could not be written by `deploy` is only logged; the node is then never
  started, and the devnet is Running all the same.
- Two commands at once are not excluded: the files have no lock.

## 8. Not modelled

The transaction controller is not modelled, because no key that reaches it names a
transaction (section 7): its phases are never entered.  The memory store serves tests.
The binary cache, the log buffers and the reconciler's diff are planned, see section 2.
Left out for good: the Docker, launchd and systemd runtimes of the daemon, which call
external daemons; the builder, the genesis forker and the node initialiser, which run
external programs; the wiring of the server; request validation, authentication,
generated protocol code, the clients and terminal output, which keep no state of the
control plane.  The definitions stand for about 7400 of some 102000 lines of the
repository's implementation (7%), so the project covers the control logic named in
section 1 and most of the code, by lines, is outside it.  In what is
modelled, logging, events, conditions and messages are left out, and so are lists and
read-only calls.  The chain, the operating system, Docker and bbolt are external: a
process may exit at any time, SIGKILL ends it and frees its locks, a bbolt transaction
is atomic and may fail, Docker refuses names, subnets and ports that are taken.
