# fc-runner in TLA+

fc-runner polls GitHub for queued workflow jobs (or keeps pre-registered runners
warm) and runs each job in a Firecracker microVM of its own. The interesting part
of it is bookkeeping under concurrency and failure: slots, permits, counters,
channels, devices, registrations and files that dozens of tokio tasks, external
tools and earlier starts of the program share, and that must agree again after every
failed request, timeout, cancellation or crash. This directory holds TLA+ modules
of that bookkeeping, the TLC models that check them, and TLAPS proofs. All source
paths are relative to the repository root.

## 1. Inventory

| Component | Source | State it keeps | Operations | What makes it correct |
|---|---|---|---|---|
| JIT scheduler | `src/scheduler/orchestrator.rs` `run_reactive`..`run_jit_job` | `seen_jobs`, `semaphore`, `slot_pool`, `active_jobs`, `ServerState.active_vms` | poll, dispatch, run, give back, drain | slots never shared or lost, a permit implies a slot, a job has one task and its id is released, the count is exact so that the drain is meaningful |
| Named pools | `src/scheduler/pool.rs`, `run_pools` | `slot_pool`, `active_count`, `paused`, `min_ready`, `max_ready`, the `done` channel | run, spawn, replace, pause, resume, scale, drain | the same accounts, and every repository keeps being served |
| Warm pool | `orchestrator.rs` `run_warm_pool`..`run_warm_vm` | `slot_pool`, `active_jobs`, `done` channel, `signaled` flags | start, replace, autoscale, early report, drain | exactly one report per VM, the population is kept |
| MicroVM life cycle | `src/vm/firecracker/*`, `src/vm/netlink.rs` | TAP device, rootfs or overlay, cache image, sockets, child processes | prepare, run, time out, kill, clean up, reap | everything of a VM is gone before its slot is free, and a VM keeps its device until then |
| GitHub client | `src/github.rs` | cached App token, GitHub's runner registrations | list, register, delete, offline scan | a VM that loses its registration ends, a job never shares a VM |
| Guest agent, VSOCK | `src/agent.rs`, `src/vm/vsock.rs` | one connection per VM | ready, started, log, completed, reboot | completion is told at most once and never before the job's end |
| Assets | `src/vm/setup.rs`, `src/image.rs` | kernel, golden rootfs, digest, squashfs, packet filter | download, build, convert, insert rules | what a start takes over from an earlier one is complete and is what the configuration asks for |
| Cache service | `src/api/cache_server.rs` | `entries`, `key_index`, `next_id`, index file, upload files, S3 objects | reserve, upload, commit / create, finalize, lookup, restart | what is found was uploaded, ids are not reused, answered saves survive a restart |
| Management API | `src/api/server.rs` | `active_vms`, `pools`, log broadcast | register, unregister, pool requests, SSE | `ps` shows what runs |
| Configuration, builder, metrics, CLI | `src/config.rs`, `config_builder.rs`, `mmds.rs`, `metrics.rs`, `cli.rs`, `api/client.rs` | none that decides anything | | |

Interactions. `main.rs` provisions the assets, starts the API server (which also
serves the cache) and runs one of the three schedulers, which share a
cancellation token with every VM. A scheduler leases a *slot* to a VM task; TAP
name, subnet, cache image and vsock CID are functions of the slot
(`src/vm/firecracker/mod.rs`, `MicroVm::new`), so the slot lease is what isolates
VMs on the host. The VM boots from the golden rootfs or the squashfs. VM tasks report
back through locks and counters (JIT) or a bounded channel (pools), and delete
registrations at GitHub, theirs and others'. The API reads and writes the pool
managers' atomics. The guest talks to the host through VSOCK, to the cache
through HTTP and to GitHub.

Hard behaviour: tasks interleave at every `await`; each resource is returned under
a lock of its own; listings are stale when used; the token is cancelled anywhere;
two tasks race to report one VM; a `waitpid(-1)` takes the exit status of anybody's
child; devices are deleted by a name that may belong to somebody else; savers share
a temporary file; a start-up takes files of an earlier one for complete; the process may
die between any two file operations. `PROJECT.json` lists these hazards at their
lines with the properties that cover them.

## 2. Plan

1. `SlotLease`, `JitDispatch`: the lease every scheduler promises, and the JIT
   scheduler. **Modelled and proved.**
2. `NamedPool`. **Modelled and proved.**
3. `WarmPool`. **Modelled and proved.**
4. `CacheService`. **Modelled and proved.**
5. `MicroVm`: prepare, run in both modes, timeout, cancellation, reaping and
   clean-up. **Modelled and proved.**
6. `RunnerRegistry`: GitHub's registrations against the tasks that create, use and
   delete them, with the guest agent. **Modelled and proved.**
7. `Provisioning`: what a start-up takes over from earlier ones. **Modelled and proved.**
8. Every user of slots implements `SlotLease`. **Proved** for the four of them.

The schedulers are alternatives (one runs per process), so each is composed with
`SlotLease` and not with one another. JIT mode and named pools implement it as they are,
which TLC checks too. The warm pool implements it with leases that end at the report: a VM
without VSOCK reports when it has ended, one with VSOCK may report before. `MicroVm`
is the other side of the same promise: its `Begin` takes any slot that is not
leased, which is what the lease grants a scheduler's VM, and `mode.early` is the warm
pool's early return (`warm_tap` is what that costs).

## 3. Modules

Every action is the code between two awaits (or two acquisitions of a lock); the
name of an action is that of the step it takes, and `PROJECT.json` maps each
definition to its lines. Definitions named `Wrong_...` are mutations of the
definition that follows them: each property is shown to fail under one of them.

**SlotLease** has one variable, the slot each holder runs a VM on, and two actions,
`Lease` of an unleased slot and `Return`.

**JitDispatch** models the poll loop (`loop`, `repos_left`, `runs_left`, `jobs_left`),
GitHub's view of a job (`status`), the shared accounts and the stages `pc` of each
dispatch task. One task of the model may serve many jobs in turn. `list_*` may fail
at any time, with the effect of the code's error handling (an error skips the rest
of the repository). A listing is held in `runs_left`/`jobs_left` while the world
moves on, so that stale listings are explored. `VmExits` stands for the end of
`MicroVm::execute` for any reason. When `loop` reaches an exit stage the process is
gone and every task with it.

**NamedPool** models one `PoolManager` on the slots `run_pools` gives it (`SlotsOf`),
with the bounded channel as a sequence. `scale` keeps only `max_ready`: nothing
reads the new `min_ready`.

**WarmPool** models the three stages of `run_warm_pool` and the pair of tasks of
`spawn_warm_vm`. `early` is the VSOCK task; `Notify` needs a VM whose guest has
finished, `EarlyCloses` one whose listener is gone. The wait for the VSOCK task has a
timeout, so the two never really wait for each other. The two loops and VSOCK on
and off are chosen in `Init`. `list_runners` may answer anything: registrations
lag behind, and only one repository is asked.

**MicroVm** models `MicroVm::execute` for VMs on the slots of a host. A record
`vm[v]` holds what there is of a VM: the stage of its task, its slot and whether
that is still leased, its files, a mounted image, its process, its VSOCK listener. The host
keeps a TAP device and a cache image per slot *name*, so that two VMs of a slot meet
there. A tool (`cp`, `mkfs`, `mount`) exits with a status in `child` before its task
waits for it; `Reap`, the `waitpid(-1)` of another VM's task, may take
that status or a firecracker's in between. `mode` selects the SDK (`mmds`) or
`--no-api` with or without jailer, and whether slots are returned early, as the
warm pool does. `cause` records why a VM was given up, for the exceptions that
`NothingIsLeft` names.

**RunnerRegistry** models a runner per VM from its registration (by the host in JIT
mode, by `config.sh` in the guest otherwise) to its deletion, the agent in the guest
stage by stage, and after the VM the listing and the deletions one by one, so
that a runner that comes online or gets a job between the listing and its DELETE
is explored. GitHub is external: it refuses to delete a busy runner and notices
late that one is gone. The guest is that of the MMDS mode.

**Provisioning** models `ensure_vm_assets` as a sequence of steps on files, each
abstracted to how much of it is there (`torn`, `bare`, `whole`; or `partial`
downloads), which image it comes from and whose overlay-init script it has. A start
may fail at every step, the host may go down, and the next start may have
another image, overlay mode, allow-list or version. `chain` is the order of fc-runner's
rules in FORWARD; `pulled` and `filters` are history for the properties. `Settle` ends
faults and changes, so that recovery can be stated.

**CacheService** models the saves of a set of clients. `save_index` is four steps:
the read guard, the truncating open, the write, the rename. Since it holds the read guard to
the end, all concurrent savers write the same bytes, and a rename carries along
whoever has the file open (`overtaken`, `lost`). `Restart` is `CacheState::new` on
the files. `WholeIndex` says whether crashes happen only while `index.json` is whole;
the finding below is what happens otherwise. A key stands for a key with its version.

## 4. Runs

| Run | Instance | Shows |
|---|---|---|
| `jit` | 2 slots, 3 tasks, 2 jobs of one run | slots, permits, ids, count and VM list agree in every interleaving; JIT mode implements `SlotLease`; a dispatched id is released; a signal ends the scheduler |
| `named_pool` | 2 of the 3 slots the pool wants, 2 VM tasks, 2 repositories, scales 1 and 3 | accounts, lease, the channel never fills, each repository stays served, shutdown ends |
| `pool_pause` (violation) | the same | a pool that empties while paused stays empty |
| `warm_pool` | 1 standby, 2 slots, 2 VM tasks, both loops, VSOCK on and off | one report per VM, population kept, count exact, never empty for good, shutdown ends |
| `micro_vm` | 2 slots, 2 VMs, all modes | nothing is left of a VM, a running VM keeps its TAP device, `execute` returns |
| `warm_tap` (violation) | the same | with slots returned early a running VM loses its TAP device |
| `registry` | 2 VMs, 2 jobs for a runner that is not ephemeral, three modes | one job per VM, a VM without registration ends |
| `provisioning` | 1 OCI image and the cloud image, 2 versions, 3 changes of the allow-list | the image, its squashfs and the filter are as configured; the server comes up again |
| `provisioning_digest` (violation) | 2 OCI images | a cut-off rootfs of another image is served |
| `cache` | two v1 saves of one key, a v2 save of another, two restarts | what is committed is uploaded, the index agrees, ids are unique across the restart, no answered save is lost |
| `cache_finalize` (violation) | three v2 saves, two of one key | a foreign entry is committed |
| `cache_crash` (violation) | as `cache`, one restart, crash at any time | an answered save is forgotten |

Bounds. Two slots and more tasks than slots are enough for contention, for waiting
at the semaphore and for a slot to change hands while another task is between two
of its steps; two jobs in one run make stale listings and the skip paths happen. All
labels match in the instance of `jit`: jobs with foreign labels are only skipped, which
the proofs cover. The task pools (`Tasks`, and `Vms` of the two pools) bound how many tasks
are alive at one time; their members are reused without bound, so runs are not
bounded in length. The VMs of `micro_vm` and `registry` run once each: two of them, at
the same time or one after the other on a slot, are what a device, a reaped status or a
listing can be shared between, and a third would repeat one of the two roles; the proofs
have no such bound. The channel of `named_pool` has capacity 6 for two tasks: that it cannot
fill is the property, and the mutation that shrinks it to 1 violates it. `MaxRestarts` is 2 in
`cache`, so that a restart meets what an earlier one has left; start-ups of `provisioning`
are not bounded in number. `MaxFilters` is 3, one more change than `FilterIsConfigured`
speaks of. `MaxJobs`, `PoolSize`, `Scales` and `MinReady` are configuration values.

Fairness. Tokio runs every ready task, timers fire, and every VM ends at the latest
after `vm_timeout_secs`: weak fairness of each task's steps and of the loops. The
semaphore is FIFO, hence strong fairness of `AcquirePermit`. `tokio::select!` without
`biased` picks at random among the ready branches, so that a branch that is ready
again and again is taken: strong fairness of `SeeCancel` and of `Receive`. In `MicroVm`
tools end, a process that was signalled exits, and the timer of a running
VM fires: a VM need not ever exit by itself. In `RunnerRegistry` tasks and agents go
on, but neither jobs nor timeouts come, so that `LostVmEnds` is about what the guest
itself does. In `Provisioning` a start-up that was begun goes on and systemd starts a
failed one again (`fc-runner.service`, `Restart=on-failure`). Nothing is assumed of GitHub, operators, jobs or clients.
`warm_tap`, `provisioning_digest` and the cache runs check safety properties and need
no fairness; `pool_pause` is checked under it.

No run switches deadlock checking off: the end of a process or of all tasks is an
explicit stuttering step, so that any other dead end is reported.

## 5. Findings

* **A paused pool that empties stays empty** (`pool_pause`). `resume` stores a flag, and
  only the end of a VM makes `run` spawn one; `src/scheduler/pool.rs:118` promises
  "maintaining min_ready idle VMs at all times".
* **Two VMs on one TAP device** (`warm_tap`). The early VSOCK report returns the slot of a VM
  that is still up, so that the next VM of the slot deletes and recreates its device, and
  the clean-up of either deletes that of the other; `docs/architecture.md:278` promises
  a TAP device and subnet per VM. Only the 3 s delay before the replacement, against a reboot
  that normally takes less, keeps them apart; the autoscaler does not wait that long.
* **A rootfs of another image is served** (`provisioning_digest`). The digest file
  outlives the rootfs it belongs to; after a failed pull of another image it vouches
  for the rest of that pull, against `src/image.rs:20`.
* **Finalize commits a foreign entry** (`cache_finalize`), against the comment at
  `src/api/cache_server.rs:695`.
* **A shared temporary file may cost the whole index** (`cache_crash`), against
  `src/api/cache_server.rs:15`.

Two more disagreements are in the models without a run of their own. A poll cycle that is
under way when the signal comes goes on dispatching (`docs/architecture.md:322` says
"no new jobs dispatched"): `ShutdownEnds` of `JitDispatch` is stated and holds with it. And
in no-API mode a VM that exceeds `vm_timeout_secs` is left running
(`docs/architecture.md:316` says it is killed): `NothingIsLeft` names it.

The exceptions that passing properties name are the same kind of statement: an image that
stays mounted after a failed write or a stolen exit status (`cause` in `NothingIsLeft`), a squashfs that
`mksquashfs` left unfinished (`SquashFollowsRootfs`), a second change of the allow-list
(`Len(filters) <= 2`), and what a start-up does not recover from (`Recoverable`: a truncated
download, a cloud image cut short in place, a second OCI image).

## 6. Proofs

Each theorem is about every value of the constants that the module's assumption
admits. The modules are laid out alike: the parts of an inductive invariant, lemmas on
operators and cardinalities, one lemma per kind of step, and the theorems.

| Module | Theorem | Statement |
|---|---|---|
| `SlotLeaseProofs` | `NeverShared` | `Spec => []Exclusive` |
| | `HandedOverFree` | `Spec => [][KeepsItsSlot /\ TakenFromNobody]_held` |
| `JitDispatchProofs` | `TypeCorrect` | `Spec => []TypeOK` |
| | `SlotsArePartitioned` | `Spec => []SlotsPartitioned` |
| | `PermitsMeanSlots` | `Spec => []PermitMeansSlot` |
| | `SeenJobsExact` | `Spec => []SeenIsInFlight` |
| | `IdleExitSafe` | `Spec => []IdleExitLeavesNoVm` |
| | `PsExact` | `Spec => []PsIsExact` |
| | `ImplementsLease` | `Spec => LeaseSpec` |
| | `SlotsNeverShared` | `Spec => []Lease!Exclusive` |
| `NamedPoolProofs` | `PoolsShareNothing` | different pools of `run_pools` get different slots |
| | `TypeCorrect` | `Spec => []TypeOK` |
| | `SlotsArePartitioned` | `Spec => []SlotsPartitioned` |
| | `CountExact` | `Spec => []CountIsExact` |
| | `ReportsAreNeverBlocked` | `Spec => []ReportsNeverWait` |
| | `ImplementsLease` | `Spec => LeaseSpec` |
| | `SlotsNeverShared` | `Spec => []Lease!Exclusive` |
| `WarmPoolProofs` | `TypeCorrect` | `Spec => []TypeOK` |
| | `SlotsAreAccounted` | `Spec => []SlotsAccounted` |
| | `CountExact` | `Spec => []CountIsExact` |
| | `PopulationIsKept` | `PoolSize <= MaxJobs => (Spec => []PopulationKept)` |
| | `ImplementsLease` | `Spec => LeaseSpec` |
| | `NeverSharedWithoutVsock` | `Spec => [](~vsock => \A v, w \in Vms : ~OnOneSlot(v, w))` |
| `MicroVmProofs` | `TypeCorrect` | `Spec => []TypeOK` |
| | `TapStaysMine` | `Spec => []TapIsMine` |
| | `ImplementsLease` | `Spec => LeaseSpec` |
| | `SlotsNeverShared` | `Spec => []Lease!Exclusive` |
| | `NothingStays` | `Spec => []NothingIsLeft` |
| `RunnerRegistryProofs` | `TypeCorrect` | `Spec => []TypeOK` |
| | `OneJob` | `Spec => []OneJobPerVm` |
| `ProvisioningProofs` | `TypeCorrect` | `Spec => []TypeOK` |
| | `FilterAsConfigured` | `Spec => []FilterIsConfigured` |
| | `OnlyImageWhole` | `Spec => []OnlyImageIsWhole` |
| | `SquashFollows` | `Spec => []SquashFollowsRootfs` |
| `CacheServiceProofs` | `TypeCorrect` | `Spec => []TypeOK` |
| | `QuietIndexCurrent` | `WholeIndex => (Spec => []QuietIndexIsCurrent)` |
| | `CommittedUploaded` | `WholeIndex /\ OwnKeys => (Spec => []CommittedIsUploaded)` |
| | `IdsStayFresh` | `Spec => []IdsAreFresh` |
| | `IndexAgreement` | `OneProtocol /\ (WholeIndex \/ V2 = Clients) => (Spec => []IndexAgrees)` |
| | `OneWriter` | `WholeIndex /\ OwnKeys => (Spec => []OneWriterPerId)` |
| | `SavedSurviveRestarts` | `WholeIndex /\ OwnKeys => (Spec => SavedSurvives)` |

**Slot lease.** `Exclusive` with its type is inductive. `SlotsNeverShared` of the modules below
is `NeverShared` for their holders, by way of `ImplementsLease`: `SlotLeaseProofs` is instantiated
with the mapping of the module.

**JIT mode.** `TypeOK` alone is not inductive: that `active_jobs` stays a natural number and
`permits` stays at most `MaxJobs` depends on how many tasks are at which stage. The
inductive invariant `IInv` adds `Accounts` (permits, the active count and the length
of `slot_pool` are given by the cardinalities of the sets of tasks at the stages that hold
one), `SlotsDistinct` and `NoneLost` (nobody is at the stage "lost"),
`SeenIsInFlight`, `Registered` (the VM list is that of the running tasks) and
`IdleExit`. The step that matters is `PopSlot`: a task with a permit and no slot is
among the `MaxJobs - permits` permit holders, while the free slots are as many as
slots are not held, so there is one. From `Accounts` at the moment the drain reads
zero no task is at a counted stage, and after an exit nothing moves. `ImplementsLease`
follows action by action: only `PopSlot` and `PushSlot` change `slot_of`, and the former
leases a slot that `SlotsDistinct` shows to be unleased.

**Named pools.** What `run_pools` hands out is defined by recursion over the list of pools.
`Least` (a set of numbers that is not empty has a least element) replaces an induction:
from it `TakenIsSum` and `TakenGrows`, and so `PoolsShareNothing` for any number of pools.
The invariant is `Types`, `SlotsPartitioned` and `CountIsExact`; a step leaves the accounts
alone (`Quiet`), spawns a VM, receives a report or makes one, and each of the four has a lemma that
counts the slots in the pool, in the channel and with VMs. A report carries a
slot and a pool has at most `max_ready` of them, so the channel is never full when
one is made. For the lease, `LastIsFree`: the slot at the end of the pool is with no VM, because
otherwise the places that hold slots would be more than the slots.

**Warm pool.** Two tasks may report one VM, so the invariant relates them: `Pairs` says
which combinations of the stages of the two tasks and the flag `signaled` occur, hence
that only one of them ever sends and that the slot is known as long as one of them lives.
On it rest `SlotsAccounted` (slots in the pool, in the channel and with VMs, counted and
told apart), `CountIsExact` and `Populated`. For these a step is one of four: it leaves the
accounts alone (`Quiet`), spawns a VM, receives a report or makes one.
`PopulationIsKept` needs `PoolSize <= MaxJobs`: otherwise the start-up panics, which the
configuration does not exclude. For the lease, `slotHeld` maps a VM to its slot as long as
it owes a report (`Owing`); the four kinds of step are a lease, a return or nothing. Without VSOCK
nobody reports for a running VM (`Untold`), so the lease lasts as long as the VM, and two VMs
are never up on one slot.

**MicroVM.** `TapIsMine` needs two facts. A record of a VM at work has a slot that is leased
unless slots are returned early (`Sound`), and leased slots are different (`Exclusive`); so
the VM that a `CreateTap` or `DestroyTap` takes a device from is the VM itself or one that
no longer runs on it. `HasTap` carries the device from `CreateTap` to the end of the wait.
`ReapAfter` changes every VM's record at once and has a lemma of its own. `NothingIsLeft`
follows from `Left`: at every stage a record holds only what the rest of `execute` takes
away or what `cause` accounts for (`Tidy`), and whoever created the device of a slot has
yet to destroy it (`Owned`). The lemmas of `Sound` also say that a step keeps the slot of a record
or returns it (`Retains`), which is the lease.

**Runner registry.** `OneJobPerVm` follows from `History`: the runner of an ephemeral VM that
has been given a job is at the stage "job" or past listening, whatever became of
its registration.

**Provisioning.** `OnlyImageIsWhole` follows from what a recorded digest vouches for
(`DigestIsTrue`, as long as one image was asked for) and what the steps that follow have in hand
(`FinishedIsWhole`, `BuildsConfigured`); `SquashFollowsRootfs` from `SquashIsCopy`: a squashfs
that is not older than the rootfs is a copy of it or unfinished, because every write to the
rootfs makes it older. `FilterIsConfigured` is about a chain that start-ups insert rules into,
each at the number of its place, and that a start-up cut short leaves incomplete. `FilterOrder`
says that up to each rule of the present configuration that is there, the chain begins with
those rules (`InPlace`); before the first change of the allow-list it holds no others. What
a change finds already in place is only the first rule, the one the two configurations have in
common, and the first rule that is missing is inserted right behind that beginning
(`Inserted`, `InPlaceKept`). So the old rules come last and decide on nothing.

**Cache.** `Without`, which removes an id from the entries, is a recursive function; what it
keeps (`Retained`) is shown like `TakenIsSum`, by a least counterexample. `Typed` bounds
`next_id` by the number of clients that have started, which a restart does not lower.
`Current` says that unless `index.json` is current, somebody has yet to write or rename
the temporary file: from it `QuietIndexCurrent`, for any number of savers. `Owned` follows the
entry of each client from its id to its mark, in memory and on disk (`Follows`), and its
archive from the upload to the answer (`Stored`); with distinct ids (`Numbered`) a step
of one client leaves the others what they need (`OthersFollow`, `OthersStored`). The
two hypotheses are where the findings begin: `WholeIndex` excludes a crash
while `index.json` is half written (`cache_crash`), and `OwnKeys` two v2 saves of one key or one of
each protocol (`cache_finalize`): without them `SavedSurvives` and `CommittedIsUploaded` fail.

The index asks for less. Ids need no hypothesis at all (`Unique`): an id
that is given out and not yet pushed is neither in memory nor on disk, and a restart that lowers
`next_id` ends the handlers that have one. `IndexAgreement` holds where saves share their keys, as long as
those of one key speak one protocol (`OneProtocol`): `Apart` says that no two clients have
marked one entry, and `Holds` that what a client has marked is still in `entries` and not in
`key_index`, so that no overwrite has removed it when the client inserts it. A commit and a finalize of one key may
mark the same entry; the overwrite of the one that is indexed then removes what the other
inserts, and `key_index` names an entry that is gone. That a crash leaves `index.json` whole matters to
v1 saves only, which name their entry by an id from before the restart.

Only model-checked is liveness, since fairness and `ENABLED` are out of the prover's reach:
`SeenIsForgotten`, `KeepsServing`, `NeverEmptyForGood`, `ComesUp`, `ExecuteReturns`, `LostVmEnds` and the
three `ShutdownEnds`.

## 7. Not modelled

Durations (a timeout may fire whenever its wait is in progress; the 10 s of the
JIT drain and the 3 s of the pools are not distinguished from other waits); panics
inside VM tasks; the App token cache (two tasks that refresh it both end up with a valid token) and
rate limits; the SSE log stream, status pages and authentication of the API; the CLI and its
client; metrics, which nothing reads; the construction of JSON documents; the shell
scripts that stand in for the agent when images are mounted; KVM checks, IP forwarding,
the NAT and MSS rules and the removal of stale TAP devices at start-up; the chroot that the SDK makes for
the jailer; several pool managers that share a name; transient S3 errors and range
downloads; lookups of the cache, which change nothing and are represented by the
properties of committed entries.
