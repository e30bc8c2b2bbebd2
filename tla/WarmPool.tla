-------------------------------- MODULE WarmPool --------------------------------
(***************************************************************************)
(* The warm-pool mode of src/scheduler/orchestrator.rs: run_warm_pool, its *)
(* ephemeral and autoscaling loops, and the VM tasks of spawn_warm_vm.     *)
(*                                                                         *)
(* A VM task reports its end on the done channel so that the loop returns  *)
(* the slot and starts a replacement.  With VSOCK the guest announces the  *)
(* end of its job before the VM is down, and a second task reports then;   *)
(* the flag signaled makes sure that only one of the two does.             *)
(*                                                                         *)
(* Repositories and runner names are left out.  An answer of list_runners  *)
(* counts the runners of one repository only, without those that GitHub    *)
(* does not know yet and with those of dead VMs: any number at all.        *)
(* Definitions named Wrong_... are mutants, as in JitDispatch.             *)
(***************************************************************************)
EXTENDS Integers, Sequences, FiniteSets

CONSTANTS
  PoolSize,  \* config.runner.warm_pool_size
  MaxJobs,   \* config.runner.max_concurrent_jobs: the number of slots
  Vms,       \* VM tasks alive at one time (a bound on the model)
  NoSlot     \* no slot

Slots == 0..(MaxJobs - 1)

ASSUME WarmAssumption ==
  /\ PoolSize \in Nat \ {0} /\ MaxJobs \in Nat \ {0}
  /\ IsFiniteSet(Vms)
  /\ NoSlot \notin Slots

VARIABLES
  ephemeral,   \* config.runner.ephemeral: which of the two loops runs
  vsock,       \* config.firecracker.vsock_enabled
  cancelled,   \* the cancellation token
  loop,        \* where the pool loop is
  to_spawn,    \* VMs the start-up or the autoscaler still has to spawn
  slot_pool,   \* free slots: popped and pushed at the end
  done,        \* the done channel: a queue of slots
  active_jobs, \* the counter behind wait_for_active_jobs
  pc,          \* the stage of a VM task
  slot_of,     \* the slot of a VM task
  early,       \* the stage of its VSOCK task (early_handle)
  signaled     \* the flag the two share

config == <<ephemeral, vsock>>
vars == <<ephemeral, vsock, cancelled, loop, to_spawn, slot_pool, done,
          active_jobs, pc, slot_of, early, signaled>>

Exited == loop \in {"panicked", "idle_exit", "timeout_exit", "early_exit"}
Capacity == MaxJobs * 2
Running == {"vm", "leaving"}
Counted == Running \cup {"counted", "exited"}
At(stages) == {v \in Vms : pc[v] \in stages}

TypeOK ==
  /\ ephemeral \in BOOLEAN /\ vsock \in BOOLEAN /\ cancelled \in BOOLEAN
  /\ loop \in {"starting", "select", "returned", "listing", "listed", "spawning",
               "draining", "panicked", "idle_exit", "timeout_exit", "early_exit"}
  /\ to_spawn \in 0..PoolSize
  /\ slot_pool \in Seq(Slots) /\ done \in Seq(Slots)
  /\ active_jobs \in Nat
  /\ pc \in [Vms -> Counted \cup {"free", "spawned", "uncounted", "sending"}]
  /\ slot_of \in [Vms -> Slots \cup {NoSlot}]
  /\ early \in [Vms -> {"closed", "waiting", "notified", "sending"}]
  /\ signaled \in [Vms -> BOOLEAN]

Init ==
  /\ ephemeral \in BOOLEAN /\ vsock \in BOOLEAN
  /\ cancelled = FALSE
  /\ loop = "starting"
  /\ to_spawn = PoolSize
  /\ slot_pool = [i \in 1..MaxJobs |-> i - 1]
  /\ done = <<>>
  /\ active_jobs = 0
  /\ pc = [v \in Vms |-> "free"]
  /\ slot_of = [v \in Vms |-> NoSlot]
  /\ early = [v \in Vms |-> "closed"]
  /\ signaled = [v \in Vms |-> FALSE]

Signal ==
  /\ ~Exited /\ ~cancelled
  /\ cancelled' = TRUE
  /\ UNCHANGED <<config, loop, to_spawn, slot_pool, done, active_jobs, pc, slot_of,
                 early, signaled>>

--------------------------------------------------------------------------------
(* The pool loop                                                           *)

LoopStep(from, to, left) ==
  /\ loop = from /\ loop' = to
  /\ to_spawn' = left
  /\ UNCHANGED <<config, cancelled, active_jobs>>

Turn(from, to, left) ==
  /\ LoopStep(from, to, left)
  /\ UNCHANGED <<slot_pool, done, pc, slot_of, early, signaled>>

\* slot_pool.pop() and spawn_warm_vm with its early_handle.
SpawnWithFlag(v, flag) ==
  /\ slot_pool # <<>>
  /\ pc[v] = "free" /\ early[v] = "closed"
  /\ slot_pool' = SubSeq(slot_pool, 1, Len(slot_pool) - 1)
  /\ slot_of' = [slot_of EXCEPT ![v] = slot_pool[Len(slot_pool)]]
  /\ pc' = [pc EXCEPT ![v] = "spawned"]
  /\ early' = [early EXCEPT ![v] = "waiting"]
  /\ signaled' = [signaled EXCEPT ![v] = flag]
  /\ UNCHANGED done

\* The flag is set already when the tasks start.
Wrong_Spawn(v) == SpawnWithFlag(v, TRUE)
Spawn(v) == SpawnWithFlag(v, FALSE)

(* The initial VMs; pop().expect("pool should have enough slots") panics   *)
(* when warm_pool_size exceeds max_concurrent_jobs.                        *)
SpawnInitial(v) ==
  /\ to_spawn > 0
  /\ IF slot_pool = <<>>
     THEN Turn("starting", "panicked", to_spawn)
     ELSE LoopStep("starting", "starting", to_spawn - 1) /\ Spawn(v)

StartUpDone == to_spawn = 0 /\ Turn("starting", "select", 0)

Serve(pool_after) ==
  /\ done # <<>>
  /\ LoopStep("select", "returned", 0)
  /\ slot_pool' = pool_after
  /\ done' = Tail(done)
  /\ UNCHANGED <<pc, slot_of, early, signaled>>

\* The slot is received and dropped.
Wrong_Receive == Serve(slot_pool)

\* done_rx.recv(), and the slot is pushed.
Receive == Serve(Append(slot_pool, Head(done)))

\* After 3 s: leave if cancelled, else replace the VM if there is a slot.
Replace(v) ==
  IF cancelled THEN Turn("returned", "early_exit", 0)
  ELSE IF slot_pool = <<>> THEN Turn("returned", "select", 0)
  ELSE LoopStep("returned", "select", 0) /\ Spawn(v)

SeeCancel == cancelled /\ Turn("select", "draining", 0)

\* wait_for_active_jobs: nothing is active, or ten seconds have passed.
Drain ==
  \/ active_jobs = 0 /\ Turn("draining", "idle_exit", 0)
  \/ active_jobs # 0 /\ Turn("draining", "timeout_exit", 0)

--------------------------------------------------------------------------------
(* autoscale_check, in the non-ephemeral loop only                         *)

Tick == ~ephemeral /\ Turn("select", "listing", 0)

\* list_runners fails, or tells how many idle runners are missing.
ListRunners ==
  \/ Turn("listing", "select", 0)
  \/ \E missing \in 0..PoolSize : Turn("listing", "listed", missing)

\* The capacity left is what active_jobs, read after the answer, leaves.
CapacityLeft ==
  LET room == IF active_jobs < MaxJobs THEN MaxJobs - active_jobs ELSE 0
  IN  Turn("listed", "spawning", IF to_spawn < room THEN to_spawn ELSE room)

\* The next standby.
SpawnStandby(v) ==
  /\ to_spawn > 0
  /\ LoopStep("spawning", "spawning", to_spawn - 1)
  /\ Spawn(v)

\* Without a slot the autoscaler waits for one.
Wrong_ScaleDone == to_spawn = 0 /\ Turn("spawning", "select", 0)

\* All standbys are spawned, or "no more slots for standby".
ScaleDone ==
  /\ to_spawn = 0 \/ slot_pool = <<>>
  /\ Turn("spawning", "select", 0)

--------------------------------------------------------------------------------
(* A VM task and its VSOCK task: spawn_warm_vm, run_warm_vm                *)

Goes(v, from, to) ==
  /\ ~Exited
  /\ pc[v] \in from
  /\ pc' = [pc EXCEPT ![v] = to]
  /\ UNCHANGED <<config, cancelled, loop, to_spawn, slot_pool, slot_of, early>>

Plain(v, from, to, count) ==
  Goes(v, from, to) /\ active_jobs' = count /\ UNCHANGED <<done, signaled>>

\* The task does not count itself.
Wrong_Start(v) == Plain(v, {"spawned"}, "counted", active_jobs)

Start(v) == Plain(v, {"spawned"}, "counted", active_jobs + 1)
StartVm(v) == Plain(v, {"counted"}, "vm", active_jobs)

\* The error of the token request skips the common path, as `?` would.
Wrong_TokenFails(v) == Plain(v, {"counted"}, "uncounted", active_jobs)
TokenFails(v) == Plain(v, {"counted"}, "exited", active_jobs)

\* run.sh returns in the guest, which is going to reboot.
GuestDone(v) == Plain(v, {"vm"}, "leaving", active_jobs)

\* execute returns: the guest rebooted, crashed, timed out or was cancelled.
VmExits(v) == Plain(v, Running, "exited", active_jobs)

(* The VSOCK task is awaited for at most 5 s, the runner is deleted from   *)
(* GitHub, and active_jobs counted down.                                   *)
Uncount(v) == Plain(v, {"exited"}, "uncounted", active_jobs - 1)

FinishUnless(v, told) ==
  /\ active_jobs' = active_jobs
  /\ signaled' = [signaled EXCEPT ![v] = TRUE]
  /\ UNCHANGED done
  /\ IF told THEN Goes(v, {"uncounted"}, "free") ELSE Goes(v, {"uncounted"}, "sending")

\* The result of the VSOCK task is used, not the flag.
Wrong_Finish(v) == FinishUnless(v, early[v] = "closed" /\ signaled[v])

\* signaled.swap(true) after the VM's end.
Finish(v) == FinishUnless(v, signaled[v])

\* done_tx.send(..).await
Send(v) ==
  /\ Goes(v, {"sending"}, "free")
  /\ Len(done) < Capacity
  /\ done' = Append(done, slot_of[v])
  /\ UNCHANGED <<active_jobs, signaled>>

EarlyGoes(v, from, to) ==
  /\ ~Exited
  /\ early[v] = from
  /\ early' = [early EXCEPT ![v] = to]
  /\ UNCHANGED <<config, cancelled, loop, to_spawn, slot_pool, active_jobs, pc, slot_of>>

\* The listener reads JobCompleted, unless it is aborted before.
Notify(v) ==
  /\ vsock /\ pc[v] = "leaving"
  /\ EarlyGoes(v, "waiting", "notified")
  /\ UNCHANGED <<done, signaled>>

\* vsock_tx is gone and nothing was sent.
EarlyCloses(v) ==
  /\ pc[v] \notin {"spawned", "counted"} \cup Running
  /\ EarlyGoes(v, "waiting", "closed")
  /\ UNCHANGED <<done, signaled>>

\* signaled.swap(true) of the VSOCK task.
EarlySwap(v) ==
  /\ IF signaled[v] THEN EarlyGoes(v, "notified", "closed")
     ELSE EarlyGoes(v, "notified", "sending")
  /\ signaled' = [signaled EXCEPT ![v] = TRUE]
  /\ UNCHANGED done

EarlySend(v) ==
  /\ Len(done) < Capacity
  /\ EarlyGoes(v, "sending", "closed")
  /\ done' = Append(done, slot_of[v])
  /\ UNCHANGED signaled

--------------------------------------------------------------------------------
LoopSteps ==
  \/ \E v \in Vms : SpawnInitial(v) \/ Replace(v) \/ SpawnStandby(v)
  \/ StartUpDone \/ Receive \/ Drain
  \/ Tick \/ ListRunners \/ CapacityLeft \/ ScaleDone

TaskStep(v) ==
  \/ Start(v) \/ StartVm(v) \/ TokenFails(v) \/ GuestDone(v) \/ VmExits(v)
  \/ Uncount(v) \/ Finish(v) \/ Send(v)

EarlyStep(v) == EarlyCloses(v) \/ EarlySwap(v) \/ EarlySend(v)

ProcessGone == Exited /\ UNCHANGED vars

Next ==
  \/ Signal \/ LoopSteps \/ SeeCancel
  \/ \E v \in Vms : TaskStep(v) \/ EarlyStep(v) \/ Notify(v)
  \/ ProcessGone

Spec == Init /\ [][Next]_vars

(* As in NamedPool: the runtime runs ready tasks and every VM ends.  The   *)
(* branches of select! that are ready again and again are each taken: a    *)
(* report, like a cancelled token, is not passed over for ever.            *)
FairSpec ==
  /\ Spec
  /\ WF_vars(LoopSteps) /\ SF_vars(SeeCancel) /\ SF_vars(Receive)
  /\ \A v \in Vms : WF_vars(TaskStep(v)) /\ WF_vars(EarlyStep(v))

--------------------------------------------------------------------------------
(* Safety                                                                  *)

(* The VM tasks that still owe a report: neither of the two signaled yet,  *)
(* or one of them is about to send.                                        *)
Owing == {v \in Vms : \/ pc[v] \notin {"free", "sending"} /\ ~signaled[v]
                      \/ pc[v] = "sending" \/ early[v] = "sending"}

(* Every VM reports its slot exactly once, by VSOCK or at its end: each    *)
(* slot is in slot_pool, in the done channel or owed by one VM task.       *)
SlotsAccounted ==
  /\ Len(slot_pool) + Len(done) + Cardinality(Owing) = MaxJobs
  /\ Slots = {slot_pool[i] : i \in DOMAIN slot_pool}
               \cup {done[i] : i \in DOMAIN done} \cup {slot_of[v] : v \in Owing}

(* Every VM that ends has its replacement: an ephemeral pool has exactly   *)
(* warm_pool_size VMs on the way, an autoscaling one never fewer.          *)
Population == Cardinality(Owing) + Len(done) + (IF loop = "returned" THEN 1 ELSE 0)

PopulationKept ==
  loop \notin {"starting", "early_exit"} =>
    /\ Population >= PoolSize
    /\ ephemeral => Population = PoolSize

(* active_jobs is the number of tasks between its two updates, on every    *)
(* path, whichever of the two reports came first.                          *)
CountIsExact == active_jobs = Cardinality(At(Counted))

--------------------------------------------------------------------------------
(* Liveness                                                                *)

(* A pool that is not shut down keeps having VMs: none of the failures of  *)
(* a VM, of GitHub or of VSOCK empties it for good.                        *)
NeverEmptyForGood ==
  []<>(At({"spawned", "counted", "vm"}) # {}) \/ <>cancelled

(* The cancelled token ends run_warm_pool.                                 *)
ShutdownEnds == cancelled ~> Exited
================================================================================
