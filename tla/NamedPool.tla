------------------------------- MODULE NamedPool -------------------------------
(***************************************************************************)
(* One named pool of warm VMs: src/scheduler/pool.rs, on the slots that    *)
(* run_pools of src/scheduler/orchestrator.rs gives it.                    *)
(*                                                                         *)
(* The manager spawns min_ready VMs, then serves a select! of the          *)
(* cancellation token and a bounded channel on which every VM task reports *)
(* its end.  A report returns the slot; after a 3 s sleep the manager may  *)
(* spawn a replacement.  The management API pauses, resumes and scales the *)
(* pool meanwhile, by plain atomics that the manager reads when it gets    *)
(* there.                                                                  *)
(*                                                                         *)
(* Definitions named Wrong_... are mutants, as in JitDispatch.             *)
(***************************************************************************)
EXTENDS Integers, Sequences, FiniteSets

CONSTANTS
  PoolSizes,  \* max_ready of every configured pool, in order
  Me,         \* which of them this module is
  MaxJobs,    \* config.runner.max_concurrent_jobs: the slots of all pools
  Repos,      \* this pool's repositories, a sequence
  MinReady,   \* its configured min_ready
  Scales,     \* values the API may set max_ready to (a bound on the model)
  Vms,        \* VM tasks alive at one time (a bound on the model)
  NoSlot      \* no slot

MaxReady == PoolSizes[Me]

ASSUME PoolAssumption ==
  /\ PoolSizes \in Seq(Nat \ {0}) /\ Me \in DOMAIN PoolSizes
  /\ MaxJobs \in Nat \ {0}
  /\ Repos \in Seq({Repos[i] : i \in DOMAIN Repos}) \ {<<>>}
  /\ MinReady \in 0..MaxReady
  /\ Scales \subseteq Nat
  /\ IsFiniteSet(Vms)
  /\ NoSlot \notin Nat

(* run_pools pops the slots of pool p off the end of all_slots, after      *)
(* those of the pools before it.                                           *)
Taken[p \in 0..Len(PoolSizes)] == IF p = 0 THEN 0 ELSE Taken[p - 1] + PoolSizes[p]
Given(p) == IF Taken[p] <= MaxJobs THEN PoolSizes[p]
            ELSE IF Taken[p - 1] <= MaxJobs THEN MaxJobs - Taken[p - 1] ELSE 0
SlotsOf(p) == [i \in 1..Given(p) |-> MaxJobs - Taken[p - 1] - i]

Slots == {SlotsOf(Me)[i] : i \in DOMAIN SlotsOf(Me)}

VARIABLES
  cancelled,    \* the cancellation token
  paused,       \* PoolManager.paused
  max_ready,    \* PoolManager.max_ready
  loop,         \* where run() is
  started,      \* initial VMs spawned so far (the i of the for loop)
  slot_pool,    \* free slots: popped and pushed at the end
  done,         \* the done channel: a queue of <<slot, repo>>
  repo,         \* the repository of the report being served
  active_count, \* PoolManager.active_count
  pc,           \* the stage of a VM task
  slot_of,      \* the slot of a VM task
  repo_of       \* the repository of a VM task

api_vars  == <<cancelled, paused, max_ready>>
task_vars == <<pc, slot_of, repo_of>>
vars == <<cancelled, paused, max_ready, loop, started, slot_pool, done, repo,
          active_count, pc, slot_of, repo_of>>

RepoSet == {Repos[i] : i \in DOMAIN Repos}
Exited == loop \in {"idle_exit", "timeout_exit", "early_exit"}

\* A channel that holds one report.
Wrong_Capacity == 1

\* mpsc::channel(max_ready * 2), sized before any scale.
Capacity == MaxReady * 2

At(stages) == {v \in Vms : pc[v] \in stages}
Counted == {"counted", "vm", "ended"}

TypeOK ==
  /\ cancelled \in BOOLEAN /\ paused \in BOOLEAN
  /\ max_ready \in Nat
  /\ loop \in {"starting", "select", "returned", "replacing", "draining",
               "idle_exit", "timeout_exit", "early_exit"}
  /\ started \in 0..MinReady
  /\ slot_pool \in Seq(Slots)
  /\ done \in Seq(Slots \X RepoSet)
  /\ repo \in RepoSet
  /\ active_count \in Nat
  /\ pc \in [Vms -> {"free", "spawned", "sending"} \cup Counted]
  /\ slot_of \in [Vms -> Slots \cup {NoSlot}]
  /\ repo_of \in [Vms -> RepoSet]

Init ==
  /\ cancelled = FALSE /\ paused = FALSE
  /\ max_ready = MaxReady
  /\ loop = "starting"
  /\ started = 0
  /\ slot_pool = SlotsOf(Me)
  /\ done = <<>>
  /\ repo = Repos[1]
  /\ active_count = 0
  /\ pc = [v \in Vms |-> "free"]
  /\ slot_of = [v \in Vms |-> NoSlot]
  /\ repo_of = [v \in Vms |-> Repos[1]]

--------------------------------------------------------------------------------
(* The operator: a signal, and the pool handlers of the management API     *)

Api ==
  /\ ~Exited
  /\ UNCHANGED <<loop, started, slot_pool, done, repo, active_count, task_vars>>

Signal == Api /\ ~cancelled /\ cancelled' = TRUE /\ UNCHANGED <<paused, max_ready>>

pause  == Api /\ ~paused /\ paused' = TRUE /\ UNCHANGED <<cancelled, max_ready>>
resume == Api /\ paused /\ paused' = FALSE /\ UNCHANGED <<cancelled, max_ready>>

(* scale stores the new bounds and does nothing else.  Its min_ready is    *)
(* never read again by run(), so that only max_ready is kept here.         *)
scale(max) == Api /\ max_ready' = max /\ UNCHANGED <<cancelled, paused>>

--------------------------------------------------------------------------------
(* PoolManager::run                                                        *)

LoopStep(from, to) ==
  /\ loop = from
  /\ loop' = to
  /\ UNCHANGED api_vars

SpawnLeaving(v, r, pool_after) ==
  /\ pc[v] = "free"
  /\ slot_pool' = pool_after
  /\ slot_of' = [slot_of EXCEPT ![v] = slot_pool[Len(slot_pool)]]
  /\ repo_of' = [repo_of EXCEPT ![v] = r]
  /\ pc' = [pc EXCEPT ![v] = "spawned"]
  /\ UNCHANGED <<done, repo, active_count>>

\* The last slot is read and left in the pool.
Wrong_Spawn(v, r) == SpawnLeaving(v, r, slot_pool)

\* slot_pool.pop() and spawn_vm.
Spawn(v, r) == SpawnLeaving(v, r, SubSeq(slot_pool, 1, Len(slot_pool) - 1))

Moves(from, to) ==
  LoopStep(from, to) /\ UNCHANGED <<started, slot_pool, done, repo, active_count, task_vars>>

\* The next of the initial VMs, its repository chosen round-robin.
SpawnInitial(v) ==
  /\ started < MinReady
  /\ slot_pool # <<>>
  /\ LoopStep("starting", "starting")
  /\ Spawn(v, Repos[(started % Len(Repos)) + 1])
  /\ started' = started + 1

\* Without a slot the loop waits for one.
Wrong_StartUpDone == started = MinReady /\ Moves("starting", "select")

\* All are spawned, or "no slots available for initial pool spawn".
StartUpDone ==
  /\ started = MinReady \/ slot_pool = <<>>
  /\ Moves("starting", "select")

Serve(pool_after) ==
  /\ done # <<>>
  /\ LoopStep("select", "returned")
  /\ slot_pool' = pool_after
  /\ repo' = Head(done)[2]
  /\ done' = Tail(done)
  /\ UNCHANGED <<started, active_count, task_vars>>

\* The slot is not returned.
Wrong_Receive == Serve(slot_pool)

\* A report is received and its slot pushed.
Receive == Serve(Append(slot_pool, Head(done)[1]))

\* After the sleep: leave if cancelled, skip the replacement if paused.
Wake ==
  \/ cancelled /\ Moves("returned", "early_exit")
  \/ ~cancelled /\ paused /\ Moves("returned", "select")
  \/ ~cancelled /\ ~paused /\ Moves("returned", "replacing")

ReplaceFor(v, r) ==
  IF active_count >= max_ready \/ slot_pool = <<>>
  THEN Moves("replacing", "select")
  ELSE LoopStep("replacing", "select") /\ Spawn(v, r) /\ UNCHANGED started

\* Replacements restart the round-robin.
Wrong_Replace(v) == ReplaceFor(v, Repos[1])

\* The replacement runs for the repository of the VM that ended.
Replace(v) == ReplaceFor(v, repo)

SeeCancel == cancelled /\ Moves("select", "draining")

\* wait_for_active: "all pool VMs completed", or the deadline passes.
Drain ==
  \/ active_count = 0 /\ Moves("draining", "idle_exit")
  \/ active_count # 0 /\ Moves("draining", "timeout_exit")

--------------------------------------------------------------------------------
(* A VM task: spawn_vm and run_pool_vm                                     *)

TaskGoes(v, from, to, count) ==
  /\ pc[v] = from
  /\ pc' = [pc EXCEPT ![v] = to]
  /\ active_count' = count
  /\ UNCHANGED <<api_vars, loop, started, slot_pool, repo, repo_of>>

\* The task forgets to count itself.
Wrong_Start(v) ==
  TaskGoes(v, "spawned", "counted", active_count) /\ UNCHANGED <<done, slot_of>>

\* active_count.fetch_add(1)
Start(v) ==
  TaskGoes(v, "spawned", "counted", active_count + 1) /\ UNCHANGED <<done, slot_of>>

\* A registration token is granted and execute begins.
StartVm(v) == TaskGoes(v, "counted", "vm", active_count) /\ UNCHANGED <<done, slot_of>>

\* An early return from the token request skips the fetch_sub.
Wrong_TokenFails(v) ==
  TaskGoes(v, "counted", "sending", active_count) /\ UNCHANGED <<done, slot_of>>

TokenFails(v) == TaskGoes(v, "counted", "ended", active_count) /\ UNCHANGED <<done, slot_of>>

\* execute returns, for whatever reason.
VmEnds(v) == TaskGoes(v, "vm", "ended", active_count) /\ UNCHANGED <<done, slot_of>>

\* remove_offline_runners returns and active_count.fetch_sub(1) follows.
Uncount(v) ==
  TaskGoes(v, "ended", "sending", active_count - 1) /\ UNCHANGED <<done, slot_of>>

(* done_tx.send(..).await; its error after the manager has left is         *)
(* ignored.                                                                *)
Send(v) ==
  /\ Len(done) < Capacity \/ Exited
  /\ TaskGoes(v, "sending", "free", active_count)
  /\ done' = IF Exited THEN done ELSE Append(done, <<slot_of[v], repo_of[v]>>)
  /\ slot_of' = [slot_of EXCEPT ![v] = NoSlot]

TaskStep(v) ==
  Start(v) \/ StartVm(v) \/ TokenFails(v) \/ VmEnds(v) \/ Uncount(v) \/ Send(v)

ManagerStep ==
  \/ \E v \in Vms : SpawnInitial(v) \/ Replace(v)
  \/ StartUpDone \/ Receive \/ Wake \/ Drain

--------------------------------------------------------------------------------
ProcessGone == Exited /\ At({"free"}) = Vms /\ UNCHANGED vars

Next ==
  \/ Signal \/ pause \/ resume
  \/ \E max \in Scales : scale(max)
  \/ ManagerStep \/ SeeCancel
  \/ \E v \in Vms : TaskStep(v)
  \/ ProcessGone

Spec == Init /\ [][Next]_vars

(* The runtime runs ready tasks, timers fire and every VM ends: weak       *)
(* fairness of the manager and of each task.  select! picks at random, so  *)
(* the token is seen after finitely many reports: strong fairness.  The    *)
(* operator promises nothing.                                              *)
FairSpec ==
  /\ Spec
  /\ WF_vars(ManagerStep) /\ SF_vars(SeeCancel)
  /\ \A v \in Vms : WF_vars(TaskStep(v))

--------------------------------------------------------------------------------
(* Safety                                                                  *)

(* While the manager runs, every slot of the pool is in slot_pool, with a  *)
(* VM task or in the done channel, in exactly one of them: none is lost on *)
(* a failed VM and none is given out twice.                                *)
SlotsPartitioned ==
  LET holders == {v \in Vms : slot_of[v] # NoSlot}
  IN  /\ ~Exited =>
           /\ Len(slot_pool) + Len(done) + Cardinality(holders) = Cardinality(Slots)
           /\ Slots = {slot_pool[i] : i \in DOMAIN slot_pool}
                        \cup {done[i][1] : i \in DOMAIN done}
                        \cup {slot_of[v] : v \in holders}
      /\ holders = Vms \ At({"free"})

(* active_count is the number of tasks between fetch_add and fetch_sub, on *)
(* every error path, so that "all pool VMs completed" and the comparison   *)
(* with max_ready mean what they say.                                      *)
CountIsExact == active_count = Cardinality(At(Counted))

(* A task never waits to report its end: the channel is large enough, even *)
(* after scale changed max_ready, so no slot is held up in done_tx.send.   *)
ReportsNeverWait ==
  \A v \in Vms : pc[v] = "sending" => Exited \/ Len(done) < Capacity

(* Named pools lease their slots exclusively: NamedPool implements         *)
(* SlotLease, the lease ending when the report is sent.                    *)
Lease == INSTANCE SlotLease WITH Holders <- Vms, held <- slot_of
LeaseSpec == Lease!Spec

--------------------------------------------------------------------------------
(* Liveness                                                                *)

Serving(r) == \E v \in Vms : repo_of[v] = r /\ pc[v] \in {"spawned", "counted", "vm"}
Wanted == {Repos[(i % Len(Repos)) + 1] : i \in 0..(started - 1)}

(* "Automatically replaces VMs after they complete a job": a pool that is  *)
(* not paused, scaled below min_ready or shut down keeps serving every     *)
(* repository it started a VM for.                                         *)
KeepsServing ==
  [](~paused /\ ~cancelled /\ max_ready >= MinReady) =>
    \A r \in RepoSet : [](r \in Wanted => <>Serving(r))

(* The cancelled token ends run(), whatever the VMs and the operator do.   *)
ShutdownEnds == cancelled ~> Exited

(* "Run the pool, maintaining min_ready idle VMs at all times": a pool     *)
(* that stays resumed and unscaled has a VM again sooner or later.         *)
ResumeRefills ==
  <>[](~paused /\ ~cancelled /\ max_ready >= MinReady) =>
    []<>(\E r \in RepoSet : Serving(r))
================================================================================
