------------------------------ MODULE JitDispatch ------------------------------
(***************************************************************************)
(* The reactive (JIT) mode of the orchestrator:                            *)
(* src/scheduler/orchestrator.rs, run_reactive down to run_jit_job.        *)
(*                                                                         *)
(* One poll loop lists the queued jobs of every repository, records each   *)
(* new job id in seen_jobs and spawns a task for it.  A task takes a       *)
(* semaphore permit, pops a slot, counts itself active, asks GitHub for a  *)
(* JIT runner configuration, runs one microVM to its exit, and then undoes *)
(* those steps one lock at a time: push the slot, count down, remove       *)
(* offline runners, forget the job id, drop the permit.  Every step below  *)
(* is the code between two awaits, so that the tasks and the poll loop     *)
(* interleave exactly where the program lets them.                         *)
(*                                                                         *)
(* A shutdown signal cancels a token.  The poll loop notices it between    *)
(* two poll cycles and waits for active_jobs to become zero, or for a      *)
(* deadline; when it returns the process ends and every task with it.      *)
(*                                                                         *)
(* Definitions named Wrong_... are mutants: plausible mistakes in the code *)
(* of the definition below them, which some property must detect.  No      *)
(* specification uses them.                                                *)
(***************************************************************************)
EXTENDS Integers, Sequences, FiniteSets

CONSTANTS
  Repos,         \* the configured repositories
  Runs,          \* workflow runs
  Jobs,          \* workflow jobs (their ids)
  Tasks,         \* dispatch tasks alive at one time (a bound on the model)
  RepoOf,        \* the repository of a run
  RunOf,         \* the run of a job
  LabelsOf,      \* the labels of a job
  RunnerLabels,  \* config.github.labels
  MaxJobs,       \* config.runner.max_concurrent_jobs
  NoJob,         \* no job
  NoSlot         \* no slot

Slots == 0..(MaxJobs - 1)

ASSUME JitAssumption ==
  /\ MaxJobs \in Nat \ {0}
  /\ IsFiniteSet(Tasks)
  /\ NoJob \notin Jobs
  /\ NoSlot \notin Slots

VARIABLES
  status,      \* GitHub's view of a job: absent, queued, picked (by a runner)
  cancelled,   \* the cancellation token
  loop,        \* where the poll loop is
  repos_left,  \* repositories the current poll cycle has not visited yet
  runs_left,   \* queued runs of the current repository not visited yet
  jobs_left,   \* jobs of the last list_queued_jobs answer not considered yet
  seen_jobs,   \* ids that are dispatched and not finished
  permits,     \* free permits of the semaphore
  slot_pool,   \* the Vec of free slots: popped and pushed at its end
  active_jobs, \* the counter behind wait_for_active_jobs
  active_vms,  \* ServerState.active_vms, what `fc-runner ps` lists
  pc,          \* the stage of a task
  job_of,      \* the job a task was spawned for
  slot_of      \* the slot a task holds

env_vars  == <<status, cancelled>>
poll_vars == <<loop, repos_left, runs_left, jobs_left>>
pool_vars == <<permits, slot_pool, active_jobs, active_vms>>
task_vars == <<pc, job_of, slot_of>>
vars == <<status, cancelled, loop, repos_left, runs_left, jobs_left, seen_jobs,
          permits, slot_pool, active_jobs, active_vms, pc, job_of, slot_of>>

Stopped == loop \in {"idle_exit", "timeout_exit"}

(* The stages of dispatch_jit_job.  "vm" is a VM whose runner has no job   *)
(* yet, "busy" one whose runner has, "lost" the early return without slot. *)
SlotStages    == {"slotted", "counted", "vm", "busy", "exited"}
CountedStages == {"counted", "vm", "busy", "exited", "returned"}
SeenStages    == SlotStages \cup CountedStages
                   \cup {"spawned", "permitted", "uncounted", "scanned", "lost"}
PermitStages  == (SeenStages \ {"spawned", "lost"}) \cup {"forgotten"}
Stages        == SeenStages \cup {"free", "forgotten"}

At(stages) == {t \in Tasks : pc[t] \in stages}

TypeOK ==
  /\ status \in [Jobs -> {"absent", "queued", "picked"}]
  /\ cancelled \in BOOLEAN
  /\ loop \in {"select", "polling", "draining", "idle_exit", "timeout_exit"}
  /\ repos_left \subseteq Repos
  /\ runs_left \subseteq Runs
  /\ jobs_left \subseteq Jobs
  /\ seen_jobs \subseteq Jobs
  /\ permits \in 0..MaxJobs
  /\ slot_pool \in Seq(Slots)
  /\ active_jobs \in Nat
  /\ active_vms \subseteq Jobs \X Slots
  /\ pc \in [Tasks -> Stages]
  /\ job_of \in [Tasks -> Jobs \cup {NoJob}]
  /\ slot_of \in [Tasks -> Slots \cup {NoSlot}]

Init ==
  /\ status = [j \in Jobs |-> "absent"]
  /\ cancelled = FALSE
  /\ loop = "select"
  /\ repos_left = {} /\ runs_left = {} /\ jobs_left = {}
  /\ seen_jobs = {}
  /\ permits = MaxJobs
  /\ slot_pool = [i \in 1..MaxJobs |-> i - 1]
  /\ active_jobs = 0
  /\ active_vms = {}
  /\ pc = [t \in Tasks |-> "free"]
  /\ job_of = [t \in Tasks |-> NoJob]
  /\ slot_of = [t \in Tasks |-> NoSlot]

--------------------------------------------------------------------------------
(* GitHub, the operator and the guest                                      *)

\* A workflow job is queued at GitHub.
JobQueued(j) ==
  /\ ~Stopped
  /\ status[j] = "absent"
  /\ status' = [status EXCEPT ![j] = "queued"]
  /\ UNCHANGED <<cancelled, poll_vars, seen_jobs, pool_vars, task_vars>>

\* SIGTERM or SIGINT: the signal task cancels the token.
Signal ==
  /\ ~Stopped
  /\ ~cancelled
  /\ cancelled' = TRUE
  /\ UNCHANGED <<status, poll_vars, seen_jobs, pool_vars, task_vars>>

labels_match(j) == RunnerLabels \subseteq LabelsOf[j]

(* The runner in the VM of t connects and GitHub hands it a queued job.    *)
(* The configuration names labels, not a job, so any matching job will do. *)
RunnerPicks(t, j) ==
  /\ ~Stopped
  /\ pc[t] = "vm"
  /\ status[j] = "queued"
  /\ labels_match(j)
  /\ status' = [status EXCEPT ![j] = "picked"]
  /\ pc' = [pc EXCEPT ![t] = "busy"]
  /\ UNCHANGED <<cancelled, poll_vars, seen_jobs, pool_vars, job_of, slot_of>>

--------------------------------------------------------------------------------
(* The poll loop: run_reactive, poll_once, poll_repo                       *)

LoopStep(from, to) ==
  /\ loop = from
  /\ loop' = to
  /\ UNCHANGED <<env_vars, pool_vars, slot_of>>

Listing == LoopStep("polling", "polling") /\ UNCHANGED <<seen_jobs, pc, job_of>>

Turn(from, to) ==
  /\ LoopStep(from, to)
  /\ UNCHANGED <<runs_left, jobs_left, seen_jobs, pc, job_of>>

\* The ticker fires; select! may take this branch even after cancellation.
Tick == Turn("select", "polling") /\ repos_left' = Repos

PollDone ==
  /\ repos_left = {} /\ runs_left = {} /\ jobs_left = {}
  /\ Turn("polling", "select")
  /\ UNCHANGED repos_left

QueuedIn(run) == {j \in Jobs : RunOf[j] = run /\ status[j] = "queued"}

\* list_queued_runs for the next repository; an error skips the repository.
ListRuns(repo) ==
  /\ runs_left = {} /\ jobs_left = {}
  /\ repo \in repos_left
  /\ Listing
  /\ repos_left' = repos_left \ {repo}
  /\ \/ runs_left' = {r \in Runs : RepoOf[r] = repo /\ QueuedIn(r) # {}}
     \/ UNCHANGED runs_left
  /\ UNCHANGED jobs_left

ListJobsOr(run, repos_after_error) ==
  /\ jobs_left = {}
  /\ run \in runs_left
  /\ Listing
  /\ \/ /\ jobs_left' = QueuedIn(run)
        /\ runs_left' = runs_left \ {run}
        /\ UNCHANGED repos_left
     \/ runs_left' = {} /\ repos_left' = repos_after_error /\ UNCHANGED jobs_left

\* An error restarts the poll cycle.
Wrong_ListJobs(run) == ListJobsOr(run, Repos)

\* list_queued_jobs for the next run; an error abandons the repository's runs.
ListJobs(run) == ListJobsOr(run, repos_left)

\* A listed job with foreign labels, or one whose id is already in seen_jobs.
SkipJob(j) ==
  /\ j \in jobs_left
  /\ ~labels_match(j) \/ j \in seen_jobs
  /\ Listing
  /\ jobs_left' = jobs_left \ {j}
  /\ UNCHANGED <<repos_left, runs_left>>

SpawnTask(j, t) ==
  /\ j \in jobs_left
  /\ labels_match(j)
  /\ pc[t] = "free"
  /\ LoopStep("polling", "polling")
  /\ jobs_left' = jobs_left \ {j}
  /\ seen_jobs' = seen_jobs \cup {j}
  /\ pc' = [pc EXCEPT ![t] = "spawned"]
  /\ job_of' = [job_of EXCEPT ![t] = j]
  /\ UNCHANGED <<repos_left, runs_left>>

\* The result of seen_jobs.insert is ignored.
Wrong_DispatchJob(j, t) == SpawnTask(j, t)

\* seen_jobs.insert succeeds and dispatch_jit_job spawns a task.
DispatchJob(j, t) == j \notin seen_jobs /\ SpawnTask(j, t)

\* The cancelled branch of select!: wait_for_active_jobs begins.
SeeCancel == cancelled /\ Turn("select", "draining") /\ UNCHANGED repos_left

\* wait_for_active_jobs reads a zero counter: "all in-flight jobs completed".
DrainDone ==
  active_jobs = 0 /\ Turn("draining", "idle_exit") /\ UNCHANGED repos_left

\* The deadline of wait_for_active_jobs passes with jobs still running.
DrainTimeout ==
  active_jobs # 0 /\ Turn("draining", "timeout_exit") /\ UNCHANGED repos_left

--------------------------------------------------------------------------------
(* A dispatch task: dispatch_jit_job and run_jit_job                       *)

TaskGoes(t, from, to) ==
  /\ ~Stopped
  /\ pc[t] \in from
  /\ pc' = [pc EXCEPT ![t] = to]
  /\ UNCHANGED <<env_vars, poll_vars>>

\* semaphore.acquire().await
AcquirePermit(t) ==
  /\ TaskGoes(t, {"spawned"}, "permitted")
  /\ permits > 0
  /\ permits' = permits - 1
  /\ UNCHANGED <<seen_jobs, slot_pool, active_jobs, active_vms, job_of, slot_of>>

TakeLast(t, pool_after) ==
  /\ slot_pool # <<>>
  /\ TaskGoes(t, {"permitted"}, "slotted")
  /\ slot_of' = [slot_of EXCEPT ![t] = slot_pool[Len(slot_pool)]]
  /\ slot_pool' = pool_after
  /\ UNCHANGED <<seen_jobs, permits, active_jobs, active_vms, job_of>>

(* "no slot available despite semaphore permit": the task returns, its     *)
(* permit is dropped and its job id stays in seen_jobs.                    *)
NoneLeft(t) ==
  /\ slot_pool = <<>>
  /\ TaskGoes(t, {"permitted"}, "lost")
  /\ permits' = permits + 1
  /\ UNCHANGED <<seen_jobs, slot_pool, active_jobs, active_vms, job_of, slot_of>>

\* The last slot is read and left in the pool.
Wrong_PopSlot(t) == TakeLast(t, slot_pool)

\* slot_pool.lock().await.pop()
PopSlot(t) ==
  IF slot_pool # <<>>
  THEN TakeLast(t, SubSeq(slot_pool, 1, Len(slot_pool) - 1))
  ELSE NoneLeft(t)

CountsAs(t, from, to, count) ==
  /\ TaskGoes(t, from, to)
  /\ active_jobs' = count
  /\ UNCHANGED <<seen_jobs, permits, slot_pool, active_vms, job_of, slot_of>>

\* The task does not count itself.
Wrong_CountUp(t) == CountsAs(t, {"slotted"}, "counted", active_jobs)
CountUp(t) == CountsAs(t, {"slotted"}, "counted", active_jobs + 1)

\* generate_jit_config succeeds; the VM is registered and execute begins.
StartVm(t) ==
  /\ TaskGoes(t, {"counted"}, "vm")
  /\ active_vms' = active_vms \cup {<<job_of[t], slot_of[t]>>}
  /\ UNCHANGED <<seen_jobs, permits, slot_pool, active_jobs, job_of, slot_of>>

(* The error path counts down itself and the common path does so again; it *)
(* returns past the push of the slot; or it leaves the task at once.       *)
Wrong_TokenFailsUncounts(t) == CountsAs(t, {"counted"}, "exited", active_jobs - 1)
Wrong_TokenFailsKeepsSlot(t) == CountsAs(t, {"counted"}, "returned", active_jobs)
Wrong_TokenFailsReturns(t) == CountsAs(t, {"counted"}, "lost", active_jobs)

\* generate_jit_config fails: run_jit_job returns before any VM exists.
TokenFails(t) == CountsAs(t, {"counted"}, "exited", active_jobs)

Exits(t, registered) ==
  /\ TaskGoes(t, {"vm", "busy"}, "exited")
  /\ active_vms' = registered
  /\ UNCHANGED <<seen_jobs, permits, slot_pool, active_jobs, job_of, slot_of>>

\* An error of execute returns before unregister_vm.
Wrong_VmExits(t) == Exits(t, active_vms)

(* execute returns, whatever the cause: preparation failed, the guest      *)
(* rebooted, vm_timeout_secs passed, or the token was cancelled.           *)
VmExits(t) == Exits(t, active_vms \ {<<job_of[t], slot_of[t]>>})

PushSlot(t) ==
  /\ TaskGoes(t, {"exited"}, "returned")
  /\ slot_pool' = Append(slot_pool, slot_of[t])
  /\ slot_of' = [slot_of EXCEPT ![t] = NoSlot]
  /\ UNCHANGED <<seen_jobs, permits, active_jobs, active_vms, job_of>>

CountDown(t) == CountsAs(t, {"returned"}, "uncounted", active_jobs - 1)

\* remove_offline_runners returns (it logs its errors and never fails).
ScanRunners(t) == CountsAs(t, {"uncounted"}, "scanned", active_jobs)

ForgetJob(t) ==
  /\ TaskGoes(t, {"scanned"}, "forgotten")
  /\ seen_jobs' = seen_jobs \ {job_of[t]}
  /\ UNCHANGED <<pool_vars, job_of, slot_of>>

\* The task's future is dropped, and _permit with it.
DropPermit(t) ==
  /\ TaskGoes(t, {"forgotten"}, "free")
  /\ permits' = permits + 1
  /\ job_of' = [job_of EXCEPT ![t] = NoJob]
  /\ UNCHANGED <<seen_jobs, slot_pool, active_jobs, active_vms, slot_of>>

--------------------------------------------------------------------------------
Poll ==
  \/ Tick \/ PollDone
  \/ \E repo \in Repos : ListRuns(repo)
  \/ \E run \in Runs : ListJobs(run)
  \/ \E j \in Jobs : SkipJob(j)
  \/ \E j \in Jobs, t \in Tasks : DispatchJob(j, t)

Drain == DrainDone \/ DrainTimeout

TaskStep(t) ==
  \/ AcquirePermit(t) \/ PopSlot(t) \/ CountUp(t)
  \/ StartVm(t) \/ TokenFails(t) \/ VmExits(t)
  \/ PushSlot(t) \/ CountDown(t) \/ ScanRunners(t) \/ ForgetJob(t)
  \/ DropPermit(t)

\* run has returned and the process is gone: nothing happens any more.
ProcessGone == Stopped /\ UNCHANGED vars

Next ==
  \/ \E j \in Jobs : JobQueued(j)
  \/ Signal
  \/ \E t \in Tasks, j \in Jobs : RunnerPicks(t, j)
  \/ Poll \/ SeeCancel \/ Drain
  \/ \E t \in Tasks : TaskStep(t)
  \/ ProcessGone

Spec == Init /\ [][Next]_vars

(* Tokio runs every ready task and every VM ends (vm_timeout_secs), so a   *)
(* task's next step and the poll loop's are weakly fair.  The semaphore is *)
(* FIFO, so a waiting task gets a permit if permits keep coming back:      *)
(* strong fairness.  select! chooses at random among ready branches, so a  *)
(* cancelled token is seen after finitely many poll cycles: strong again.  *)
(* Nothing is assumed of GitHub, of the operator or of the guest's runner. *)
Fairness ==
  /\ WF_vars(Poll)
  /\ SF_vars(SeeCancel)
  /\ WF_vars(Drain)
  /\ \A t \in Tasks : SF_vars(AcquirePermit(t)) /\ WF_vars(TaskStep(t))

FairSpec == Spec /\ Fairness

--------------------------------------------------------------------------------
(* Safety                                                                  *)

Holding == {t \in Tasks : slot_of[t] # NoSlot}

(* Every slot is in slot_pool or with exactly one task, never both, never  *)
(* twice and never lost, and exactly the tasks between the pop and the     *)
(* push of dispatch_jit_job hold one.  This is what makes the TAP device   *)
(* and the cache image of a VM its own.                                    *)
SlotsPartitioned ==
  /\ \A a, b \in DOMAIN slot_pool : slot_pool[a] = slot_pool[b] => a = b
  /\ \A t \in Tasks, i \in DOMAIN slot_pool : slot_of[t] # slot_pool[i]
  /\ \A t, u \in Holding : slot_of[t] = slot_of[u] => t = u
  /\ Holding = At(SlotStages)
  /\ Len(slot_pool) + Cardinality(Holding) = MaxJobs

(* The branch "no slot available despite semaphore permit" of              *)
(* dispatch_jit_job is never taken: slot_pool is pushed before the permit  *)
(* is dropped, so the holder of a permit always finds a slot.              *)
PermitMeansSlot ==
  \A t \in Tasks : /\ pc[t] = "permitted" => slot_pool # <<>>
                   /\ pc[t] # "lost"

(* seen_jobs holds the ids of the tasks in flight and nothing else: no job *)
(* has two tasks, and no id is left behind that would block a retry.       *)
SeenIsInFlight ==
  /\ seen_jobs = {job_of[t] : t \in At(SeenStages)}
  /\ \A t, u \in At(SeenStages) : job_of[t] = job_of[u] => t = u

(* active_jobs counts the tasks whose VM may exist, so that an exit of     *)
(* wait_for_active_jobs through "all in-flight jobs completed" leaves no   *)
(* VM behind.                                                              *)
IdleExitLeavesNoVm ==
  /\ active_jobs = Cardinality(At(CountedStages))
  /\ loop = "idle_exit" => At({"vm", "busy"}) = {}

(* `fc-runner ps` lists the running VMs: no stale entry outlives its VM,   *)
(* and no two entries share a slot or a job (register_vm, unregister_vm).  *)
PsIsExact ==
  /\ active_vms = {<<job_of[t], slot_of[t]>> : t \in At({"vm", "busy"})}
  /\ \A v, w \in active_vms : v[1] = w[1] \/ v[2] = w[2] => v = w

(* Slots are leased to tasks exclusively, and given back before being      *)
(* leased again: JIT mode implements SlotLease.                            *)
Lease == INSTANCE SlotLease WITH Holders <- Tasks, held <- slot_of
LeaseSpec == Lease!Spec

--------------------------------------------------------------------------------
(* Liveness                                                                *)

(* A job id does not block retries for ever: every dispatched task reaches *)
(* the removal from seen_jobs, unless the process ends first.              *)
SeenIsForgotten ==
  \A j \in Jobs : j \in seen_jobs ~> j \notin seen_jobs \/ Stopped

(* A shutdown signal ends run_reactive, whatever the tasks are doing.      *)
ShutdownEnds == cancelled ~> Stopped
================================================================================
