--------------------------- MODULE JitDispatchProofs ---------------------------
(***************************************************************************)
(* Theorems about JitDispatch, for every number of slots, tasks, jobs,     *)
(* runs and repositories.                                                  *)
(***************************************************************************)
EXTENDS JitDispatch, FiniteSetTheorems, SequenceTheorems, TLAPS

\* The types of the variables, before anything is known about the counters.
Types ==
  /\ status \in [Jobs -> {"absent", "queued", "picked"}]
  /\ cancelled \in BOOLEAN
  /\ loop \in {"select", "polling", "draining", "idle_exit", "timeout_exit"}
  /\ repos_left \subseteq Repos
  /\ runs_left \subseteq Runs
  /\ jobs_left \subseteq Jobs
  /\ seen_jobs \subseteq Jobs
  /\ permits \in Nat
  /\ slot_pool \in Seq(Slots)
  /\ active_jobs \in Int
  /\ active_vms \subseteq Jobs \X Slots
  /\ pc \in [Tasks -> Stages]
  /\ job_of \in [Tasks -> Jobs \cup {NoJob}]
  /\ slot_of \in [Tasks -> Slots \cup {NoSlot}]

\* Permits, slots and active jobs are accounted for by the stages of the tasks.
Accounts ==
  /\ permits + Cardinality(At(PermitStages)) = MaxJobs
  /\ Len(slot_pool) + Cardinality(At(SlotStages)) = MaxJobs
  /\ active_jobs = Cardinality(At(CountedStages))

\* Who holds which slot.
SlotsDistinct ==
  /\ \A a, b \in DOMAIN slot_pool : slot_pool[a] = slot_pool[b] => a = b
  /\ \A t \in Tasks, i \in DOMAIN slot_pool : slot_of[t] # slot_pool[i]
  /\ \A t, u \in Holding : slot_of[t] = slot_of[u] => t = u
  /\ Holding = At(SlotStages)

NoneLost == \A t \in Tasks : pc[t] # "lost"

Registered == active_vms = {<<job_of[t], slot_of[t]>> : t \in At({"vm", "busy"})}

IdleExit == loop = "idle_exit" => At({"vm", "busy"}) = {}

(* The inductive invariant.                                                *)
IInv ==
  /\ Types
  /\ Accounts
  /\ SlotsDistinct
  /\ NoneLost
  /\ SeenIsInFlight
  /\ Registered
  /\ IdleExit

--------------------------------------------------------------------------------
(* Counting tasks by stage                                                 *)

(* The tasks at some stages are a finite set.                              *)
LEMMA AtFinite ==
  ASSUME NEW S
  PROVE  /\ IsFiniteSet(At(S))
         /\ Cardinality(At(S)) \in Nat
<1>1. At(S) \in SUBSET Tasks
  BY DEF At
<1>2. IsFiniteSet(At(S))
  BY <1>1, FS_Subset, JitAssumption
<1>. QED  BY <1>2, FS_CardinalityType

(* A task that changes its stage enters and leaves the counts of the       *)
(* stages it moves between, and no other task does.                        *)
LEMMA MoveCounts ==
  ASSUME NEW S, NEW t \in Tasks, NEW to, Types, pc' = [pc EXCEPT ![t] = to]
  PROVE  Cardinality(At(S)') =
           Cardinality(At(S)) + (IF to \in S THEN 1 ELSE 0)
                              - (IF pc[t] \in S THEN 1 ELSE 0)
<1>1. At(S)' = IF to \in S THEN At(S) \cup {t} ELSE At(S) \ {t}
  BY DEF At, Types
<1>2. t \in At(S) <=> pc[t] \in S
  BY DEF At
<1>3. /\ Cardinality(At(S) \cup {t}) =
           IF t \in At(S) THEN Cardinality(At(S)) ELSE Cardinality(At(S)) + 1
      /\ Cardinality(At(S) \ {t}) =
           IF t \in At(S) THEN Cardinality(At(S)) - 1 ELSE Cardinality(At(S))
  BY AtFinite, FS_AddElement, FS_RemoveElement
<1>. QED  BY <1>1, <1>2, <1>3, AtFinite

(* There are as many slots to pop as permits to take, so a task that has   *)
(* taken a permit and not yet popped finds the pool non-empty.             *)
LEMMA PermitLeavesSlot ==
  ASSUME Types, Accounts, NEW t \in Tasks, pc[t] = "permitted"
  PROVE  slot_pool # <<>>
<1>1. At(SlotStages) \in SUBSET (At(PermitStages) \ {t})
  BY DEF At, SlotStages, PermitStages, SeenStages, CountedStages
<1>2. t \in At(PermitStages)
  BY DEF At, SlotStages, PermitStages, SeenStages, CountedStages
<1>3. /\ IsFiniteSet(At(PermitStages) \ {t})
      /\ Cardinality(At(PermitStages) \ {t}) = Cardinality(At(PermitStages)) - 1
  BY <1>2, AtFinite, FS_RemoveElement
<1>4. Cardinality(At(SlotStages)) <= Cardinality(At(PermitStages) \ {t})
  BY <1>1, <1>3, FS_Subset
<1>5. Cardinality(At(SlotStages)) < MaxJobs
  BY <1>3, <1>4, AtFinite, JitAssumption DEF Accounts, Types
<1>6. Len(slot_pool) # 0
  BY <1>5, AtFinite, JitAssumption DEF Accounts
<1>. QED  BY <1>6, EmptySeq

(* Popping the last slot leaves the others where they are.                 *)
LEMMA Popping ==
  ASSUME Types, slot_pool # <<>>,
         NEW rest, rest = SubSeq(slot_pool, 1, Len(slot_pool) - 1)
  PROVE  /\ rest \in Seq(Slots)
         /\ Len(rest) = Len(slot_pool) - 1
         /\ DOMAIN rest = 1..(Len(slot_pool) - 1)
         /\ DOMAIN slot_pool = 1..Len(slot_pool)
         /\ \A i \in DOMAIN rest : rest[i] = slot_pool[i]
         /\ Len(slot_pool) \in Nat \ {0}
         /\ slot_pool[Len(slot_pool)] \in Slots
<1>1. /\ Len(slot_pool) \in Nat \ {0}
      /\ DOMAIN slot_pool = 1..Len(slot_pool)
      /\ \A i \in 1..Len(slot_pool) : slot_pool[i] \in Slots
  BY EmptySeq, LenProperties DEF Types
<1>2. \A i \in 1..(Len(slot_pool) - 1) : slot_pool[i] \in Slots
  BY <1>1
<1>3. /\ rest \in Seq(Slots)
      /\ Len(rest) = Len(slot_pool) - 1
      /\ \A i \in 1..(Len(slot_pool) - 1) : rest[i] = slot_pool[i]
  BY <1>1, <1>2, SubSeqProperties
<1>. QED  BY <1>1, <1>3, LenProperties

(* Pushing a slot puts it after the others.                                *)
LEMMA Pushing ==
  ASSUME Types, NEW s \in Slots, NEW more, more = Append(slot_pool, s)
  PROVE  /\ more \in Seq(Slots)
         /\ Len(more) = Len(slot_pool) + 1
         /\ DOMAIN more = 1..(Len(slot_pool) + 1)
         /\ DOMAIN slot_pool = 1..Len(slot_pool)
         /\ \A i \in DOMAIN slot_pool : more[i] = slot_pool[i]
         /\ more[Len(slot_pool) + 1] = s
         /\ Len(slot_pool) \in Nat
<1>1. slot_pool \in Seq(Slots)
  BY DEF Types
<1>2. /\ more \in Seq(Slots)
      /\ Len(more) = Len(slot_pool) + 1
      /\ \A i \in 1..Len(slot_pool) : more[i] = slot_pool[i]
      /\ more[Len(slot_pool) + 1] = s
  BY <1>1, AppendProperties
<1>. QED  BY <1>1, <1>2, LenProperties

--------------------------------------------------------------------------------
(* The invariant holds initially                                           *)

LEMMA InitIInv == Init => IInv
<1>. SUFFICES ASSUME Init PROVE IInv
  OBVIOUS
<1>. USE DEF Init
<1>1. /\ slot_pool \in Seq(Slots)
      /\ Len(slot_pool) = MaxJobs
      /\ DOMAIN slot_pool = 1..MaxJobs
  BY JitAssumption DEF Slots
<1>2. Types
  <2>1. /\ permits \in Nat
        /\ pc \in [Tasks -> Stages]
        /\ active_vms \subseteq Jobs \X Slots
    BY JitAssumption DEF Stages
  <2>2. /\ job_of \in [Tasks -> Jobs \cup {NoJob}]
        /\ slot_of \in [Tasks -> Slots \cup {NoSlot}]
        /\ status \in [Jobs -> {"absent", "queued", "picked"}]
    OBVIOUS
  <2>3. cancelled \in BOOLEAN
    BY Zenon
  <2>4. /\ loop \in {"select", "polling", "draining", "idle_exit", "timeout_exit"}
        /\ repos_left \subseteq Repos /\ runs_left \subseteq Runs
        /\ jobs_left \subseteq Jobs /\ seen_jobs \subseteq Jobs
        /\ active_jobs \in Int
    OBVIOUS
  <2>. HIDE DEF Init
  <2>. QED  BY <1>1, <2>1, <2>2, <2>3, <2>4 DEF Types
<1>3. \A S : "free" \notin S => At(S) = {}
  BY DEF At
<1>4. /\ At(SlotStages) = {} /\ At(PermitStages) = {}
      /\ At(CountedStages) = {} /\ At(SeenStages) = {}
      /\ At({"vm", "busy"}) = {}
  BY <1>3 DEF SlotStages, PermitStages, SeenStages, CountedStages
<1>5. Accounts
  BY <1>1, <1>4, FS_EmptySet, JitAssumption DEF Accounts
<1>6. SlotsDistinct
  BY <1>1, <1>4, JitAssumption DEF SlotsDistinct, Holding, Slots
<1>7. NoneLost /\ SeenIsInFlight /\ Registered /\ IdleExit
  BY <1>4 DEF NoneLost, SeenIsInFlight, Registered, IdleExit
<1>. QED  BY <1>2, <1>5, <1>6, <1>7 DEF IInv

--------------------------------------------------------------------------------
(* Every step preserves the invariant                                      *)

(* A task whose move crosses none of a set's borders leaves it as it was.  *)
LEMMA SameAt ==
  ASSUME NEW S, NEW t \in Tasks, NEW to, Types, pc' = [pc EXCEPT ![t] = to],
         pc[t] \in S <=> to \in S
  PROVE  At(S)' = At(S)
BY DEF At, Types

(* A task that neither pops nor pushes leaves the partition of the slots.  *)
LEMMA SameSlots ==
  ASSUME NEW t \in Tasks, NEW to, Types, SlotsDistinct,
         pc' = [pc EXCEPT ![t] = to], UNCHANGED <<slot_pool, slot_of>>,
         pc[t] \in SlotStages <=> to \in SlotStages
  PROVE  SlotsDistinct'
<1>1. At(SlotStages)' = At(SlotStages)
  BY SameAt
<1>2. Holding' = Holding
  BY DEF Holding
<1>. QED  BY <1>1, <1>2 DEF SlotsDistinct

(* A task that does not touch seen_jobs keeps its job in flight.           *)
LEMMA SameSeen ==
  ASSUME NEW t \in Tasks, NEW to, Types, SeenIsInFlight,
         pc' = [pc EXCEPT ![t] = to], UNCHANGED <<seen_jobs, job_of>>,
         pc[t] \in SeenStages <=> to \in SeenStages
  PROVE  SeenIsInFlight'
<1>1. At(SeenStages)' = At(SeenStages)
  BY SameAt
<1>. QED  BY <1>1 DEF SeenIsInFlight

(* A task without a VM leaves the registered VMs alone.                    *)
LEMMA SameVms ==
  ASSUME NEW t \in Tasks, NEW to, Types, Registered,
         pc' = [pc EXCEPT ![t] = to],
         UNCHANGED active_vms,
         pc[t] \in {"vm", "busy"} <=> to \in {"vm", "busy"},
         \A u \in At({"vm", "busy"}) : job_of'[u] = job_of[u] /\ slot_of'[u] = slot_of[u]
  PROVE  Registered'
<1>1. At({"vm", "busy"})' = At({"vm", "busy"})
  BY SameAt
<1>. QED  BY <1>1 DEF Registered

(* GitHub, the operator and the poll loop, spawning apart, move no task.   *)
LEMMA QuietStep ==
  ASSUME IInv, Types', UNCHANGED <<seen_jobs, pool_vars, task_vars>>,
         loop' = "idle_exit" => At({"vm", "busy"}) = {}
  PROVE  IInv'
<1>. USE DEF pool_vars, task_vars
<1>1. \A S : At(S)' = At(S)
  BY DEF At
<1>2. Holding' = Holding
  BY DEF Holding
<1>3. Accounts' /\ NoneLost' /\ SeenIsInFlight' /\ Registered' /\ IdleExit'
  BY <1>1 DEF IInv, Accounts, NoneLost, SeenIsInFlight, Registered, IdleExit
<1>4. SlotsDistinct'
  BY <1>1, <1>2 DEF IInv, SlotsDistinct
<1>. QED  BY <1>3, <1>4 DEF IInv

(* The steps that are quiet.                                               *)
LEMMA QuietActions ==
  ASSUME IInv,
         \/ \E j \in Jobs : JobQueued(j)
         \/ Signal \/ Tick \/ PollDone \/ SeeCancel \/ Drain
         \/ \E repo \in Repos : ListRuns(repo)
         \/ \E run \in Runs : ListJobs(run)
         \/ \E j \in Jobs : SkipJob(j)
         \/ UNCHANGED vars
  PROVE  IInv'
<1>. USE DEF LoopStep, Turn, Listing, env_vars, poll_vars, pool_vars, task_vars
<1>1. /\ Types
      /\ loop = "idle_exit" => At({"vm", "busy"}) = {}
  BY DEF IInv, IdleExit
<1>2. ASSUME NEW j \in Jobs, JobQueued(j) PROVE IInv'
  <2>1. Types'
    BY <1>1, <1>2 DEF JobQueued, Types
  <2>. QED  BY <1>1, <1>2, <2>1, QuietStep DEF JobQueued
<1>3. CASE Signal
  <2>1. Types'
    BY <1>1, <1>3 DEF Signal, Types
  <2>. QED  BY <1>1, <1>3, <2>1, QuietStep DEF Signal
<1>4. CASE Tick \/ PollDone \/ SeeCancel
  <2>1. Types'
    BY <1>1, <1>4 DEF Tick, PollDone, SeeCancel, Types
  <2>. QED  BY <1>1, <1>4, <2>1, QuietStep DEF Tick, PollDone, SeeCancel
<1>5. CASE DrainDone
  <2>1. Types'
    BY <1>1, <1>5 DEF DrainDone, Types
  <2>2. At(CountedStages) = {}
    BY <1>5, AtFinite, FS_EmptySet DEF DrainDone, IInv, Accounts
  <2>3. At({"vm", "busy"}) = {}
    BY <2>2 DEF At, CountedStages
  <2>. QED  BY <1>5, <2>1, <2>3, QuietStep DEF DrainDone
<1>6. CASE DrainTimeout
  <2>1. Types'
    BY <1>1, <1>6 DEF DrainTimeout, Types
  <2>. QED  BY <1>1, <1>6, <2>1, QuietStep DEF DrainTimeout
<1>7. ASSUME NEW repo \in Repos, ListRuns(repo) PROVE IInv'
  <2>1. Types'
    BY <1>1, <1>7 DEF ListRuns, Types
  <2>. QED  BY <1>1, <1>7, <2>1, QuietStep DEF ListRuns
<1>8. ASSUME NEW run \in Runs, ListJobs(run) PROVE IInv'
  <2>1. Types'
    BY <1>1, <1>8 DEF ListJobs, ListJobsOr, QueuedIn, Types
  <2>. QED  BY <1>1, <1>8, <2>1, QuietStep DEF ListJobs, ListJobsOr
<1>9. ASSUME NEW j \in Jobs, SkipJob(j) PROVE IInv'
  <2>1. Types'
    BY <1>1, <1>9 DEF SkipJob, Types
  <2>. QED  BY <1>1, <1>9, <2>1, QuietStep DEF SkipJob
<1>10. CASE UNCHANGED vars
  <2>1. Types'
    BY <1>1, <1>10 DEF vars, Types
  <2>. QED  BY <1>1, <1>10, <2>1, QuietStep DEF vars
<1>. QED
  BY <1>2, <1>3, <1>4, <1>5, <1>6, <1>7, <1>8, <1>9, <1>10 DEF Drain

\* How the number of tasks at stages S changes when t moves on to a stage.
Crosses(t, to, S) ==
  (IF to \in S THEN 1 ELSE 0) - (IF pc[t] \in S THEN 1 ELSE 0)

(* The accounts after a task moved, whatever it did with its permit, slot  *)
(* and count.                                                              *)
LEMMA MoveAccounts ==
  ASSUME NEW t \in Tasks, NEW to, Types, Accounts, pc' = [pc EXCEPT ![t] = to],
         permits' = permits - Crosses(t, to, PermitStages),
         Len(slot_pool') = Len(slot_pool) - Crosses(t, to, SlotStages),
         active_jobs' = active_jobs + Crosses(t, to, CountedStages)
  PROVE  Accounts'
<1>1. /\ permits \in Int /\ active_jobs \in Int /\ Len(slot_pool) \in Int
      /\ MaxJobs \in Int
  BY LenProperties, JitAssumption DEF Types
<1>2. \A S : Cardinality(At(S)) \in Int
  BY AtFinite
<1>3. \A S : Crosses(t, to, S) \in Int
  BY DEF Crosses
<1>4. \A S : Cardinality(At(S)') = Cardinality(At(S)) + Crosses(t, to, S)
  <2>. SUFFICES ASSUME NEW S
                PROVE  Cardinality(At(S)') = Cardinality(At(S)) + Crosses(t, to, S)
    OBVIOUS
  <2>. QED  BY MoveCounts, <1>2 DEF Crosses
<1>5. permits' + Cardinality(At(PermitStages)') = MaxJobs
  <2>1. /\ Cardinality(At(PermitStages)') =
             Cardinality(At(PermitStages)) + Crosses(t, to, PermitStages)
        /\ Cardinality(At(PermitStages)) \in Int /\ Crosses(t, to, PermitStages) \in Int
    BY <1>2, <1>3, <1>4
  <2>2. permits + Cardinality(At(PermitStages)) = MaxJobs
    BY DEF Accounts
  <2>. QED  BY <1>1, <2>1, <2>2
<1>6. Len(slot_pool') + Cardinality(At(SlotStages)') = MaxJobs
  <2>1. /\ Cardinality(At(SlotStages)') =
             Cardinality(At(SlotStages)) + Crosses(t, to, SlotStages)
        /\ Cardinality(At(SlotStages)) \in Int /\ Crosses(t, to, SlotStages) \in Int
    BY <1>2, <1>3, <1>4
  <2>2. Len(slot_pool) + Cardinality(At(SlotStages)) = MaxJobs
    BY DEF Accounts
  <2>. QED  BY <1>1, <2>1, <2>2
<1>7. active_jobs' = Cardinality(At(CountedStages)')
  <2>1. Cardinality(At(CountedStages)') =
          Cardinality(At(CountedStages)) + Crosses(t, to, CountedStages)
    BY <1>4
  <2>2. active_jobs = Cardinality(At(CountedStages))
    BY DEF Accounts
  <2>. QED  BY <2>1, <2>2
<1>. QED  BY <1>5, <1>6, <1>7 DEF Accounts

(* A task action leaves the loop where it is, and the loop has not ended.  *)
LEMMA TaskGoesOn ==
  ASSUME NEW t \in Tasks, NEW from, NEW to, TaskGoes(t, from, to)
  PROVE  IdleExit'
BY DEF TaskGoes, Stopped, IdleExit, poll_vars

(* The runner of a VM picks a job.                                         *)
LEMMA RunnerPicksStep ==
  ASSUME IInv, NEW t \in Tasks, NEW j \in Jobs, RunnerPicks(t, j)
  PROVE  IInv'
<1>. USE DEF RunnerPicks, pool_vars, poll_vars
<1>1. Types /\ Accounts /\ SlotsDistinct /\ NoneLost /\ SeenIsInFlight /\ Registered
  BY DEF IInv
<1>2. Types'
  BY <1>1 DEF Types, Stages, SeenStages, SlotStages, CountedStages
<1>3. Accounts'
  <2>1. /\ Crosses(t, "busy", PermitStages) = 0
        /\ Crosses(t, "busy", SlotStages) = 0
        /\ Crosses(t, "busy", CountedStages) = 0
    BY DEF Crosses, PermitStages, SeenStages, SlotStages, CountedStages
  <2>2. permits \in Int /\ active_jobs \in Int /\ Len(slot_pool) \in Int
    BY <1>1, LenProperties DEF Types
  <2>3. /\ permits' = permits - Crosses(t, "busy", PermitStages)
        /\ Len(slot_pool') = Len(slot_pool) - Crosses(t, "busy", SlotStages)
        /\ active_jobs' = active_jobs + Crosses(t, "busy", CountedStages)
    BY <2>1, <2>2
  <2>4. pc' = [pc EXCEPT ![t] = "busy"]
    OBVIOUS
  <2>. HIDE DEF RunnerPicks, pool_vars, poll_vars
  <2>. QED  BY <1>1, <2>3, <2>4, MoveAccounts
<1>4. SlotsDistinct'
  BY <1>1, SameSlots DEF SlotStages
<1>5. NoneLost'
  BY <1>1 DEF NoneLost, Types
<1>6. SeenIsInFlight'
  BY <1>1, SameSeen DEF SeenStages, SlotStages, CountedStages
<1>7. Registered'
  BY <1>1, SameVms
<1>8. IdleExit'
  BY DEF IdleExit, Stopped
<1>. QED  BY <1>2, <1>3, <1>4, <1>5, <1>6, <1>7, <1>8 DEF IInv

(* The poll loop records a job and spawns its task.                        *)
LEMMA DispatchJobStep ==
  ASSUME IInv, NEW j \in Jobs, NEW t \in Tasks, DispatchJob(j, t)
  PROVE  IInv'
<1>. USE DEF DispatchJob, SpawnTask, LoopStep, env_vars, pool_vars
<1>1. Types /\ Accounts /\ SlotsDistinct /\ NoneLost /\ SeenIsInFlight /\ Registered
  BY DEF IInv
<1>2. Types'
  BY <1>1 DEF Types, Stages, SeenStages, SlotStages, CountedStages
<1>3. Accounts'
  <2>1. /\ Crosses(t, "spawned", PermitStages) = 0
        /\ Crosses(t, "spawned", SlotStages) = 0
        /\ Crosses(t, "spawned", CountedStages) = 0
    BY DEF Crosses, PermitStages, SeenStages, SlotStages, CountedStages
  <2>2. permits \in Int /\ active_jobs \in Int /\ Len(slot_pool) \in Int
    BY <1>1, LenProperties DEF Types
  <2>3. /\ permits' = permits - Crosses(t, "spawned", PermitStages)
        /\ Len(slot_pool') = Len(slot_pool) - Crosses(t, "spawned", SlotStages)
        /\ active_jobs' = active_jobs + Crosses(t, "spawned", CountedStages)
    BY <2>1, <2>2
  <2>4. pc' = [pc EXCEPT ![t] = "spawned"]
    OBVIOUS
  <2>. HIDE DEF DispatchJob, SpawnTask, LoopStep, env_vars, pool_vars
  <2>. QED  BY <1>1, <2>3, <2>4, MoveAccounts
<1>4. SlotsDistinct'
  BY <1>1, SameSlots DEF SlotStages
<1>5. NoneLost'
  BY <1>1 DEF NoneLost, Types
<1>6. SeenIsInFlight'
  <2>1. At(SeenStages)' = At(SeenStages) \cup {t}
    BY <1>1 DEF At, Types, SeenStages
  <2>2. t \notin At(SeenStages)
    BY DEF At, SeenStages, SlotStages, CountedStages
  <2>3. /\ \A u \in At(SeenStages) : job_of'[u] = job_of[u]
        /\ job_of'[t] = j
    BY <1>1, <2>2 DEF Types, At
  <2>4. j \notin {job_of[u] : u \in At(SeenStages)}
    BY <1>1 DEF SeenIsInFlight
  <2>5. {job_of'[u] : u \in At(SeenStages)'} = {job_of[u] : u \in At(SeenStages)} \cup {j}
    BY <2>1, <2>3
  <2>. QED  BY <1>1, <2>1, <2>3, <2>4, <2>5 DEF SeenIsInFlight
<1>7. Registered'
  <2>1. \A u \in At({"vm", "busy"}) : job_of'[u] = job_of[u] /\ slot_of'[u] = slot_of[u]
    BY <1>1 DEF Types, At
  <2>. QED  BY <1>1, <2>1, SameVms
<1>8. IdleExit'
  BY DEF IdleExit
<1>. QED  BY <1>2, <1>3, <1>4, <1>5, <1>6, <1>7, <1>8 DEF IInv

(* The steps of a task that at most change active_jobs.                    *)
LEMMA CountsStep ==
  ASSUME IInv, NEW t \in Tasks, NEW from, NEW to \in Stages \ {"lost"}, NEW count,
         CountsAs(t, {from}, to, count),
         {from, to} \cap {"vm", "busy"} = {},
         from \in SeenStages, to \in SeenStages,
         from \in PermitStages <=> to \in PermitStages,
         from \in SlotStages <=> to \in SlotStages,
         count = active_jobs + Crosses(t, to, CountedStages)
  PROVE  IInv'
<1>1. Types /\ Accounts /\ SlotsDistinct /\ NoneLost /\ SeenIsInFlight /\ Registered
  BY DEF IInv
<1>2. pc[t] = from /\ pc' = [pc EXCEPT ![t] = to]
  BY DEF CountsAs, TaskGoes
<1>3. /\ UNCHANGED <<seen_jobs, permits, slot_pool, active_vms, job_of, slot_of>>
      /\ active_jobs' = count
  BY DEF CountsAs
<1>4. Accounts'
  <2>1. Crosses(t, to, PermitStages) = 0 /\ Crosses(t, to, SlotStages) = 0
    BY <1>2 DEF Crosses
  <2>2. permits \in Int /\ Len(slot_pool) \in Int
    BY <1>1, LenProperties DEF Types
  <2>3. /\ permits' = permits - Crosses(t, to, PermitStages)
        /\ Len(slot_pool') = Len(slot_pool) - Crosses(t, to, SlotStages)
        /\ active_jobs' = active_jobs + Crosses(t, to, CountedStages)
    BY <1>3, <2>1, <2>2
  <2>. QED  BY <1>1, <1>2, <2>3, MoveAccounts
<1>5. Types'
  <2>1. active_jobs' \in Int
    BY <1>1, <1>3 DEF Types, Crosses
  <2>. QED  BY <1>1, <1>2, <1>3, <2>1
            DEF Types, CountsAs, TaskGoes, env_vars, poll_vars
<1>6. SlotsDistinct'
  BY <1>1, <1>2, <1>3, SameSlots
<1>7. NoneLost'
  BY <1>1, <1>2 DEF NoneLost, Types
<1>8. SeenIsInFlight'
  BY <1>1, <1>2, <1>3, SameSeen
<1>9. Registered'
  BY <1>1, <1>2, <1>3, SameVms
<1>10. IdleExit'
  BY TaskGoesOn DEF CountsAs
<1>. QED  BY <1>4, <1>5, <1>6, <1>7, <1>8, <1>9, <1>10 DEF IInv

(* CountUp, TokenFails, CountDown and ScanRunners are such steps.          *)
LEMMA CountingActions ==
  ASSUME IInv, NEW t \in Tasks,
         CountUp(t) \/ TokenFails(t) \/ CountDown(t) \/ ScanRunners(t)
  PROVE  IInv'
<1>. USE DEF CountsAs, TaskGoes, Crosses, Stages, PermitStages, SeenStages,
             SlotStages, CountedStages
<1>1. active_jobs \in Int
  BY DEF IInv, Types
<1>2. CASE CountUp(t)
  <2>1. active_jobs + 1 = active_jobs + Crosses(t, "counted", CountedStages)
    BY <1>2 DEF CountUp
  <2>. HIDE DEF CountsAs, TaskGoes, Crosses
  <2>. QED  BY <1>2, <2>1, CountsStep DEF CountUp
<1>3. CASE TokenFails(t)
  <2>1. active_jobs = active_jobs + Crosses(t, "exited", CountedStages)
    BY <1>1, <1>3 DEF TokenFails
  <2>. HIDE DEF CountsAs, TaskGoes, Crosses
  <2>. QED  BY <1>3, <2>1, CountsStep DEF TokenFails
<1>4. CASE CountDown(t)
  <2>1. active_jobs - 1 = active_jobs + Crosses(t, "uncounted", CountedStages)
    BY <1>1, <1>4 DEF CountDown
  <2>2. /\ {"returned", "uncounted"} \cap {"vm", "busy"} = {}
        /\ {"returned", "uncounted"} \subseteq SeenStages \cap PermitStages \cap Stages
        /\ {"returned", "uncounted"} \cap SlotStages = {}
    OBVIOUS
  <2>3. CountsAs(t, {"returned"}, "uncounted", active_jobs - 1)
    BY <1>4 DEF CountDown
  <2>. HIDE DEF CountsAs, TaskGoes, Crosses, Stages, PermitStages, SeenStages,
                SlotStages, CountedStages
  <2>. QED  BY <2>1, <2>2, <2>3, CountsStep
<1>5. CASE ScanRunners(t)
  <2>1. active_jobs = active_jobs + Crosses(t, "scanned", CountedStages)
    BY <1>1, <1>5 DEF ScanRunners
  <2>. HIDE DEF CountsAs, TaskGoes, Crosses
  <2>. QED  BY <1>5, <2>1, CountsStep DEF ScanRunners
<1>. QED  BY <1>2, <1>3, <1>4, <1>5

(* A task takes a permit.                                                  *)
LEMMA AcquirePermitStep ==
  ASSUME IInv, NEW t \in Tasks, AcquirePermit(t)
  PROVE  IInv'
<1>1. Types /\ Accounts /\ SlotsDistinct /\ NoneLost /\ SeenIsInFlight /\ Registered
  BY DEF IInv
<1>2. /\ pc[t] = "spawned" /\ pc' = [pc EXCEPT ![t] = "permitted"]
      /\ permits > 0 /\ permits' = permits - 1
      /\ UNCHANGED <<seen_jobs, slot_pool, active_jobs, active_vms, job_of, slot_of>>
  BY DEF AcquirePermit, TaskGoes
<1>3. /\ Crosses(t, "permitted", PermitStages) = 1
      /\ Crosses(t, "permitted", SlotStages) = 0
      /\ Crosses(t, "permitted", CountedStages) = 0
  BY <1>2 DEF Crosses, PermitStages, SeenStages, SlotStages, CountedStages
<1>4. permits \in Nat /\ active_jobs \in Int /\ Len(slot_pool) \in Int
  BY <1>1, LenProperties DEF Types
<1>5. Accounts'
  <2>1. /\ permits' = permits - Crosses(t, "permitted", PermitStages)
        /\ Len(slot_pool') = Len(slot_pool) - Crosses(t, "permitted", SlotStages)
        /\ active_jobs' = active_jobs + Crosses(t, "permitted", CountedStages)
    BY <1>2, <1>3, <1>4
  <2>. QED  BY <1>1, <1>2, <2>1, MoveAccounts
<1>6. Types'
  <2>1. permits' \in Nat
    BY <1>2, <1>4
  <2>. QED  BY <1>1, <1>2, <2>1
            DEF Types, Stages, SeenStages, AcquirePermit, TaskGoes, env_vars, poll_vars
<1>7. SlotsDistinct'
  BY <1>1, <1>2, SameSlots DEF SlotStages
<1>8. NoneLost'
  BY <1>1, <1>2 DEF NoneLost, Types
<1>9. SeenIsInFlight'
  BY <1>1, <1>2, SameSeen DEF SeenStages
<1>10. Registered'
  BY <1>1, <1>2, SameVms
<1>11. IdleExit'
  BY TaskGoesOn DEF AcquirePermit
<1>. QED  BY <1>5, <1>6, <1>7, <1>8, <1>9, <1>10, <1>11 DEF IInv

(* A task pops the last slot of the pool; there is one, since it holds a   *)
(* permit.                                                                 *)
LEMMA PopSlotStep ==
  ASSUME IInv, NEW t \in Tasks, PopSlot(t)
  PROVE  IInv'
<1>1. Types /\ Accounts /\ SlotsDistinct /\ NoneLost /\ SeenIsInFlight /\ Registered
  BY DEF IInv
<1>2. slot_pool # <<>>
  BY <1>1, PermitLeavesSlot DEF PopSlot, NoneLeft, TaskGoes
<1>. DEFINE n == Len(slot_pool)
            rest == SubSeq(slot_pool, 1, n - 1)
<1>3. /\ pc[t] = "permitted" /\ pc' = [pc EXCEPT ![t] = "slotted"]
      /\ slot_of' = [slot_of EXCEPT ![t] = slot_pool[n]]
      /\ slot_pool' = rest
      /\ UNCHANGED <<seen_jobs, permits, active_jobs, active_vms, job_of>>
  BY <1>2 DEF PopSlot, TakeLast, TaskGoes
<1>4. /\ rest \in Seq(Slots)
      /\ Len(rest) = n - 1
      /\ DOMAIN rest = 1..(n - 1)
      /\ DOMAIN slot_pool = 1..n
      /\ \A i \in DOMAIN rest : rest[i] = slot_pool[i]
      /\ n \in Nat \ {0}
      /\ slot_pool[n] \in Slots
  BY <1>1, <1>2, Popping
<1>. HIDE DEF rest, n
<1>5. /\ Crosses(t, "slotted", PermitStages) = 0
      /\ Crosses(t, "slotted", SlotStages) = 1
      /\ Crosses(t, "slotted", CountedStages) = 0
  BY <1>3 DEF Crosses, PermitStages, SeenStages, SlotStages, CountedStages
<1>6. Accounts'
  <2>1. permits \in Nat /\ active_jobs \in Int
    BY <1>1 DEF Types
  <2>2. /\ permits' = permits - Crosses(t, "slotted", PermitStages)
        /\ Len(slot_pool') = n - Crosses(t, "slotted", SlotStages)
        /\ active_jobs' = active_jobs + Crosses(t, "slotted", CountedStages)
    BY <1>3, <1>4, <1>5, <2>1
  <2>. QED  BY <1>1, <1>3, <2>2, MoveAccounts DEF n
<1>7. Types'
  BY <1>1, <1>2, <1>3, <1>4
     DEF Types, Stages, SeenStages, SlotStages, PopSlot, TakeLast, TaskGoes,
         env_vars, poll_vars
<1>8. SlotsDistinct'
  <2>1. t \notin Holding
    BY <1>1, <1>3 DEF SlotsDistinct, At, SlotStages
  <2>2. \A u \in Tasks : slot_of'[u] = IF u = t THEN slot_pool[n] ELSE slot_of[u]
    BY <1>1, <1>3 DEF Types
  <2>3. Holding' = Holding \cup {t}
    BY <1>4, <2>2, JitAssumption DEF Holding
  <2>4. At(SlotStages)' = At(SlotStages) \cup {t}
    BY <1>1, <1>3 DEF At, SlotStages, Types
  <2>5. \A a, b \in DOMAIN rest : rest[a] = rest[b] => a = b
    BY <1>1, <1>4 DEF SlotsDistinct
  <2>6. \A i \in DOMAIN rest : i \in DOMAIN slot_pool /\ i # n
    BY <1>4
  <2>7. n \in DOMAIN slot_pool
    BY <1>4
  <2>8. \A u \in Tasks, i \in DOMAIN rest : slot_of'[u] # rest[i]
    BY <1>1, <1>4, <2>2, <2>6, <2>7 DEF SlotsDistinct
  <2>9. \A u, v \in Holding' : slot_of'[u] = slot_of'[v] => u = v
    BY <1>1, <2>2, <2>3, <2>7 DEF SlotsDistinct, Holding
  <2>. QED  BY <1>1, <1>3, <2>3, <2>4, <2>5, <2>8, <2>9 DEF SlotsDistinct
<1>9. NoneLost'
  BY <1>1, <1>3 DEF NoneLost, Types
<1>10. SeenIsInFlight'
  BY <1>1, <1>3, SameSeen DEF SeenStages, SlotStages
<1>11. Registered'
  <2>1. \A u \in At({"vm", "busy"}) : job_of'[u] = job_of[u] /\ slot_of'[u] = slot_of[u]
    BY <1>1, <1>3 DEF Types, At
  <2>. QED  BY <1>1, <1>3, <2>1, SameVms
<1>12. IdleExit'
  BY <1>2, TaskGoesOn DEF PopSlot, TakeLast
<1>. QED  BY <1>6, <1>7, <1>8, <1>9, <1>10, <1>11, <1>12 DEF IInv

(* A task gives its slot back at the end of the pool.                      *)
LEMMA PushSlotStep ==
  ASSUME IInv, NEW t \in Tasks, PushSlot(t)
  PROVE  IInv'
<1>1. Types /\ Accounts /\ SlotsDistinct /\ NoneLost /\ SeenIsInFlight /\ Registered
  BY DEF IInv
<1>. DEFINE n == Len(slot_pool)
            s == slot_of[t]
            more == Append(slot_pool, s)
<1>2. /\ pc[t] = "exited" /\ pc' = [pc EXCEPT ![t] = "returned"]
      /\ slot_of' = [slot_of EXCEPT ![t] = NoSlot]
      /\ slot_pool' = more
      /\ UNCHANGED <<seen_jobs, permits, active_jobs, active_vms, job_of>>
  BY DEF PushSlot, TaskGoes
<1>3. t \in Holding /\ s \in Slots
  BY <1>1, <1>2 DEF SlotsDistinct, Holding, At, SlotStages, Types
<1>4. /\ more \in Seq(Slots)
      /\ Len(more) = n + 1
      /\ DOMAIN more = 1..(n + 1)
      /\ DOMAIN slot_pool = 1..n
      /\ \A i \in DOMAIN slot_pool : more[i] = slot_pool[i]
      /\ more[n + 1] = s
      /\ n \in Nat
  BY <1>1, <1>3, Pushing
<1>. HIDE DEF more, n, s
<1>5. /\ Crosses(t, "returned", PermitStages) = 0
      /\ Crosses(t, "returned", SlotStages) = -1
      /\ Crosses(t, "returned", CountedStages) = 0
  BY <1>2 DEF Crosses, PermitStages, SeenStages, SlotStages, CountedStages
<1>6. Accounts'
  <2>1. permits \in Nat /\ active_jobs \in Int
    BY <1>1 DEF Types
  <2>2. /\ permits' = permits - Crosses(t, "returned", PermitStages)
        /\ Len(slot_pool') = n - Crosses(t, "returned", SlotStages)
        /\ active_jobs' = active_jobs + Crosses(t, "returned", CountedStages)
    BY <1>2, <1>4, <1>5, <2>1
  <2>. QED  BY <1>1, <1>2, <2>2, MoveAccounts DEF n
<1>7. Types'
  BY <1>1, <1>2, <1>4
     DEF Types, Stages, SeenStages, CountedStages, PushSlot, TaskGoes, env_vars, poll_vars
<1>8. SlotsDistinct'
  <2>1. \A u \in Tasks : slot_of'[u] = IF u = t THEN NoSlot ELSE slot_of[u]
    BY <1>1, <1>2 DEF Types
  <2>2. Holding' = Holding \ {t}
    BY <2>1 DEF Holding
  <2>3. At(SlotStages)' = At(SlotStages) \ {t}
    BY <1>1, <1>2 DEF At, SlotStages, Types
  <2>4. \A i \in DOMAIN more : \/ i \in DOMAIN slot_pool /\ more[i] = slot_pool[i]
                               \/ i = n + 1 /\ more[i] = s
    BY <1>4
  <2>5. \A i \in DOMAIN slot_pool : slot_pool[i] # s
    BY <1>1 DEF SlotsDistinct, s
  <2>6. \A a, b \in DOMAIN more : more[a] = more[b] => a = b
    BY <1>1, <2>4, <2>5 DEF SlotsDistinct
  <2>7. \A u \in Holding \ {t} : slot_of[u] # s
    BY <1>1, <1>3 DEF SlotsDistinct, s
  <2>8. \A i \in DOMAIN more : more[i] # NoSlot
    BY <1>4, ElementOfSeq, JitAssumption
  <2>9. \A u \in Tasks, i \in DOMAIN more : slot_of'[u] # more[i]
    <3>. SUFFICES ASSUME NEW u \in Tasks, NEW i \in DOMAIN more
                  PROVE  slot_of'[u] # more[i]
      OBVIOUS
    <3>1. CASE u = t
      BY <2>1, <2>8, <3>1
    <3>2. CASE u # t
      BY <1>1, <1>3, <2>1, <2>4, <2>7, <2>8, <3>2 DEF SlotsDistinct, Holding
    <3>. QED  BY <3>1, <3>2
  <2>10. \A u, v \in Holding' : slot_of'[u] = slot_of'[v] => u = v
    BY <1>1, <2>1, <2>2 DEF SlotsDistinct, Holding
  <2>. QED  BY <1>1, <1>2, <2>2, <2>3, <2>6, <2>9, <2>10 DEF SlotsDistinct
<1>9. NoneLost'
  BY <1>1, <1>2 DEF NoneLost, Types
<1>10. SeenIsInFlight'
  BY <1>1, <1>2, SameSeen DEF SeenStages, SlotStages, CountedStages
<1>11. Registered'
  <2>1. \A u \in At({"vm", "busy"}) : job_of'[u] = job_of[u] /\ slot_of'[u] = slot_of[u]
    BY <1>1, <1>2 DEF Types, At
  <2>. QED  BY <1>1, <1>2, <2>1, SameVms
<1>12. IdleExit'
  BY TaskGoesOn DEF PushSlot
<1>. QED  BY <1>6, <1>7, <1>8, <1>9, <1>10, <1>11, <1>12 DEF IInv

(* The accounts of a task that neither takes nor returns anything.         *)
LEMMA SameAccounts ==
  ASSUME NEW t \in Tasks, NEW to, Types, Accounts, pc' = [pc EXCEPT ![t] = to],
         UNCHANGED <<permits, slot_pool, active_jobs>>,
         pc[t] \in PermitStages <=> to \in PermitStages,
         pc[t] \in SlotStages <=> to \in SlotStages,
         pc[t] \in CountedStages <=> to \in CountedStages
  PROVE  Accounts'
<1>1. /\ At(PermitStages)' = At(PermitStages)
      /\ At(SlotStages)' = At(SlotStages)
      /\ At(CountedStages)' = At(CountedStages)
  BY SameAt
<1>. QED  BY <1>1 DEF Accounts

(* A VM is registered and starts.                                          *)
LEMMA StartVmStep ==
  ASSUME IInv, NEW t \in Tasks, StartVm(t)
  PROVE  IInv'
<1>1. Types /\ Accounts /\ SlotsDistinct /\ NoneLost /\ SeenIsInFlight /\ Registered
  BY DEF IInv
<1>2. /\ pc[t] = "counted" /\ pc' = [pc EXCEPT ![t] = "vm"]
      /\ active_vms' = active_vms \cup {<<job_of[t], slot_of[t]>>}
      /\ UNCHANGED <<seen_jobs, permits, slot_pool, active_jobs, job_of, slot_of>>
  BY DEF StartVm, TaskGoes
<1>3. job_of[t] \in Jobs /\ slot_of[t] \in Slots
  <2>1. t \in At(SlotStages) /\ t \in At(SeenStages)
    BY <1>2 DEF At, SlotStages, SeenStages
  <2>2. slot_of[t] \in Slots
    BY <1>1, <2>1 DEF SlotsDistinct, Holding, Types
  <2>3. job_of[t] \in seen_jobs
    BY <1>1, <2>1 DEF SeenIsInFlight
  <2>. QED  BY <1>1, <2>2, <2>3 DEF Types
<1>4. Accounts'
  BY <1>1, <1>2, SameAccounts DEF PermitStages, SeenStages, SlotStages, CountedStages
<1>5. Types'
  BY <1>1, <1>2, <1>3
     DEF Types, Stages, SeenStages, SlotStages, StartVm, TaskGoes, env_vars, poll_vars
<1>6. SlotsDistinct'
  BY <1>1, <1>2, SameSlots DEF SlotStages
<1>7. NoneLost'
  BY <1>1, <1>2 DEF NoneLost, Types
<1>8. SeenIsInFlight'
  BY <1>1, <1>2, SameSeen DEF SeenStages, SlotStages, CountedStages
<1>9. Registered'
  <2>1. At({"vm", "busy"})' = At({"vm", "busy"}) \cup {t}
    BY <1>1, <1>2 DEF At, Types
  <2>. QED  BY <1>1, <1>2, <2>1 DEF Registered
<1>10. IdleExit'
  BY TaskGoesOn DEF StartVm
<1>. QED  BY <1>4, <1>5, <1>6, <1>7, <1>8, <1>9, <1>10 DEF IInv

(* A VM ends and is unregistered: no other VM has its job and slot.        *)
LEMMA VmExitsStep ==
  ASSUME IInv, NEW t \in Tasks, VmExits(t)
  PROVE  IInv'
<1>1. Types /\ Accounts /\ SlotsDistinct /\ NoneLost /\ SeenIsInFlight /\ Registered
  BY DEF IInv
<1>2. /\ pc[t] \in {"vm", "busy"} /\ pc' = [pc EXCEPT ![t] = "exited"]
      /\ active_vms' = active_vms \ {<<job_of[t], slot_of[t]>>}
      /\ UNCHANGED <<seen_jobs, permits, slot_pool, active_jobs, job_of, slot_of>>
  BY DEF VmExits, Exits, TaskGoes
<1>3. Accounts'
  BY <1>1, <1>2, SameAccounts DEF PermitStages, SeenStages, SlotStages, CountedStages
<1>4. Types'
  BY <1>1, <1>2
     DEF Types, Stages, SeenStages, SlotStages, VmExits, Exits, TaskGoes,
         env_vars, poll_vars
<1>5. SlotsDistinct'
  BY <1>1, <1>2, SameSlots DEF SlotStages
<1>6. NoneLost'
  BY <1>1, <1>2 DEF NoneLost, Types
<1>7. SeenIsInFlight'
  BY <1>1, <1>2, SameSeen DEF SeenStages, SlotStages, CountedStages
<1>8. Registered'
  <2>1. At({"vm", "busy"})' = At({"vm", "busy"}) \ {t}
    BY <1>1, <1>2 DEF At, Types
  <2>2. At({"vm", "busy"}) \subseteq Holding
    BY <1>1 DEF SlotsDistinct, At, SlotStages
  <2>3. t \in At({"vm", "busy"})
    BY <1>2 DEF At
  <2>4. \A u \in At({"vm", "busy"}) : slot_of[u] = slot_of[t] => u = t
    BY <1>1, <2>2, <2>3 DEF SlotsDistinct, Holding
  <2>. QED  BY <1>1, <1>2, <2>1, <2>3, <2>4 DEF Registered
<1>9. IdleExit'
  BY TaskGoesOn DEF VmExits, Exits
<1>. QED  BY <1>3, <1>4, <1>5, <1>6, <1>7, <1>8, <1>9 DEF IInv

(* A job id leaves seen_jobs: no other task in flight has it.              *)
LEMMA ForgetJobStep ==
  ASSUME IInv, NEW t \in Tasks, ForgetJob(t)
  PROVE  IInv'
<1>1. Types /\ Accounts /\ SlotsDistinct /\ NoneLost /\ SeenIsInFlight /\ Registered
  BY DEF IInv
<1>2. /\ pc[t] = "scanned" /\ pc' = [pc EXCEPT ![t] = "forgotten"]
      /\ seen_jobs' = seen_jobs \ {job_of[t]}
      /\ UNCHANGED <<permits, slot_pool, active_jobs, active_vms, job_of, slot_of>>
  BY DEF ForgetJob, TaskGoes, pool_vars
<1>3. Accounts'
  BY <1>1, <1>2, SameAccounts DEF PermitStages, SeenStages, SlotStages, CountedStages
<1>4. Types'
  BY <1>1, <1>2 DEF Types, Stages, ForgetJob, TaskGoes, env_vars, poll_vars
<1>5. SlotsDistinct'
  BY <1>1, <1>2, SameSlots DEF SlotStages
<1>6. NoneLost'
  BY <1>1, <1>2 DEF NoneLost, Types
<1>7. SeenIsInFlight'
  <2>1. At(SeenStages)' = At(SeenStages) \ {t}
    BY <1>1, <1>2 DEF At, Types, SeenStages, SlotStages, CountedStages
  <2>2. t \in At(SeenStages)
    BY <1>2 DEF At, SeenStages
  <2>. QED  BY <1>1, <1>2, <2>1, <2>2 DEF SeenIsInFlight
<1>8. Registered'
  BY <1>1, <1>2, SameVms
<1>9. IdleExit'
  BY TaskGoesOn DEF ForgetJob
<1>. QED  BY <1>3, <1>4, <1>5, <1>6, <1>7, <1>8, <1>9 DEF IInv

(* A task ends and its permit is free again.                               *)
LEMMA DropPermitStep ==
  ASSUME IInv, NEW t \in Tasks, DropPermit(t)
  PROVE  IInv'
<1>1. Types /\ Accounts /\ SlotsDistinct /\ NoneLost /\ SeenIsInFlight /\ Registered
  BY DEF IInv
<1>2. /\ pc[t] = "forgotten" /\ pc' = [pc EXCEPT ![t] = "free"]
      /\ permits' = permits + 1
      /\ job_of' = [job_of EXCEPT ![t] = NoJob]
      /\ UNCHANGED <<seen_jobs, slot_pool, active_jobs, active_vms, slot_of>>
  BY DEF DropPermit, TaskGoes
<1>3. /\ Crosses(t, "free", PermitStages) = -1
      /\ Crosses(t, "free", SlotStages) = 0
      /\ Crosses(t, "free", CountedStages) = 0
  BY <1>2 DEF Crosses, PermitStages, SeenStages, SlotStages, CountedStages
<1>4. permits \in Nat /\ active_jobs \in Int /\ Len(slot_pool) \in Int
  BY <1>1, LenProperties DEF Types
<1>5. Accounts'
  <2>1. /\ permits' = permits - Crosses(t, "free", PermitStages)
        /\ Len(slot_pool') = Len(slot_pool) - Crosses(t, "free", SlotStages)
        /\ active_jobs' = active_jobs + Crosses(t, "free", CountedStages)
    BY <1>2, <1>3, <1>4
  <2>. QED  BY <1>1, <1>2, <2>1, MoveAccounts
<1>6. Types'
  <2>1. permits' \in Nat
    BY <1>2, <1>4
  <2>. QED  BY <1>1, <1>2, <2>1
            DEF Types, Stages, DropPermit, TaskGoes, env_vars, poll_vars
<1>7. SlotsDistinct'
  BY <1>1, <1>2, SameSlots DEF SlotStages
<1>8. NoneLost'
  BY <1>1, <1>2 DEF NoneLost, Types
<1>9. SeenIsInFlight'
  <2>1. At(SeenStages)' = At(SeenStages) /\ t \notin At(SeenStages)
    BY <1>1, <1>2 DEF At, Types, SeenStages, SlotStages, CountedStages
  <2>2. \A u \in At(SeenStages) : job_of'[u] = job_of[u]
    BY <1>1, <1>2, <2>1 DEF Types, At
  <2>. QED  BY <1>1, <1>2, <2>1, <2>2 DEF SeenIsInFlight
<1>10. Registered'
  <2>1. \A u \in At({"vm", "busy"}) : job_of'[u] = job_of[u] /\ slot_of'[u] = slot_of[u]
    BY <1>1, <1>2 DEF Types, At
  <2>. QED  BY <1>1, <1>2, <2>1, SameVms
<1>11. IdleExit'
  BY TaskGoesOn DEF DropPermit
<1>. QED  BY <1>5, <1>6, <1>7, <1>8, <1>9, <1>10, <1>11 DEF IInv

(* The invariant is inductive.                                             *)
LEMMA StepIInv == IInv /\ [Next]_vars => IInv'
<1>. SUFFICES ASSUME IInv, [Next]_vars PROVE IInv'
  OBVIOUS
<1>1. CASE \E t \in Tasks, j \in Jobs : RunnerPicks(t, j)
  BY <1>1, RunnerPicksStep
<1>2. CASE \E j \in Jobs, t \in Tasks : DispatchJob(j, t)
  BY <1>2, DispatchJobStep
<1>3. ASSUME NEW t \in Tasks, TaskStep(t) PROVE IInv'
  BY <1>3, AcquirePermitStep, PopSlotStep, CountingActions, StartVmStep, VmExitsStep,
     PushSlotStep, ForgetJobStep, DropPermitStep DEF TaskStep
<1>4. CASE \/ \E j \in Jobs : JobQueued(j)
           \/ Signal \/ Tick \/ PollDone \/ SeeCancel \/ Drain
           \/ \E repo \in Repos : ListRuns(repo)
           \/ \E run \in Runs : ListJobs(run)
           \/ \E j \in Jobs : SkipJob(j)
           \/ UNCHANGED vars
  BY <1>4, QuietActions
<1>. QED  BY <1>1, <1>2, <1>3, <1>4 DEF Next, Poll, ProcessGone

(* The invariant holds in every behaviour.                                 *)
THEOREM Invariance == Spec => []IInv
<1>. QED  BY InitIInv, StepIInv, PTL DEF Spec

--------------------------------------------------------------------------------
(* What the invariant gives                                                *)

(* Every variable keeps its type; permits stays within the semaphore's     *)
(* size and active_jobs (an AtomicUsize) never goes below zero.            *)
THEOREM TypeCorrect == Spec => []TypeOK
<1>1. IInv => TypeOK
  <2>. SUFFICES ASSUME IInv PROVE TypeOK
    OBVIOUS
  <2>1. permits \in 0..MaxJobs /\ active_jobs \in Nat
    BY AtFinite, JitAssumption DEF IInv, Types, Accounts
  <2>. QED  BY <2>1 DEF IInv, Types, TypeOK
<1>. QED  BY <1>1, Invariance, PTL

(* Every slot is in slot_pool or with exactly one dispatch_jit_job task.   *)
THEOREM SlotsArePartitioned == Spec => []SlotsPartitioned
<1>1. IInv => SlotsPartitioned
  BY DEF IInv, Accounts, SlotsDistinct, SlotsPartitioned
<1>. QED  BY <1>1, Invariance, PTL

(* dispatch_jit_job never returns early for want of a slot.                *)
THEOREM PermitsMeanSlots == Spec => []PermitMeansSlot
<1>1. IInv => PermitMeansSlot
  BY PermitLeavesSlot DEF IInv, NoneLost, PermitMeansSlot
<1>. QED  BY <1>1, Invariance, PTL

(* seen_jobs is exactly the jobs in flight, each with one task.            *)
THEOREM SeenJobsExact == Spec => []SeenIsInFlight
<1>1. IInv => SeenIsInFlight
  BY DEF IInv
<1>. QED  BY <1>1, Invariance, PTL

(* wait_for_active_jobs reports "all jobs completed" only without a VM.    *)
THEOREM IdleExitSafe == Spec => []IdleExitLeavesNoVm
<1>1. IInv => IdleExitLeavesNoVm
  BY DEF IInv, Accounts, IdleExit, IdleExitLeavesNoVm
<1>. QED  BY <1>1, Invariance, PTL

(* ServerState.active_vms is exactly the running VMs, on distinct slots    *)
(* and for distinct jobs.                                                  *)
THEOREM PsExact == Spec => []PsIsExact
<1>1. IInv => PsIsExact
  <2>. SUFFICES ASSUME IInv PROVE PsIsExact
    OBVIOUS
  <2>1. SlotsDistinct /\ SeenIsInFlight /\ Registered
    BY DEF IInv
  <2>2. \A t \in At({"vm", "busy"}) : t \in Holding /\ t \in At(SeenStages)
    BY <2>1 DEF SlotsDistinct, At, SlotStages, SeenStages
  <2>3. \A t, u \in At({"vm", "busy"}) :
          job_of[t] = job_of[u] \/ slot_of[t] = slot_of[u] => t = u
    BY <2>1, <2>2 DEF SlotsDistinct, SeenIsInFlight
  <2>. QED  BY <2>1, <2>3 DEF Registered, PsIsExact
<1>. QED  BY <1>1, Invariance, PTL

--------------------------------------------------------------------------------
(* The JIT mode implements SlotLease                                       *)

(* A pop leases a slot nobody holds, a push returns it, and no other step  *)
(* changes who holds what.                                                 *)
LEMMA LeaseStep == IInv /\ [Next]_vars => [Lease!Next]_slot_of
<1>. SUFFICES ASSUME IInv, [Next]_vars PROVE Lease!Next \/ UNCHANGED slot_of
  BY Zenon
<1>1. Types /\ Accounts /\ SlotsDistinct
  BY DEF IInv
<1>2. ASSUME NEW t \in Tasks, PopSlot(t) PROVE Lease!Next
  <2>1. slot_pool # <<>> /\ pc[t] = "permitted"
    BY <1>1, <1>2, PermitLeavesSlot DEF PopSlot, NoneLeft, TakeLast, TaskGoes
  <2>. DEFINE n == Len(slot_pool)
  <2>2. slot_of' = [slot_of EXCEPT ![t] = slot_pool[n]]
    BY <1>2, <2>1 DEF PopSlot, TakeLast
  <2>3. n \in DOMAIN slot_pool /\ slot_pool[n] \in Slots
    <3>1. /\ DOMAIN slot_pool = 1..n /\ n \in Nat \ {0}
          /\ slot_pool[n] \in Slots
      BY <1>1, <2>1, Popping
    <3>. HIDE DEF n
    <3>. QED  BY <3>1
  <2>4. t \notin Holding
    BY <1>1, <2>1 DEF SlotsDistinct, At, SlotStages
  <2>5. slot_of[t] = NoSlot
    BY <2>4 DEF Holding
  <2>6. \A u \in Tasks : slot_of[u] # slot_pool[n]
    BY <1>1, <2>3 DEF SlotsDistinct
  <2>7. Lease!Lease(t, slot_pool[n])
    BY <2>2, <2>3, <2>5, <2>6 DEF Lease!Lease, Lease!Unleased
  <2>. QED  BY <2>3, <2>7 DEF Lease!Next
<1>3. ASSUME NEW t \in Tasks, PushSlot(t) PROVE Lease!Next
  <2>1. slot_of[t] # NoSlot
    BY <1>1, <1>3 DEF SlotsDistinct, Holding, At, SlotStages, PushSlot, TaskGoes
  <2>2. Lease!Return(t)
    BY <1>3, <2>1 DEF PushSlot, Lease!Return
  <2>. QED  BY <2>2 DEF Lease!Next
<1>4. ASSUME NEW t \in Tasks, TaskStep(t), ~PopSlot(t), ~PushSlot(t)
      PROVE  UNCHANGED slot_of
  BY <1>4 DEF TaskStep, AcquirePermit, CountUp, StartVm, TokenFails, VmExits, Exits,
              CountDown, ScanRunners, ForgetJob, DropPermit, CountsAs
<1>5. CASE Poll \/ SeeCancel \/ Drain
  BY <1>5 DEF Poll, Tick, PollDone, ListRuns, ListJobs, ListJobsOr, SkipJob, DispatchJob,
              SpawnTask, SeeCancel, Drain, DrainDone, DrainTimeout, Turn, Listing, LoopStep
<1>6. CASE \/ \E j \in Jobs : JobQueued(j)
           \/ Signal
           \/ \E t \in Tasks, j \in Jobs : RunnerPicks(t, j)
  BY <1>6 DEF JobQueued, Signal, RunnerPicks, task_vars
<1>7. CASE UNCHANGED vars
  BY <1>7 DEF vars
<1>. QED  BY <1>2, <1>3, <1>4, <1>5, <1>6, <1>7 DEF Next, ProcessGone

(* Reactive mode leases every slot to at most one VM task at a time, from  *)
(* slot_pool.pop to slot_pool.push of dispatch_jit_job.                    *)
THEOREM ImplementsLease == Spec => LeaseSpec
<1>1. Init => Lease!Init
  BY DEF Init, Lease!Init
<1>. QED  BY <1>1, LeaseStep, Invariance, PTL DEF Spec, LeaseSpec, Lease!Spec

\* What SlotLease gives, for these holders.
Leased == INSTANCE SlotLeaseProofs WITH Holders <- Tasks, held <- slot_of

(* No two tasks of dispatch_jit_job ever have one slot, and so no two VMs   *)
(* of reactive mode one TAP device, subnet or cache image.                  *)
THEOREM SlotsNeverShared == Spec => []Lease!Exclusive
<1>1. Lease!Spec => Leased!Spec
  BY PTL DEF Lease!Spec, Leased!Spec, Lease!Init, Leased!Init, Lease!Next, Leased!Next,
             Lease!Lease, Leased!Lease, Lease!Return, Leased!Return,
             Lease!Unleased, Leased!Unleased
<1>2. Leased!Exclusive => Lease!Exclusive
  BY DEF Leased!Exclusive, Lease!Exclusive
<1>. QED  BY <1>1, <1>2, ImplementsLease, Leased!NeverShared, PTL DEF LeaseSpec
================================================================================
