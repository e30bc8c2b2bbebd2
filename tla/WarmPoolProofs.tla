----------------------------- MODULE WarmPoolProofs -----------------------------
(***************************************************************************)
(* Theorems about WarmPool, for every pool size, number of slots and       *)
(* finite set of VM tasks.                                                 *)
(***************************************************************************)
EXTENDS WarmPool, FiniteSetTheorems, SequenceTheorems, TLAPS

VmStages == Counted \cup {"free", "spawned", "uncounted", "sending"}

\* TypeOK, before anything is known about the counter.
Types ==
  /\ ephemeral \in BOOLEAN /\ vsock \in BOOLEAN /\ cancelled \in BOOLEAN
  /\ loop \in {"starting", "select", "returned", "listing", "listed", "spawning",
               "draining", "panicked", "idle_exit", "timeout_exit", "early_exit"}
  /\ to_spawn \in 0..PoolSize
  /\ slot_pool \in Seq(Slots) /\ done \in Seq(Slots)
  /\ active_jobs \in Int
  /\ pc \in [Vms -> VmStages]
  /\ slot_of \in [Vms -> Slots \cup {NoSlot}]
  /\ early \in [Vms -> {"closed", "waiting", "notified", "sending"}]
  /\ signaled \in [Vms -> BOOLEAN]

(* The two tasks of a VM and the flag they share: only one of them sends,  *)
(* and both know the slot for as long as one of them lives.                *)
Pairs ==
  \A v \in Vms :
    /\ pc[v] # "free" \/ early[v] # "closed" => slot_of[v] \in Slots
    /\ pc[v] = "sending" \/ early[v] = "sending" => signaled[v]
    /\ ~(pc[v] = "sending" /\ early[v] = "sending")
    /\ pc[v] = "free" /\ early[v] # "closed" => signaled[v]

(* PopulationKept, with what the start-up still owes.                      *)
Populated ==
  /\ loop \in {"listing", "listed", "spawning"} => ~ephemeral
  /\ loop = "returned" => slot_pool # <<>>
  /\ PoolSize <= MaxJobs =>
       /\ loop = "starting" => Population = PoolSize - to_spawn
       /\ loop # "panicked"
       /\ PopulationKept

(* The inductive invariant.                                                *)
IInv == Types /\ Pairs /\ SlotsAccounted /\ CountIsExact /\ Populated

--------------------------------------------------------------------------------
(* Counting VM tasks, and sequences of slots                               *)

\* Any set of VM tasks can be counted.
LEMMA VmsFinite ==
  ASSUME NEW S \in SUBSET Vms
  PROVE  IsFiniteSet(S) /\ Cardinality(S) \in Nat
  BY FS_Subset, FS_CardinalityType, WarmAssumption

LEMMA AtIsVms == ASSUME NEW stages PROVE At(stages) \in SUBSET Vms
  BY DEF At

LEMMA OwingIsVms == Owing \in SUBSET Vms
  BY DEF Owing

\* The slots in a sequence.
In(seq) == {seq[i] : i \in DOMAIN seq}

LEMMA Popping ==
  ASSUME NEW seq \in Seq(Slots), seq # <<>>,
         NEW rest, rest = SubSeq(seq, 1, Len(seq) - 1)
  PROVE  /\ rest \in Seq(Slots) /\ Len(rest) = Len(seq) - 1
         /\ seq[Len(seq)] \in Slots
         /\ In(seq) = In(rest) \cup {seq[Len(seq)]}
         /\ Len(seq) \in Nat
<1>1. Len(seq) \in Nat \ {0} /\ DOMAIN seq = 1..Len(seq) /\ \A i \in 1..Len(seq) : seq[i] \in Slots
  BY EmptySeq, LenProperties
<1>2. /\ rest \in Seq(Slots) /\ Len(rest) = Len(seq) - 1
      /\ \A i \in 1..(Len(seq) - 1) : rest[i] = seq[i]
  BY <1>1, SubSeqProperties
<1>3. DOMAIN rest = 1..(Len(seq) - 1)
  BY <1>2, LenProperties
<1>4. DOMAIN seq = DOMAIN rest \cup {Len(seq)}
  BY <1>1, <1>3
<1>5. In(seq) = In(rest) \cup {seq[Len(seq)]}
  <2>1. \A i \in DOMAIN rest : rest[i] = seq[i]
    BY <1>2, <1>3
  <2>2. {seq[i] : i \in DOMAIN rest} = In(rest)
    BY <2>1 DEF In
  <2>. QED  BY <1>4, <2>2 DEF In
<1>. QED  BY <1>1, <1>2, <1>5

LEMMA Pushing ==
  ASSUME NEW seq \in Seq(Slots), NEW s \in Slots, NEW more, more = Append(seq, s)
  PROVE  /\ more \in Seq(Slots) /\ Len(more) = Len(seq) + 1 /\ more # <<>>
         /\ In(more) = In(seq) \cup {s}
         /\ Len(seq) \in Nat
<1>1. Len(seq) \in Nat /\ DOMAIN seq = 1..Len(seq)
  BY LenProperties
<1>2. /\ more \in Seq(Slots) /\ Len(more) = Len(seq) + 1
      /\ \A i \in 1..Len(seq) : more[i] = seq[i]
      /\ more[Len(seq) + 1] = s
  BY AppendProperties
<1>3. DOMAIN more = 1..(Len(seq) + 1)
  BY <1>2, LenProperties
<1>4. DOMAIN more = DOMAIN seq \cup {Len(seq) + 1}
  BY <1>1, <1>3
<1>5. In(more) = In(seq) \cup {s}
  BY <1>1, <1>2, <1>4 DEF In
<1>. QED  BY <1>1, <1>2, <1>5, EmptySeq

LEMMA Taking ==
  ASSUME NEW seq \in Seq(Slots), seq # <<>>
  PROVE  /\ Tail(seq) \in Seq(Slots) /\ Len(Tail(seq)) = Len(seq) - 1
         /\ Head(seq) \in Slots
         /\ In(seq) = In(Tail(seq)) \cup {Head(seq)}
         /\ Len(seq) \in Nat
<1>1. Len(seq) \in Nat \ {0} /\ DOMAIN seq = 1..Len(seq) /\ \A i \in 1..Len(seq) : seq[i] \in Slots
  BY EmptySeq, LenProperties
<1>2. /\ Head(seq) = seq[1] /\ Head(seq) \in Slots
      /\ Tail(seq) \in Seq(Slots) /\ Len(Tail(seq)) = Len(seq) - 1
      /\ \A i \in 1..Len(Tail(seq)) : Tail(seq)[i] = seq[i + 1]
  BY HeadTailProperties, <1>1
<1>3. DOMAIN Tail(seq) = 1..(Len(seq) - 1)
  BY <1>2, LenProperties
<1>4. In(Tail(seq)) \cup {Head(seq)} \subseteq In(seq)
  BY <1>1, <1>2, <1>3 DEF In
<1>5. ASSUME NEW i \in DOMAIN seq PROVE seq[i] \in In(Tail(seq)) \cup {Head(seq)}
  <2>1. CASE i = 1
    BY <2>1, <1>2
  <2>2. CASE i # 1
    <3>1. i - 1 \in DOMAIN Tail(seq) /\ Tail(seq)[i - 1] = seq[i]
      BY <1>1, <1>2, <1>3, <2>2
    <3>. QED  BY <3>1 DEF In
  <2>. QED  BY <2>1, <2>2
<1>. QED  BY <1>1, <1>2, <1>4, <1>5 DEF In

--------------------------------------------------------------------------------
(* What a step does to the slots: nothing, or it passes one on.            *)

\* The tasks that owe a report may move, and owe it still.
Quiet ==
  /\ UNCHANGED <<slot_pool, done>>
  /\ Owing' = Owing
  /\ \A v \in Owing : slot_of'[v] = slot_of[v]

\* A slot is popped for v.
Spawns(v) ==
  /\ slot_pool # <<>>
  /\ slot_pool' = SubSeq(slot_pool, 1, Len(slot_pool) - 1)
  /\ done' = done
  /\ v \notin Owing /\ Owing' = Owing \cup {v}
  /\ slot_of'[v] = slot_pool[Len(slot_pool)]
  /\ \A u \in Owing : slot_of'[u] = slot_of[u]

\* A report is received, and its slot pushed.
Receives ==
  /\ done # <<>> /\ done' = Tail(done)
  /\ slot_pool' = Append(slot_pool, Head(done))
  /\ Owing' = Owing /\ UNCHANGED slot_of

\* v reports its slot.
Reports(v) ==
  /\ UNCHANGED slot_pool
  /\ done' = Append(done, slot_of[v])
  /\ v \in Owing /\ Owing' = Owing \ {v}
  /\ slot_of[v] \in Slots /\ UNCHANGED slot_of

\* Nobody moves but the loop.
LEMMA TurnQuiet ==
  ASSUME NEW from, NEW to, NEW left, Turn(from, to, left)
  PROVE  Quiet
  BY DEF Turn, LoopStep, Quiet, Owing

LEMMA SpawnSpawns ==
  ASSUME Types, NEW v \in Vms, Spawn(v)
  PROVE  Spawns(v)
<1>. USE DEF Spawn, SpawnWithFlag
<1>1. v \notin Owing
  BY DEF Owing
<1>2. Owing' = Owing \cup {v}
  BY <1>1 DEF Owing, Types
<1>3. /\ slot_of'[v] = slot_pool[Len(slot_pool)]
      /\ \A u \in Owing : slot_of'[u] = slot_of[u]
  BY <1>1 DEF Types, Owing
<1>. QED  BY <1>1, <1>2, <1>3 DEF Spawns

LEMMA TaskEffect ==
  ASSUME Types, Pairs, NEW v \in Vms, TaskStep(v) \/ EarlyStep(v) \/ Notify(v)
  PROVE  Quiet \/ Reports(v)
<1>. USE DEF Types, Goes, EarlyGoes, Plain
<1>1. CASE Start(v) \/ StartVm(v) \/ TokenFails(v) \/ GuestDone(v) \/ VmExits(v) \/ Uncount(v)
  <2>1. /\ pc[v] \notin {"free", "sending"}
        /\ \E to \in {"counted", "vm", "exited", "leaving", "uncounted"} :
              pc' = [pc EXCEPT ![v] = to]
        /\ UNCHANGED <<slot_pool, slot_of, early, done, signaled>>
    BY <1>1 DEF Start, StartVm, TokenFails, GuestDone, VmExits, Uncount, Running
  <2>2. Owing' = Owing
    BY <2>1 DEF Owing
  <2>. QED  BY <2>1, <2>2 DEF Quiet
<1>2. CASE Finish(v)
  <2>1. Owing' = Owing
    BY <1>2 DEF Finish, FinishUnless, Owing, Pairs
  <2>. QED  BY <1>2, <2>1 DEF Finish, FinishUnless, Quiet
<1>3. CASE Send(v)
  <2>1. v \in Owing /\ Owing' = Owing \ {v}
    BY <1>3 DEF Send, Owing, Pairs
  <2>. QED  BY <1>3, <2>1 DEF Send, Reports, Pairs
<1>4. CASE EarlyCloses(v) \/ Notify(v)
  <2>1. Owing' = Owing
    BY <1>4 DEF EarlyCloses, Notify, Owing
  <2>. QED  BY <1>4, <2>1 DEF EarlyCloses, Notify, Quiet
<1>5. CASE EarlySwap(v)
  <2>1. Owing' = Owing
    BY <1>5 DEF EarlySwap, Owing, Pairs
  <2>. QED  BY <1>5, <2>1 DEF EarlySwap, Quiet
<1>6. CASE EarlySend(v)
  <2>1. v \in Owing /\ Owing' = Owing \ {v}
    BY <1>6 DEF EarlySend, Owing, Pairs
  <2>. QED  BY <1>6, <2>1 DEF EarlySend, Reports, Pairs
<1>. QED  BY <1>1, <1>2, <1>3, <1>4, <1>5, <1>6 DEF TaskStep, EarlyStep

--------------------------------------------------------------------------------
(* What an effect does to the account of the slots                         *)

(* The slots stay accounted for, and the reports to come change by a spawn *)
(* and by a receive.                                                       *)
Outstanding == Cardinality(Owing) + Len(done)

LEMMA QuietAccount ==
  ASSUME SlotsAccounted, Quiet
  PROVE  SlotsAccounted' /\ Outstanding' = Outstanding
<1>1. {slot_of'[v] : v \in Owing'} = {slot_of[v] : v \in Owing}
  BY DEF Quiet
<1>. QED  BY <1>1 DEF SlotsAccounted, Outstanding, Quiet

LEMMA SpawnsAccount ==
  ASSUME Types, SlotsAccounted, NEW v \in Vms, Spawns(v)
  PROVE  SlotsAccounted' /\ Outstanding' = Outstanding + 1
<1>1. Len(slot_pool) + Len(done) + Cardinality(Owing) = MaxJobs
  BY DEF SlotsAccounted
<1>2. /\ Len(slot_pool') = Len(slot_pool) - 1 /\ Len(slot_pool) \in Nat
      /\ In(slot_pool) = In(slot_pool') \cup {slot_pool[Len(slot_pool)]}
  BY Popping DEF Types, Spawns
<1>3. IsFiniteSet(Owing) /\ Cardinality(Owing) \in Nat /\ Len(done) \in Nat
  BY OwingIsVms, VmsFinite, LenProperties DEF Types
<1>4. Cardinality(Owing') = Cardinality(Owing) + 1
  BY <1>3, FS_AddElement DEF Spawns
<1>5. {slot_of'[u] : u \in Owing'} =
        {slot_of[u] : u \in Owing} \cup {slot_pool[Len(slot_pool)]}
  BY DEF Spawns
<1>6. done' = done
  BY DEF Spawns
<1>7. Len(slot_pool') + Len(done') + Cardinality(Owing') = MaxJobs
  BY <1>1, <1>2, <1>3, <1>4, <1>6
<1>8. Slots = In(slot_pool') \cup In(done') \cup {slot_of'[u] : u \in Owing'}
  BY <1>2, <1>5 DEF SlotsAccounted, Spawns, In
<1>9. Outstanding' = Outstanding + 1
  BY <1>3, <1>4, <1>6 DEF Outstanding
<1>10. SlotsAccounted'
  BY <1>7, <1>8 DEF SlotsAccounted, In
<1>. QED  BY <1>9, <1>10

LEMMA ReceivesAccount ==
  ASSUME Types, SlotsAccounted, Receives
  PROVE  SlotsAccounted' /\ Outstanding' = Outstanding - 1 /\ slot_pool' # <<>>
<1>1. Len(slot_pool) + Len(done) + Cardinality(Owing) = MaxJobs
  BY DEF SlotsAccounted
<1>2. /\ Len(done') = Len(done) - 1 /\ Len(done) \in Nat /\ Head(done) \in Slots
      /\ In(done) = In(done') \cup {Head(done)}
  BY Taking DEF Types, Receives
<1>3. /\ Len(slot_pool') = Len(slot_pool) + 1 /\ Len(slot_pool) \in Nat
      /\ slot_pool' # <<>>
      /\ In(slot_pool') = In(slot_pool) \cup {Head(done)}
  BY <1>2, Pushing DEF Types, Receives
<1>4. Cardinality(Owing) \in Nat
  BY OwingIsVms, VmsFinite
<1>5. {slot_of'[u] : u \in Owing'} = {slot_of[u] : u \in Owing}
  BY DEF Receives
<1>6. Cardinality(Owing') = Cardinality(Owing)
  BY DEF Receives
<1>7. Len(slot_pool') + Len(done') + Cardinality(Owing') = MaxJobs
  BY <1>1, <1>2, <1>3, <1>4, <1>6
<1>8. Slots = In(slot_pool') \cup In(done') \cup {slot_of'[u] : u \in Owing'}
  BY <1>2, <1>3, <1>5 DEF SlotsAccounted, In
<1>9. Outstanding' = Outstanding - 1
  BY <1>2, <1>4, <1>6 DEF Outstanding
<1>10. SlotsAccounted'
  BY <1>7, <1>8 DEF SlotsAccounted, In
<1>. QED  BY <1>3, <1>9, <1>10

LEMMA ReportsAccount ==
  ASSUME Types, SlotsAccounted, NEW v \in Vms, Reports(v)
  PROVE  SlotsAccounted' /\ Outstanding' = Outstanding
<1>1. Len(slot_pool) + Len(done) + Cardinality(Owing) = MaxJobs
  BY DEF SlotsAccounted
<1>2. /\ Len(done') = Len(done) + 1 /\ Len(done) \in Nat
      /\ In(done') = In(done) \cup {slot_of[v]}
  BY Pushing DEF Types, Reports
<1>3. IsFiniteSet(Owing) /\ Cardinality(Owing) \in Nat /\ Len(slot_pool) \in Nat
  BY OwingIsVms, VmsFinite, LenProperties DEF Types
<1>4. Cardinality(Owing') = Cardinality(Owing) - 1
  BY <1>3, FS_RemoveElement DEF Reports
<1>5. {slot_of[u] : u \in Owing} = {slot_of'[u] : u \in Owing'} \cup {slot_of[v]}
  BY DEF Reports
<1>6. Len(slot_pool') = Len(slot_pool)
  BY DEF Reports
<1>7. Len(slot_pool') + Len(done') + Cardinality(Owing') = MaxJobs
  BY <1>1, <1>2, <1>3, <1>4, <1>6
<1>8. Slots = In(slot_pool') \cup In(done') \cup {slot_of'[u] : u \in Owing'}
  BY <1>2, <1>5 DEF SlotsAccounted, Reports, In
<1>9. Outstanding' = Outstanding
  BY <1>2, <1>3, <1>4 DEF Outstanding
<1>10. SlotsAccounted'
  BY <1>7, <1>8 DEF SlotsAccounted, In
<1>. QED  BY <1>9, <1>10

--------------------------------------------------------------------------------
(* The loop                                                                *)

(* A step of the loop with its effect on the slots; the tasks are counted   *)
(* as before, since a new one does not count itself yet.                   *)
LEMMA TurnStep ==
  ASSUME IInv, NEW from, NEW to, NEW left \in 0..PoolSize, Turn(from, to, left),
         to \in {"select", "listing", "listed", "spawning", "draining", "panicked",
                 "idle_exit", "timeout_exit", "early_exit"},
         Populated'
  PROVE  IInv'
<1>1. Types' /\ Pairs' /\ CountIsExact'
  BY DEF IInv, Types, Pairs, CountIsExact, At, Turn, LoopStep, config
<1>2. SlotsAccounted'
  BY TurnQuiet, QuietAccount DEF IInv
<1>. QED  BY <1>1, <1>2 DEF IInv

LEMMA SpawnStep ==
  ASSUME IInv, NEW v \in Vms, NEW from, NEW to, NEW left \in 0..PoolSize,
         LoopStep(from, to, left), Spawn(v),
         to \in {"starting", "select", "spawning"}, Populated'
  PROVE  IInv'
<1>1. Types /\ Spawns(v)
  BY SpawnSpawns DEF IInv
<1>2. slot_pool' \in Seq(Slots) /\ slot_pool[Len(slot_pool)] \in Slots
  BY <1>1, Popping DEF Types, Spawns
<1>3. Types'
  BY <1>1, <1>2 DEF Types, LoopStep, Spawn, SpawnWithFlag, VmStages, config
<1>4. Pairs'
  BY <1>1, <1>2 DEF IInv, Pairs, Types, Spawn, SpawnWithFlag
<1>5. CountIsExact'
  <2>1. At(Counted)' = At(Counted)
    BY <1>1 DEF At, Types, Spawn, SpawnWithFlag, Counted, Running
  <2>. QED  BY <2>1 DEF IInv, CountIsExact, LoopStep
<1>6. SlotsAccounted'
  BY <1>1, SpawnsAccount DEF IInv
<1>. QED  BY <1>3, <1>4, <1>5, <1>6 DEF IInv

\* Population, written with Outstanding.
LEMMA PopulationIs ==
  ASSUME Types
  PROVE  /\ Outstanding \in Nat
         /\ Population = Outstanding + (IF loop = "returned" THEN 1 ELSE 0)
<1>1. Cardinality(Owing) \in Nat /\ Len(done) \in Nat
  BY OwingIsVms, VmsFinite, LenProperties DEF Types
<1>. QED  BY <1>1 DEF Outstanding, Population

LEMMA LoopIInv ==
  ASSUME IInv, LoopSteps \/ SeeCancel
  PROVE  IInv'
<1>. DEFINE Extra(l) == IF l = "returned" THEN 1 ELSE 0
<1>0. /\ Types /\ SlotsAccounted /\ Populated
      /\ PoolSize \in Nat \ {0} /\ MaxJobs \in Nat \ {0} /\ to_spawn \in 0..PoolSize
      /\ Outstanding \in Nat /\ Population = Outstanding + Extra(loop)
  BY PopulationIs, WarmAssumption DEF IInv, Types
\* What Populated says of the next state.
<1>1. ASSUME Outstanding' \in Nat, ephemeral' = ephemeral,
             loop' \in {"listing", "listed", "spawning"} => ~ephemeral,
             loop' = "returned" => slot_pool' # <<>>,
             PoolSize <= MaxJobs =>
               /\ loop' = "starting" => Outstanding' = PoolSize - to_spawn'
               /\ loop' # "panicked"
               /\ loop' \notin {"starting", "early_exit"} =>
                    /\ Outstanding' + Extra(loop') >= PoolSize
                    /\ ephemeral => Outstanding' + Extra(loop') = PoolSize
      PROVE  Populated'
  <2>1. Population' = Outstanding' + Extra(loop')
    <3>1. Population' = Cardinality(Owing') + Len(done') + Extra(loop')
      BY DEF Population
    <3>. QED  BY <3>1 DEF Outstanding
  <2>. QED  BY <1>1, <2>1 DEF Populated, PopulationKept
<1>2. ASSUME NEW v \in Vms, SpawnInitial(v) PROVE IInv'
  <2>1. CASE slot_pool = <<>>
    <3>1. Turn("starting", "panicked", to_spawn)
      BY <1>2, <2>1 DEF SpawnInitial
    \* All slots are out, which is more than the pool has asked for.
    <3>2. ~(PoolSize <= MaxJobs)
      <4>1. Len(slot_pool) = 0
        BY <2>1
      <4>2. /\ Len(slot_pool) + Len(done) + Cardinality(Owing) = MaxJobs
            /\ Cardinality(Owing) \in Nat /\ Len(done) \in Nat
        BY <1>0, OwingIsVms, VmsFinite, LenProperties DEF SlotsAccounted, Types
      <4>3. Outstanding = MaxJobs
        BY <4>1, <4>2, <1>0 DEF Outstanding
      <4>4. to_spawn > 0 /\ loop = "starting"
        BY <1>2, <3>1 DEF SpawnInitial, Turn, LoopStep
      <4>. QED  BY <1>0, <4>3, <4>4 DEF Populated
    <3>3. Outstanding' = Outstanding
      BY <1>0, <3>1, TurnQuiet, QuietAccount
    <3>4. Populated'
      BY <1>0, <1>1, <3>1, <3>2, <3>3 DEF Turn, LoopStep, config
    <3>. QED  BY <1>0, <3>1, <3>4, TurnStep
  <2>2. CASE slot_pool # <<>>
    <3>1. LoopStep("starting", "starting", to_spawn - 1) /\ Spawn(v) /\ to_spawn > 0
      BY <1>2, <2>2 DEF SpawnInitial
    <3>2. Outstanding' = Outstanding + 1
      BY <1>0, <3>1, SpawnSpawns, SpawnsAccount
    <3>3. Populated'
      BY <1>0, <1>1, <3>1, <3>2 DEF LoopStep, config, Populated
    <3>. QED  BY <1>0, <3>1, <3>3, SpawnStep
  <2>. QED  BY <2>1, <2>2
<1>3. CASE StartUpDone
  <2>1. Turn("starting", "select", 0) /\ to_spawn = 0
    BY <1>3 DEF StartUpDone
  <2>2. Outstanding' = Outstanding
    BY <1>0, <2>1, TurnQuiet, QuietAccount
  <2>3. Populated'
    BY <1>0, <1>1, <2>1, <2>2 DEF Turn, LoopStep, config, Populated
  <2>. QED  BY <1>0, <2>1, <2>3, TurnStep
<1>4. CASE Receive
  <2>. USE DEF Receive, Serve
  <2>1. Receives
    BY <1>4 DEF Receives, Owing
  <2>2. SlotsAccounted' /\ Outstanding' = Outstanding - 1 /\ slot_pool' # <<>>
    BY <1>0, <2>1, ReceivesAccount
  <2>3. slot_pool' \in Seq(Slots) /\ done' \in Seq(Slots)
    BY <1>0, <1>4, Taking, Pushing DEF Types
  <2>4. loop = "select" /\ loop' = "returned" /\ to_spawn' = 0
        /\ UNCHANGED <<config, cancelled, active_jobs, pc, slot_of, early, signaled>>
    BY <1>4 DEF LoopStep
  <2>5. Types' /\ Pairs' /\ CountIsExact'
    BY <1>0, <2>3, <2>4 DEF IInv, Types, Pairs, CountIsExact, At, config
  <2>6. Outstanding' \in Nat
    <3>1. Cardinality(Owing) \in Nat
      BY OwingIsVms, VmsFinite
    <3>2. Tail(done) \in Seq(Slots) /\ Len(Tail(done)) = Len(done) - 1 /\ Len(done) \in Nat
      BY <1>0, <2>1, Taking DEF Types, Receives
    <3>3. Len(Tail(done)) \in Nat
      BY <3>2, LenProperties
    <3>. QED  BY <2>2, <3>1, <3>2, <3>3 DEF Outstanding
  <2>7. Populated'
    BY <1>0, <1>1, <2>2, <2>4, <2>6 DEF config, Populated, PopulationKept
  <2>. QED  BY <2>2, <2>5, <2>7 DEF IInv
<1>5. ASSUME NEW v \in Vms, Replace(v) PROVE IInv'
  <2>1. CASE cancelled
    <3>1. Turn("returned", "early_exit", 0)
      BY <1>5, <2>1 DEF Replace
    <3>2. Outstanding' = Outstanding
      BY <1>0, <3>1, TurnQuiet, QuietAccount
    <3>3. Populated'
      BY <1>0, <1>1, <3>1, <3>2 DEF Turn, LoopStep, config
    <3>. QED  BY <1>0, <3>1, <3>3, TurnStep
  <2>2. CASE ~cancelled
    \* The slot that was returned is there.
    <3>1. LoopStep("returned", "select", 0) /\ Spawn(v)
      BY <1>0, <1>5, <2>2 DEF Replace, Turn, LoopStep, Populated
    <3>2. Outstanding' = Outstanding + 1
      BY <1>0, <3>1, SpawnSpawns, SpawnsAccount
    <3>3. Populated'
      BY <1>0, <1>1, <3>1, <3>2 DEF LoopStep, config, Populated, PopulationKept
    <3>. QED  BY <1>0, <3>1, <3>3, SpawnStep
  <2>. QED  BY <2>1, <2>2
<1>6. CASE SeeCancel \/ Drain \/ Tick \/ ListRunners \/ CapacityLeft \/ ScaleDone
  <2>1. PICK from \in {"select", "draining", "listing", "listed", "spawning"},
             to \in {"select", "draining", "listing", "listed", "spawning",
                     "idle_exit", "timeout_exit"},
             left \in 0..PoolSize :
          /\ Turn(from, to, left)
          /\ from \in {"listing", "listed", "spawning"} \/ ~ephemeral
             \/ to \in {"draining", "idle_exit", "timeout_exit"}
    <3>1. CASE CapacityLeft
      <4>1. PICK room \in Int : Turn("listed", "spawning",
                                     IF to_spawn < room THEN to_spawn ELSE room) /\ room >= 0
        BY <1>0, <3>1 DEF CapacityLeft, Types
      <4>. QED  BY <1>0, <4>1
    <3>2. CASE ListRunners
      BY <1>0, <3>2 DEF ListRunners
    <3>. QED  BY <1>0, <1>6, <3>1, <3>2 DEF SeeCancel, Drain, Tick, ScaleDone
  <2>2. Outstanding' = Outstanding
    BY <1>0, <2>1, TurnQuiet, QuietAccount
  <2>3. Populated'
    BY <1>0, <1>1, <2>1, <2>2 DEF Turn, LoopStep, config, Populated, PopulationKept
  <2>. QED  BY <2>1, <2>3, TurnStep
<1>7. ASSUME NEW v \in Vms, SpawnStandby(v) PROVE IInv'
  <2>1. LoopStep("spawning", "spawning", to_spawn - 1) /\ Spawn(v) /\ to_spawn > 0
    BY <1>7 DEF SpawnStandby
  <2>2. Outstanding' = Outstanding + 1
    BY <1>0, <2>1, SpawnSpawns, SpawnsAccount
  <2>3. Populated'
    BY <1>0, <1>1, <2>1, <2>2 DEF LoopStep, config, Populated, PopulationKept
  <2>. QED  BY <1>0, <2>1, <2>3, SpawnStep
<1>. QED  BY <1>2, <1>3, <1>4, <1>5, <1>6, <1>7 DEF LoopSteps

--------------------------------------------------------------------------------
(* The tasks                                                               *)

(* A task that changes its stage enters and leaves the counted ones, and   *)
(* no other task does.                                                     *)
Crosses(v, to) == (IF to \in Counted THEN 1 ELSE 0) - (IF pc[v] \in Counted THEN 1 ELSE 0)

LEMMA MoveCounts ==
  ASSUME Types, NEW v \in Vms, NEW to, pc' = [pc EXCEPT ![v] = to]
  PROVE  /\ Cardinality(At(Counted)') = Cardinality(At(Counted)) + Crosses(v, to)
         /\ Cardinality(At(Counted)) \in Nat
<1>1. At(Counted)' = IF to \in Counted THEN At(Counted) \cup {v} ELSE At(Counted) \ {v}
  BY DEF At, Types
<1>2. v \in At(Counted) <=> pc[v] \in Counted
  BY DEF At
<1>3. IsFiniteSet(At(Counted)) /\ Cardinality(At(Counted)) \in Nat
  BY AtIsVms, VmsFinite
<1>4. /\ Cardinality(At(Counted) \cup {v}) =
           IF v \in At(Counted) THEN Cardinality(At(Counted)) ELSE Cardinality(At(Counted)) + 1
      /\ Cardinality(At(Counted) \ {v}) =
           IF v \in At(Counted) THEN Cardinality(At(Counted)) - 1 ELSE Cardinality(At(Counted))
  BY <1>3, FS_AddElement, FS_RemoveElement
<1>. QED  BY <1>1, <1>2, <1>3, <1>4 DEF Crosses

\* The two channels and the flag are left alone, and the stage counts.
LEMMA PlainCounts ==
  ASSUME IInv, NEW v \in Vms, NEW from, NEW to \in VmStages, NEW count \in Int,
         Plain(v, from, to, count), "free" \notin from, "sending" \notin from,
         to \notin {"free", "sending"},
         count = active_jobs + Crosses(v, to)
  PROVE  Types' /\ Pairs' /\ CountIsExact'
<1>1. Types /\ Pairs /\ CountIsExact
  BY DEF IInv
<1>2. pc' = [pc EXCEPT ![v] = to] /\ active_jobs' = count
      /\ UNCHANGED <<config, cancelled, loop, to_spawn, slot_pool, slot_of, early, done, signaled>>
      /\ pc[v] \notin {"free", "sending"}
  BY DEF Plain, Goes
<1>3. Types'
  BY <1>1, <1>2 DEF Types, config
<1>4. Pairs'
  BY <1>1, <1>2 DEF Pairs, Types
<1>5. CountIsExact'
  BY <1>1, <1>2, MoveCounts DEF CountIsExact
<1>. QED  BY <1>3, <1>4, <1>5

LEMMA PlainStep ==
  ASSUME IInv, NEW v \in Vms,
         Start(v) \/ StartVm(v) \/ TokenFails(v) \/ GuestDone(v) \/ VmExits(v) \/ Uncount(v)
  PROVE  Types' /\ Pairs' /\ CountIsExact'
<1>1. active_jobs \in Int
  BY DEF IInv, Types
<1>2. /\ {"vm", "leaving", "counted", "exited"} \subseteq Counted
      /\ {"free", "spawned", "uncounted", "sending"} \cap Counted = {}
      /\ {"vm", "leaving", "counted", "exited", "uncounted"} \subseteq VmStages
      /\ Running = {"vm", "leaving"}
  BY DEF VmStages, Counted, Running
<1>3. CASE Start(v)
  <2>1. Plain(v, {"spawned"}, "counted", active_jobs + 1) /\ pc[v] = "spawned"
    BY <1>2, <1>3 DEF Start, Plain, Goes
  <2>2. Crosses(v, "counted") = 1
    BY <1>2, <2>1 DEF Crosses
  <2>3. active_jobs + 1 = active_jobs + Crosses(v, "counted") /\ active_jobs + 1 \in Int
    BY <1>1, <2>2
  <2>. QED  BY <1>1, <1>2, <2>1, <2>3, PlainCounts
<1>4. CASE StartVm(v)
  <2>1. Plain(v, {"counted"}, "vm", active_jobs) /\ pc[v] = "counted"
    BY <1>2, <1>4 DEF StartVm, Plain, Goes
  <2>2. Crosses(v, "vm") = 0
    BY <1>2, <2>1 DEF Crosses
  <2>3. active_jobs = active_jobs + Crosses(v, "vm")
    BY <1>1, <2>2
  <2>. QED  BY <1>1, <1>2, <2>1, <2>3, PlainCounts
<1>5. CASE TokenFails(v)
  <2>1. Plain(v, {"counted"}, "exited", active_jobs) /\ pc[v] = "counted"
    BY <1>2, <1>5 DEF TokenFails, Plain, Goes
  <2>2. Crosses(v, "exited") = 0
    BY <1>2, <2>1 DEF Crosses
  <2>3. active_jobs = active_jobs + Crosses(v, "exited")
    BY <1>1, <2>2
  <2>. QED  BY <1>1, <1>2, <2>1, <2>3, PlainCounts
<1>6. CASE GuestDone(v)
  <2>1. Plain(v, {"vm"}, "leaving", active_jobs) /\ pc[v] = "vm"
    BY <1>2, <1>6 DEF GuestDone, Plain, Goes
  <2>2. Crosses(v, "leaving") = 0
    BY <1>2, <2>1 DEF Crosses
  <2>3. active_jobs = active_jobs + Crosses(v, "leaving")
    BY <1>1, <2>2
  <2>. QED  BY <1>1, <1>2, <2>1, <2>3, PlainCounts
<1>7. CASE VmExits(v)
  <2>1. Plain(v, Running, "exited", active_jobs) /\ pc[v] \in {"vm", "leaving"}
    BY <1>2, <1>7 DEF VmExits, Plain, Goes
  <2>2. Crosses(v, "exited") = 0
    BY <1>2, <2>1 DEF Crosses
  <2>3. active_jobs = active_jobs + Crosses(v, "exited")
    BY <1>1, <2>2
  <2>. QED  BY <1>1, <1>2, <2>1, <2>3, PlainCounts
<1>8. CASE Uncount(v)
  <2>1. Plain(v, {"exited"}, "uncounted", active_jobs - 1) /\ pc[v] = "exited"
    BY <1>2, <1>8 DEF Uncount, Plain, Goes
  <2>2. Crosses(v, "uncounted") = -1
    BY <1>2, <2>1 DEF Crosses
  <2>3. active_jobs - 1 = active_jobs + Crosses(v, "uncounted") /\ active_jobs - 1 \in Int
    BY <1>1, <2>2
  <2>. QED  BY <1>1, <1>2, <2>1, <2>3, PlainCounts
<1>. QED  BY <1>3, <1>4, <1>5, <1>6, <1>7, <1>8

LEMMA ReportingStep ==
  ASSUME IInv, NEW v \in Vms, Finish(v) \/ Send(v)
  PROVE  Types' /\ Pairs' /\ CountIsExact'
<1>0. Types /\ Pairs /\ CountIsExact
  BY DEF IInv
<1>1. PICK to \in {"free", "sending"} :
        /\ pc' = [pc EXCEPT ![v] = to] /\ pc[v] \in {"uncounted", "sending"}
        /\ UNCHANGED <<config, cancelled, loop, to_spawn, slot_pool, slot_of, early, active_jobs>>
  <2>1. CASE Finish(v)
    BY <2>1 DEF Finish, FinishUnless, Goes
  <2>2. CASE Send(v)
    BY <2>2 DEF Send, Goes
  <2>. QED  BY <2>1, <2>2
<1>2. CountIsExact'
  <2>1. Crosses(v, to) = 0
    BY <1>1 DEF Crosses, Counted, Running
  <2>2. /\ Cardinality(At(Counted)') = Cardinality(At(Counted)) + Crosses(v, to)
        /\ Cardinality(At(Counted)) \in Nat
    BY <1>0, <1>1, MoveCounts
  <2>3. Cardinality(At(Counted)') = Cardinality(At(Counted))
    BY <2>1, <2>2
  <2>. QED  BY <1>0, <1>1, <2>3 DEF CountIsExact
<1>3. Types' /\ Pairs'
  <2>1. CASE Finish(v)
    <3>1. signaled' = [signaled EXCEPT ![v] = TRUE] /\ done' = done
          /\ pc[v] = "uncounted" /\ (to = "sending" => ~signaled[v])
          /\ pc' = [pc EXCEPT ![v] = to]
      BY <1>0, <1>1, <2>1 DEF Finish, FinishUnless, Goes, Types
    <3>2. Types'
      BY <1>0, <1>1, <3>1 DEF Types, VmStages, config
    <3>3. Pairs'
      BY <1>0, <1>1, <3>1 DEF Pairs, Types
    <3>. QED  BY <3>2, <3>3
  <2>2. CASE Send(v)
    <3>1. pc[v] = "sending" /\ pc' = [pc EXCEPT ![v] = "free"] /\ signaled' = signaled
          /\ done' = Append(done, slot_of[v]) /\ slot_of[v] \in Slots /\ signaled[v]
      BY <1>0, <2>2 DEF Send, Goes, Pairs
    <3>2. done' \in Seq(Slots)
      BY <1>0, <3>1, Pushing DEF Types
    <3>3. Types'
      BY <1>0, <1>1, <3>1, <3>2 DEF Types, VmStages, config
    <3>4. Pairs'
      BY <1>0, <1>1, <3>1 DEF Pairs, Types
    <3>. QED  BY <3>3, <3>4
  <2>. QED  BY <2>1, <2>2
<1>. QED  BY <1>2, <1>3

LEMMA VsockStep ==
  ASSUME IInv, NEW v \in Vms, EarlyStep(v) \/ Notify(v)
  PROVE  Types' /\ Pairs' /\ CountIsExact'
<1>. USE DEF EarlyGoes
<1>0. Types /\ Pairs /\ CountIsExact
  BY DEF IInv
<1>1. UNCHANGED <<config, cancelled, loop, to_spawn, slot_pool, active_jobs, pc, slot_of>>
  BY DEF EarlyStep, EarlyCloses, EarlySwap, EarlySend, Notify
<1>2. CountIsExact'
  BY <1>0, <1>1 DEF CountIsExact, At
<1>3. CASE EarlyCloses(v) \/ Notify(v)
  <2>1. done' = done /\ signaled' = signaled /\ early[v] = "waiting"
        /\ \E to \in {"closed", "notified"} : early' = [early EXCEPT ![v] = to]
    BY <1>3 DEF EarlyCloses, Notify
  <2>. QED  BY <1>0, <1>1, <1>2, <2>1 DEF Types, Pairs, config
<1>4. CASE EarlySwap(v)
  <2>1. PICK to \in {"closed", "sending"} :
          /\ early' = [early EXCEPT ![v] = to] /\ early[v] = "notified"
          /\ to = "sending" => ~signaled[v]
          /\ signaled' = [signaled EXCEPT ![v] = TRUE] /\ done' = done
    BY <1>4 DEF EarlySwap
  <2>2. Types'
    BY <1>0, <1>1, <2>1 DEF Types, config
  <2>3. Pairs'
    BY <1>0, <1>1, <2>1 DEF Types, Pairs
  <2>. QED  BY <1>2, <2>2, <2>3
<1>5. CASE EarlySend(v)
  <2>1. early[v] = "sending" /\ early' = [early EXCEPT ![v] = "closed"] /\ signaled' = signaled
        /\ done' = Append(done, slot_of[v]) /\ slot_of[v] \in Slots
    BY <1>0, <1>5 DEF EarlySend, Pairs
  <2>2. done' \in Seq(Slots)
    BY <1>0, <2>1, Pushing DEF Types
  <2>3. Types'
    BY <1>0, <1>1, <2>1, <2>2 DEF Types, config
  <2>4. Pairs'
    BY <1>0, <1>1, <2>1 DEF Pairs, Types
  <2>. QED  BY <1>2, <2>3, <2>4
<1>. QED  BY <1>3, <1>4, <1>5 DEF EarlyStep

LEMMA TaskIInv ==
  ASSUME IInv, NEW v \in Vms, TaskStep(v) \/ EarlyStep(v) \/ Notify(v)
  PROVE  IInv'
<1>1. Types' /\ Pairs' /\ CountIsExact'
  BY PlainStep, ReportingStep, VsockStep DEF TaskStep
<1>2. SlotsAccounted' /\ Outstanding' = Outstanding /\ slot_pool' = slot_pool
  <2>1. Types /\ Pairs /\ SlotsAccounted
    BY DEF IInv
  <2>2. CASE Quiet
    BY <2>1, <2>2, QuietAccount DEF Quiet
  <2>3. CASE Reports(v)
    BY <2>1, <2>3, ReportsAccount DEF Reports
  <2>. QED  BY <2>1, <2>2, <2>3, TaskEffect
<1>3. UNCHANGED <<loop, to_spawn, ephemeral>>
  BY DEF TaskStep, EarlyStep, Notify, Start, StartVm, TokenFails, GuestDone, VmExits,
         Uncount, Finish, FinishUnless, Send, EarlyCloses, EarlySwap, EarlySend, Plain,
         Goes, EarlyGoes, config
<1>4. Population' = Population
  <2>1. Population = Outstanding + (IF loop = "returned" THEN 1 ELSE 0)
    BY DEF Population, Outstanding
  <2>2. Population' = Outstanding' + (IF loop' = "returned" THEN 1 ELSE 0)
    BY DEF Population, Outstanding
  <2>. QED  BY <1>2, <1>3, <2>1, <2>2
<1>5. Populated'
  BY <1>2, <1>3, <1>4 DEF IInv, Populated, PopulationKept
<1>. QED  BY <1>1, <1>2, <1>5 DEF IInv

--------------------------------------------------------------------------------

LEMMA InitIInv == Init => IInv
<1>. SUFFICES ASSUME Init PROVE IInv
  OBVIOUS
<1>1. /\ slot_pool \in Seq(Slots) /\ Len(slot_pool) = MaxJobs
      /\ DOMAIN slot_pool = 1..MaxJobs
      /\ \A i \in 1..MaxJobs : slot_pool[i] = i - 1
  BY WarmAssumption DEF Init, Slots
<1>2. Types
  <2>1. ephemeral \in BOOLEAN /\ vsock \in BOOLEAN /\ cancelled \in BOOLEAN
    BY DEF Init
  <2>2. /\ loop = "starting" /\ to_spawn \in 0..PoolSize /\ active_jobs = 0
        /\ done \in Seq(Slots)
    BY WarmAssumption DEF Init
  <2>3. /\ pc \in [Vms -> VmStages] /\ slot_of \in [Vms -> Slots \cup {NoSlot}]
        /\ early \in [Vms -> {"closed", "waiting", "notified", "sending"}]
        /\ signaled \in [Vms -> BOOLEAN]
    BY DEF Init, VmStages
  <2>. QED  BY <1>1, <2>1, <2>2, <2>3 DEF Types
<1>3. Pairs
  BY DEF Init, Pairs
<1>4. Owing = {} /\ At(Counted) = {}
  BY DEF Init, Owing, At, Counted, Running
<1>5. Cardinality(Owing) = 0 /\ Cardinality(At(Counted)) = 0 /\ Len(done) = 0
  BY <1>4, FS_EmptySet DEF Init
<1>6. SlotsAccounted
  <2>1. Len(slot_pool) + Len(done) + Cardinality(Owing) = MaxJobs
    BY <1>1, <1>5, WarmAssumption
  <2>2. Slots = {slot_pool[i] : i \in DOMAIN slot_pool}
    <3>1. \A s \in Slots : s + 1 \in 1..MaxJobs /\ slot_pool[s + 1] = s
      BY <1>1, WarmAssumption DEF Slots
    <3>2. \A i \in 1..MaxJobs : slot_pool[i] \in Slots
      BY <1>1, WarmAssumption DEF Slots
    <3>. QED  BY <1>1, <3>1, <3>2
  <2>3. {done[i] : i \in DOMAIN done} = {} /\ {slot_of[v] : v \in Owing} = {}
    BY <1>4 DEF Init
  <2>. QED  BY <2>1, <2>2, <2>3 DEF SlotsAccounted
<1>7. CountIsExact
  BY <1>5 DEF Init, CountIsExact
<1>8. Populated
  <2>1. Population = 0 /\ loop = "starting" /\ to_spawn = PoolSize
    BY <1>5 DEF Init, Population
  <2>. QED  BY <2>1, WarmAssumption DEF Populated, PopulationKept
<1>. QED  BY <1>2, <1>3, <1>6, <1>7, <1>8 DEF IInv

LEMMA NextIInv == IInv /\ [Next]_vars => IInv'
<1>. SUFFICES ASSUME IInv, [Next]_vars PROVE IInv'
  OBVIOUS
<1>1. CASE Signal \/ ProcessGone \/ UNCHANGED vars
  <2>1. UNCHANGED <<config, loop, to_spawn, slot_pool, done, active_jobs, pc, slot_of,
                    early, signaled>> /\ cancelled' \in BOOLEAN
    BY <1>1 DEF Signal, ProcessGone, vars, config, IInv, Types
  <2>2. Types' /\ Pairs'
    BY <2>1 DEF IInv, Types, Pairs, config
  <2>3. Owing' = Owing /\ At(Counted)' = At(Counted)
    BY <2>1 DEF Owing, At
  <2>4. SlotsAccounted' /\ CountIsExact'
    BY <2>1, <2>3 DEF IInv, SlotsAccounted, CountIsExact
  <2>5. Populated'
    BY <2>1, <2>3 DEF IInv, Populated, PopulationKept, Population, config
  <2>. QED  BY <2>2, <2>4, <2>5 DEF IInv
<1>2. CASE LoopSteps \/ SeeCancel
  BY <1>2, LoopIInv
<1>3. ASSUME NEW v \in Vms, TaskStep(v) \/ EarlyStep(v) \/ Notify(v) PROVE IInv'
  BY <1>3, TaskIInv
<1>. QED  BY <1>1, <1>2, <1>3 DEF Next

LEMMA IInvIsInvariant == Spec => []IInv
  BY InitIInv, NextIInv, PTL DEF Spec

(* The types, and with them that no path of a VM task counts active_jobs    *)
(* down twice: it is never negative.                                       *)
THEOREM TypeCorrect == Spec => []TypeOK
<1>1. IInv => active_jobs \in Nat
  BY AtIsVms, VmsFinite DEF IInv, CountIsExact
<1>2. IInv => TypeOK
  BY <1>1 DEF IInv, Types, TypeOK, VmStages
<1>. QED  BY <1>2, IInvIsInvariant, PTL

(* Whichever of the two tasks of a VM reports, and whatever fails, the slot *)
(* is reported once.                                                       *)
THEOREM SlotsAreAccounted == Spec => []SlotsAccounted
<1>1. IInv => SlotsAccounted
  BY DEF IInv
<1>. QED  BY <1>1, IInvIsInvariant, PTL

\* active_jobs is exact, for any number of VMs and on every path.
THEOREM CountExact == Spec => []CountIsExact
<1>1. IInv => CountIsExact
  BY DEF IInv
<1>. QED  BY <1>1, IInvIsInvariant, PTL

(* A pool that fits the slots is kept at its size.  (A pool that does not   *)
(* fit panics at its start-up, and then has fewer VMs.)                    *)
THEOREM PopulationIsKept == PoolSize <= MaxJobs => (Spec => []PopulationKept)
<1>. SUFFICES ASSUME PoolSize <= MaxJobs PROVE Spec => []PopulationKept
  OBVIOUS
<1>1. IInv => PopulationKept
  BY DEF IInv, Populated
<1>. QED  BY <1>1, IInvIsInvariant, PTL

--------------------------------------------------------------------------------
(* The warm pool implements SlotLease, up to the report                    *)

(* The slot of a VM whose report is still to come.  (With VSOCK the report  *)
(* may come before the VM is down, see NeverSharedWithoutVsock.)           *)
slotHeld == [v \in Vms |-> IF v \in Owing THEN slot_of[v] ELSE NoSlot]

Lease == INSTANCE SlotLeaseProofs WITH Holders <- Vms, held <- slotHeld
LeaseSpec == Lease!Spec

\* Nothing but finite images of finite sets is counted.
LEMMA ImageSize ==
  ASSUME NEW S, IsFiniteSet(S), NEW R, NEW f \in Surjection(S, R)
  PROVE  IsFiniteSet(R) /\ Cardinality(R) \in Nat /\ Cardinality(R) <= Cardinality(S)
  BY FS_Surjection, FS_CardinalityType

\* A sequence has no more slots than entries.
LEMMA InSize ==
  ASSUME NEW seq \in Seq(Slots)
  PROVE  /\ IsFiniteSet(In(seq)) /\ Cardinality(In(seq)) \in Nat
         /\ Cardinality(In(seq)) <= Len(seq) /\ Len(seq) \in Nat
<1>1. Len(seq) \in Nat /\ DOMAIN seq = 1..Len(seq)
  BY LenProperties
<1>2. IsFiniteSet(1..Len(seq)) /\ Cardinality(1..Len(seq)) = Len(seq)
  <2>1. IsFiniteSet(1..Len(seq)) /\ (IF 1 > Len(seq) THEN Cardinality(1..Len(seq)) = 0
                                    ELSE Cardinality(1..Len(seq)) = Len(seq) - 1 + 1)
    BY <1>1, FS_Interval
  <2>. QED  BY <1>1, <2>1
<1>3. [i \in DOMAIN seq |-> seq[i]] \in Surjection(DOMAIN seq, In(seq))
  BY DEF Surjection, In
<1>4. /\ IsFiniteSet(In(seq)) /\ Cardinality(In(seq)) \in Nat
      /\ Cardinality(In(seq)) <= Cardinality(DOMAIN seq)
  BY <1>1, <1>2, <1>3, ImageSize
<1>. QED  BY <1>1, <1>2, <1>4

\* Two finite sets together have no more elements than one after the other.
LEMMA UnionSize ==
  ASSUME NEW S, NEW R, IsFiniteSet(S), IsFiniteSet(R)
  PROVE  /\ IsFiniteSet(S \cup R) /\ Cardinality(S \cup R) \in Nat
         /\ Cardinality(S \cup R) <= Cardinality(S) + Cardinality(R)
<1>1. /\ IsFiniteSet(S \cup R)
      /\ Cardinality(S \cup R) = Cardinality(S) + Cardinality(R) - Cardinality(S \cap R)
  BY FS_Union
<1>2. /\ Cardinality(S \cap R) \in Nat /\ Cardinality(S) \in Nat
      /\ Cardinality(R) \in Nat /\ Cardinality(S \cup R) \in Nat
  BY <1>1, FS_Intersection, FS_CardinalityType
<1>. QED  BY <1>1, <1>2

LEMMA SlotsSize == IsFiniteSet(Slots) /\ Cardinality(Slots) = MaxJobs /\ MaxJobs \in Nat
<1>1. MaxJobs \in Nat \ {0}
  BY WarmAssumption
<1>2. IsFiniteSet(0..(MaxJobs - 1)) /\ (IF 0 > MaxJobs - 1 THEN Cardinality(0..(MaxJobs - 1)) = 0
                                       ELSE Cardinality(0..(MaxJobs - 1)) = (MaxJobs - 1) - 0 + 1)
  BY <1>1, FS_Interval
<1>. QED  BY <1>1, <1>2 DEF Slots

(* The slots are accounted for only if no two places have the same one:     *)
(* the last of the pool is with no VM that still owes a report.            *)
LEMMA LastIsFree ==
  ASSUME Types, SlotsAccounted, slot_pool # <<>>, NEW v \in Owing
  PROVE  slot_of[v] # slot_pool[Len(slot_pool)]
<1>. DEFINE s == slot_pool[Len(slot_pool)]
            rest == SubSeq(slot_pool, 1, Len(slot_pool) - 1)
            Owed == {slot_of[u] : u \in Owing}
<1>1. /\ rest \in Seq(Slots) /\ Len(rest) = Len(slot_pool) - 1
      /\ In(slot_pool) = In(rest) \cup {s} /\ Len(slot_pool) \in Nat
  BY Popping DEF Types
<1>2. /\ Len(slot_pool) + Len(done) + Cardinality(Owing) = MaxJobs
      /\ Slots = In(slot_pool) \cup In(done) \cup Owed
  BY DEF SlotsAccounted, In
<1>. HIDE DEF s, rest
<1>3. SUFFICES ASSUME slot_of[v] = s PROVE FALSE
  BY DEF s
<1>4. s \in Owed
  BY <1>3
<1>5. IsFiniteSet(Owing) /\ Cardinality(Owing) \in Nat
  BY OwingIsVms, VmsFinite
<1>6. IsFiniteSet(Owed) /\ Cardinality(Owed) \in Nat /\ Cardinality(Owed) <= Cardinality(Owing)
  <2>1. [u \in Owing |-> slot_of[u]] \in Surjection(Owing, Owed)
    BY DEF Surjection
  <2>. QED  BY <1>5, <2>1, ImageSize
<1>. HIDE DEF Owed
<1>7. Slots = (In(rest) \cup In(done)) \cup Owed
  BY <1>1, <1>2, <1>4
<1>8. /\ IsFiniteSet(In(rest)) /\ Cardinality(In(rest)) \in Nat
      /\ Cardinality(In(rest)) <= Len(rest) /\ Len(rest) \in Nat
  BY <1>1, InSize
<1>9. /\ IsFiniteSet(In(done)) /\ Cardinality(In(done)) \in Nat
      /\ Cardinality(In(done)) <= Len(done) /\ Len(done) \in Nat
  BY InSize DEF Types
<1>. DEFINE L == In(rest) \cup In(done)
<1>10. /\ IsFiniteSet(L) /\ Cardinality(L) \in Nat
       /\ Cardinality(L) <= Cardinality(In(rest)) + Cardinality(In(done))
  BY <1>8, <1>9, UnionSize
<1>11. Slots = L \cup Owed
  BY <1>7
<1>. HIDE DEF L
<1>12. Cardinality(Slots) <= Cardinality(L) + Cardinality(Owed)
  BY <1>6, <1>10, <1>11, UnionSize
<1>. QED  BY <1>1, <1>2, <1>5, <1>6, <1>8, <1>9, <1>10, <1>12, SlotsSize

\* Each effect on the slots is a step of SlotLease or none.
LEMMA QuietHolds ==
  ASSUME Quiet
  PROVE  UNCHANGED slotHeld
  BY DEF Quiet, slotHeld

LEMMA SpawnsLease ==
  ASSUME IInv, NEW v \in Vms, Spawns(v)
  PROVE  \E s \in Slots : Lease!Lease(v, s)
<1>. DEFINE s == slot_pool[Len(slot_pool)]
<1>1. s \in Slots /\ s # NoSlot
  BY Popping, WarmAssumption DEF IInv, Types, Spawns
<1>2. \A w \in Owing : slot_of[w] # s
  BY LastIsFree DEF IInv, Spawns
<1>3. /\ v \notin Owing /\ Owing' = Owing \cup {v} /\ slot_of'[v] = s
      /\ \A u \in Owing : slot_of'[u] = slot_of[u]
  BY DEF Spawns
<1>. HIDE DEF s
<1>4. slotHeld[v] = NoSlot /\ \A w \in Vms : slotHeld[w] # s
  BY <1>1, <1>2, <1>3 DEF slotHeld
<1>5. slotHeld' = [slotHeld EXCEPT ![v] = s]
  BY <1>3 DEF slotHeld
<1>. QED  BY <1>1, <1>4, <1>5 DEF Lease!Lease, Lease!Unleased

LEMMA ReceivesHolds ==
  ASSUME Receives
  PROVE  UNCHANGED slotHeld
  BY DEF Receives, slotHeld

LEMMA ReportsReturn ==
  ASSUME NEW v \in Vms, Reports(v)
  PROVE  Lease!Return(v)
<1>1. slotHeld[v] # NoSlot
  BY WarmAssumption DEF Reports, slotHeld
<1>2. slotHeld' = [slotHeld EXCEPT ![v] = NoSlot]
  BY DEF Reports, slotHeld
<1>. QED  BY <1>1, <1>2 DEF Lease!Return

LEMMA LoopEffect ==
  ASSUME Types, LoopSteps \/ SeeCancel
  PROVE  Quiet \/ Receives \/ \E v \in Vms : Spawns(v)
<1>1. ASSUME NEW v \in Vms, SpawnInitial(v)
      PROVE  Quiet \/ Spawns(v)
  BY <1>1, TurnQuiet, SpawnSpawns DEF SpawnInitial
<1>2. ASSUME NEW v \in Vms, Replace(v)
      PROVE  Quiet \/ Spawns(v)
  BY <1>2, TurnQuiet, SpawnSpawns DEF Replace
<1>3. ASSUME NEW v \in Vms, SpawnStandby(v)
      PROVE  Spawns(v)
  BY <1>3, SpawnSpawns DEF SpawnStandby
<1>4. CASE Receive
  <2>1. Owing' = Owing
    BY <1>4 DEF Receive, Serve, Owing
  <2>. QED  BY <1>4, <2>1 DEF Receive, Serve, Receives
<1>5. CASE StartUpDone \/ Drain \/ Tick \/ ListRunners \/ SeeCancel
  BY <1>5, TurnQuiet DEF StartUpDone, Drain, Tick, ListRunners, SeeCancel
<1>6. CASE CapacityLeft \/ ScaleDone
  BY <1>6, TurnQuiet DEF CapacityLeft, ScaleDone
<1>. QED  BY <1>1, <1>2, <1>3, <1>4, <1>5, <1>6 DEF LoopSteps

LEMMA LeaseStep == IInv /\ [Next]_vars => [Lease!Next]_slotHeld
<1>. SUFFICES ASSUME IInv, [Next]_vars PROVE Lease!Next \/ UNCHANGED slotHeld
  BY Zenon
<1>1. CASE Signal \/ ProcessGone \/ UNCHANGED vars
  BY <1>1 DEF Signal, ProcessGone, vars, slotHeld, Owing
<1>2. ASSUME NEW v \in Vms, Spawns(v) PROVE Lease!Next
  BY <1>2, SpawnsLease DEF Lease!Next
<1>3. ASSUME NEW v \in Vms, Reports(v) PROVE Lease!Next
  BY <1>3, ReportsReturn DEF Lease!Next
<1>4. CASE LoopSteps \/ SeeCancel
  BY <1>2, <1>4, LoopEffect, QuietHolds, ReceivesHolds DEF IInv
<1>5. ASSUME NEW v \in Vms, TaskStep(v) \/ EarlyStep(v) \/ Notify(v)
      PROVE  Lease!Next \/ UNCHANGED slotHeld
  BY <1>3, <1>5, TaskEffect, QuietHolds DEF IInv
<1>. QED  BY <1>1, <1>4, <1>5 DEF Next

(* A slot is popped for one VM task at a time and comes back with one      *)
(* report, whichever of the two tasks of the VM makes it.                  *)
THEOREM ImplementsLease == Spec => LeaseSpec
<1>1. Init => Lease!Init
  BY DEF Init, Lease!Init, slotHeld, Owing
<1>. QED  BY <1>1, LeaseStep, IInvIsInvariant, PTL DEF Spec, LeaseSpec, Lease!Spec

(* Without VSOCK nobody reports before the end of the VM.                  *)
Untold ==
  ~vsock => \A v \in Vms : /\ early[v] \in {"closed", "waiting"}
                           /\ signaled[v] => pc[v] \in {"free", "sending"}

\* A step of the loop: nothing of this moves, or a new VM starts untold.
LEMMA LoopUntold ==
  ASSUME Types, Untold, LoopSteps \/ SeeCancel
  PROVE  Untold'
<1>1. ASSUME NEW from, NEW to, NEW left, Turn(from, to, left)
      PROVE  Untold'
  BY <1>1 DEF Turn, LoopStep, config, Untold
<1>2. ASSUME NEW v \in Vms, Spawn(v), NEW from, NEW to, NEW left, LoopStep(from, to, left)
      PROVE  Untold'
  <2>1. vsock' = vsock
    BY <1>2 DEF LoopStep, config
  <2>2. /\ early' = [early EXCEPT ![v] = "waiting"]
        /\ signaled' = [signaled EXCEPT ![v] = FALSE]
        /\ pc' = [pc EXCEPT ![v] = "spawned"]
    BY <1>2 DEF Spawn, SpawnWithFlag
  <2>. QED  BY <2>1, <2>2 DEF Untold, Types
<1>3. CASE Receive
  BY <1>3 DEF Receive, Serve, LoopStep, config, Untold
<1>4. CASE \E v \in Vms : SpawnInitial(v) \/ Replace(v) \/ SpawnStandby(v)
  BY <1>1, <1>2, <1>4 DEF SpawnInitial, Replace, SpawnStandby
<1>5. CASE StartUpDone \/ Drain \/ Tick \/ ListRunners \/ SeeCancel
  BY <1>1, <1>5 DEF StartUpDone, Drain, Tick, ListRunners, SeeCancel
<1>6. CASE CapacityLeft \/ ScaleDone
  BY <1>1, <1>6 DEF CapacityLeft, ScaleDone
<1>. QED  BY <1>3, <1>4, <1>5, <1>6 DEF LoopSteps

LEMMA TaskUntold ==
  ASSUME Types, Untold, NEW v \in Vms, TaskStep(v) \/ EarlyStep(v) \/ Notify(v)
  PROVE  Untold'
<1>. USE DEF Goes, EarlyGoes, Plain, config
<1>1. CASE Start(v) \/ StartVm(v) \/ TokenFails(v) \/ GuestDone(v) \/ VmExits(v) \/ Uncount(v)
  <2>1. /\ pc[v] \notin {"free", "sending"}
        /\ \E to \in VmStages : pc' = [pc EXCEPT ![v] = to]
        /\ UNCHANGED <<vsock, early, signaled>>
    BY <1>1 DEF Start, StartVm, TokenFails, GuestDone, VmExits, Uncount, VmStages,
                Counted, Running
  <2>. QED  BY <2>1 DEF Untold, Types
<1>2. CASE Finish(v)
  <2>1. /\ signaled' = [signaled EXCEPT ![v] = TRUE]
        /\ \E to \in {"free", "sending"} : pc' = [pc EXCEPT ![v] = to]
        /\ UNCHANGED <<vsock, early>>
    BY <1>2 DEF Finish, FinishUnless
  <2>. QED  BY <2>1 DEF Untold, Types
<1>3. CASE Send(v)
  <2>1. pc' = [pc EXCEPT ![v] = "free"] /\ UNCHANGED <<vsock, early, signaled>>
    BY <1>3 DEF Send
  <2>. QED  BY <2>1 DEF Untold, Types
<1>4. CASE EarlyCloses(v)
  <2>1. early' = [early EXCEPT ![v] = "closed"] /\ UNCHANGED <<vsock, pc, signaled>>
    BY <1>4 DEF EarlyCloses
  <2>. QED  BY <2>1 DEF Untold, Types
<1>5. CASE EarlySwap(v) \/ EarlySend(v) \/ Notify(v)
  <2>1. vsock' = vsock /\ (vsock \/ early[v] \in {"notified", "sending"})
    BY <1>5 DEF EarlySwap, EarlySend, Notify
  <2>. QED  BY <2>1 DEF Untold
<1>. QED  BY <1>1, <1>2, <1>3, <1>4, <1>5 DEF TaskStep, EarlyStep

LEMMA UntoldStep == IInv /\ Untold /\ [Next]_vars => Untold'
<1>. SUFFICES ASSUME IInv, Untold, [Next]_vars PROVE Untold'
  OBVIOUS
<1>1. CASE Signal \/ ProcessGone \/ UNCHANGED vars
  BY <1>1 DEF Signal, ProcessGone, vars, config, Untold
<1>. QED  BY <1>1, LoopUntold, TaskUntold DEF Next, IInv

(* Two VMs are up on one slot: on one TAP device, one subnet, one image.   *)
OnOneSlot(v, w) ==
  v # w /\ pc[v] \in Running /\ pc[w] \in Running /\ slot_of[v] = slot_of[w]

(* Without VSOCK the lease lasts as long as the VM, and so no two VMs are   *)
(* ever up on one slot.  With VSOCK this is not so: MCMicroVmTap shows     *)
(* what a VM whose slot was reported early loses.                          *)
THEOREM NeverSharedWithoutVsock ==
  Spec => [](~vsock => \A v, w \in Vms : ~OnOneSlot(v, w))
<1>1. Init => Untold
  BY DEF Init, Untold
<1>2. IInv /\ Untold /\ Lease!Exclusive
        => (~vsock => \A v, w \in Vms : ~OnOneSlot(v, w))
  <2>. SUFFICES ASSUME IInv, Untold, Lease!Exclusive, ~vsock,
                       NEW v \in Vms, NEW w \in Vms, OnOneSlot(v, w)
                PROVE  FALSE
    OBVIOUS
  <2>1. v \in Owing /\ w \in Owing
    BY DEF Untold, OnOneSlot, Owing, Running, IInv, Types
  <2>2. slot_of[v] \in Slots
    BY DEF OnOneSlot, IInv, Pairs, Running
  <2>3. slotHeld[v] = slotHeld[w] /\ slotHeld[v] # NoSlot
    BY <2>1, <2>2, WarmAssumption DEF slotHeld, OnOneSlot
  <2>. QED  BY <2>3 DEF Lease!Exclusive, OnOneSlot
<1>3. Spec => []Untold
  BY <1>1, IInvIsInvariant, UntoldStep, PTL DEF Spec
<1>4. Spec => []Lease!Exclusive
  BY ImplementsLease, Lease!NeverShared, PTL DEF LeaseSpec
<1>. QED  BY <1>2, <1>3, <1>4, IInvIsInvariant, PTL
================================================================================
