---------------------------- MODULE NamedPoolProofs ----------------------------
(***************************************************************************)
(* Theorems about NamedPool, for every list of pools, number of slots,     *)
(* repositories, scales and finite set of VM tasks.                        *)
(***************************************************************************)
EXTENDS NamedPool, FiniteSetTheorems, SequenceTheorems, WellFoundedInduction, TLAPS

--------------------------------------------------------------------------------
(* How run_pools shares the slots out                                      *)

N == Len(PoolSizes)

LEMMA Sizes == N \in Nat /\ DOMAIN PoolSizes = 1..N /\ \A p \in 1..N : PoolSizes[p] \in Nat \ {0}
  BY PoolAssumption DEF N

(* Induction, without an operator to instantiate: a counterexample has a   *)
(* least one.                                                              *)
LEMMA Least ==
  ASSUME NEW S \in SUBSET Nat, S # {}
  PROVE  \E m \in S : \A k \in S : m <= k
<1>1. PICK m \in S : \A k \in S : <<k, m>> \notin OpToRel(<, Nat)
  BY WFMin, NatLessThanWellFounded, Zenon
<1>2. \A k \in S : ~(k < m)
  BY <1>1, Zenon DEF OpToRel
<1>. QED  BY <1>2

\* The sums of the first pool sizes, up to n.
Sums(n) ==
  {g \in [0..n -> Nat] : g[0] = 0 /\ \A p \in 1..n : g[p] = g[p - 1] + PoolSizes[p]}

LEMMA SumsExist == Sums(N) # {}
<1>. DEFINE Bad == {n \in 0..N : Sums(n) = {}}
<1>1. Bad \in SUBSET Nat
  BY Sizes
<1>. SUFFICES ASSUME Bad # {} PROVE FALSE
  BY Sizes
<1>. HIDE DEF Bad
<1>2. PICK m \in Bad : \A k \in Bad : m <= k
  BY <1>1, Least
<1>. USE DEF Bad
<1>3. m # 0
  <2>1. [p \in 0..0 |-> 0] \in Sums(0)
    BY DEF Sums
  <2>. QED  BY <2>1
<1>4. m - 1 \in 0..N /\ m - 1 \notin Bad
  BY <1>2, <1>3, Sizes
<1>5. PICK g \in Sums(m - 1) : TRUE
  BY <1>4
<1>. DEFINE h == [p \in 0..m |-> IF p = m THEN g[m - 1] + PoolSizes[m] ELSE g[p]]
<1>6. h \in Sums(m)
  <2>1. /\ g \in [0..(m - 1) -> Nat] /\ g[0] = 0
        /\ \A p \in 1..(m - 1) : g[p] = g[p - 1] + PoolSizes[p]
    BY <1>5 DEF Sums
  <2>2. h \in [0..m -> Nat]
    BY <1>3, <2>1, Sizes
  <2>3. h[0] = 0
    BY <1>3, <2>1, Sizes
  <2>4. ASSUME NEW p \in 1..m PROVE h[p] = h[p - 1] + PoolSizes[p]
    <3>1. p - 1 \in 0..m /\ p - 1 # m /\ p \in 0..m
      BY <1>4, Sizes
    <3>2. h[p - 1] = g[p - 1]
      BY <3>1
    <3>3. CASE p = m
      BY <3>1, <3>2, <3>3
    <3>4. CASE p # m
      <4>1. p \in 1..(m - 1) /\ h[p] = g[p]
        BY <1>4, <3>1, <3>4
      <4>. QED  BY <2>1, <3>2, <4>1
    <3>. QED  BY <3>3, <3>4
  <2>. QED  BY <2>2, <2>3, <2>4 DEF Sums
<1>. QED  BY <1>6

LEMMA TakenIsSum ==
  /\ \A p \in 0..N : Taken[p] \in Nat
  /\ \A p \in 1..N : Taken[p] = Taken[p - 1] + PoolSizes[p]
<1>. DEFINE Def(f) == [p \in 0..Len(PoolSizes) |-> IF p = 0 THEN 0 ELSE f[p - 1] + PoolSizes[p]]
<1>1. PICK g \in Sums(N) : TRUE
  BY SumsExist
<1>2. g = Def(g)
  BY <1>1, Sizes DEF Sums, N
<1>3. Taken = CHOOSE f : f = Def(f)
  BY Zenon DEF Taken
<1>4. Taken = Def(Taken)
  BY <1>2, <1>3, Zenon
<1>5. Taken[0] = 0 /\ \A p \in 1..N : Taken[p] = Taken[p - 1] + PoolSizes[p]
  BY <1>4, Sizes DEF N
<1>6. \A p \in 0..N : Taken[p] \in Nat
  <2>. DEFINE Bad == {p \in 0..N : Taken[p] \notin Nat}
  <2>. SUFFICES ASSUME Bad # {} PROVE FALSE
    OBVIOUS
  <2>1. Bad \in SUBSET Nat
    BY Sizes
  <2>. HIDE DEF Bad
  <2>2. PICK m \in Bad : \A k \in Bad : m <= k
    BY <2>1, Least
  <2>. USE DEF Bad
  <2>3. m \in 1..N /\ m - 1 \in 0..N /\ m - 1 \notin Bad
    BY <1>5, <2>2, Sizes
  <2>. QED  BY <1>5, <2>3, Sizes
<1>. QED  BY <1>5, <1>6

\* Later pools find no fewer slots taken.
LEMMA TakenGrows ==
  ASSUME NEW p \in 0..N, NEW q \in 0..N, p <= q
  PROVE  Taken[p] <= Taken[q]
<1>. DEFINE Bad == {k \in 0..N : p <= k /\ ~(Taken[p] <= Taken[k])}
<1>. SUFFICES ASSUME Bad # {} PROVE FALSE
  OBVIOUS
<1>1. Bad \in SUBSET Nat
  BY Sizes
<1>. HIDE DEF Bad
<1>2. PICK m \in Bad : \A k \in Bad : m <= k
  BY <1>1, Least
<1>. USE DEF Bad
<1>3. m # p
  BY TakenIsSum
<1>4. m \in 1..N /\ m - 1 \in 0..N /\ p <= m - 1 /\ m - 1 \notin Bad
  BY <1>2, <1>3, Sizes
<1>. QED  BY <1>4, TakenIsSum, Sizes

(* The slots of a pool are different slots of the host, no more than it    *)
(* wants.                                                                  *)
LEMMA SlotsOfPool ==
  ASSUME NEW p \in 1..N
  PROVE  /\ Given(p) \in 0..PoolSizes[p]
         /\ Taken[p - 1] \in Nat
         /\ \A i \in 1..Given(p) : Taken[p - 1] + i <= Taken[p] /\ Taken[p - 1] + i <= MaxJobs
         /\ DOMAIN SlotsOf(p) = 1..Given(p)
         /\ \A i \in 1..Given(p) : SlotsOf(p)[i] = MaxJobs - Taken[p - 1] - i
         /\ \A i \in 1..Given(p) : SlotsOf(p)[i] \in 0..(MaxJobs - 1)
         /\ \A i, k \in 1..Given(p) : SlotsOf(p)[i] = SlotsOf(p)[k] => i = k
<1>1. /\ Taken[p - 1] \in Nat /\ Taken[p] \in Nat /\ Taken[p] = Taken[p - 1] + PoolSizes[p]
      /\ PoolSizes[p] \in Nat /\ MaxJobs \in Nat
  BY TakenIsSum, Sizes, PoolAssumption
<1>2. Given(p) \in 0..PoolSizes[p]
  BY <1>1 DEF Given
<1>3. \A i \in 1..Given(p) : Taken[p - 1] + i <= Taken[p] /\ Taken[p - 1] + i <= MaxJobs
  BY <1>1 DEF Given
<1>4. DOMAIN SlotsOf(p) = 1..Given(p) /\ \A i \in 1..Given(p) : SlotsOf(p)[i] = MaxJobs - Taken[p - 1] - i
  BY DEF SlotsOf
<1>5. \A i \in 1..Given(p) : i \in Nat \ {0}
  BY <1>1, <1>2
<1>6. ASSUME NEW i \in 1..Given(p)
      PROVE  SlotsOf(p)[i] \in 0..(MaxJobs - 1)
  <2>1. Taken[p - 1] + i <= MaxJobs /\ SlotsOf(p)[i] = MaxJobs - Taken[p - 1] - i /\ i \in Nat \ {0}
    BY <1>3, <1>4, <1>5
  <2>. QED  BY <1>1, <2>1
<1>7. ASSUME NEW i \in 1..Given(p), NEW k \in 1..Given(p), SlotsOf(p)[i] = SlotsOf(p)[k]
      PROVE  i = k
  <2>1. MaxJobs - Taken[p - 1] - i = MaxJobs - Taken[p - 1] - k /\ i \in Nat /\ k \in Nat
    BY <1>4, <1>5, <1>7
  <2>. QED  BY <1>1, <2>1
<1>. QED  BY <1>1, <1>2, <1>3, <1>4, <1>6, <1>7

(* run_pools gives different pools different slots, for any number of      *)
(* pools and slots, also when there are fewer slots than the pools want:   *)
(* so the leases of one pool are leases of the host's slots.               *)
THEOREM PoolsShareNothing ==
  \A p, q \in DOMAIN PoolSizes : p # q =>
    {SlotsOf(p)[i] : i \in DOMAIN SlotsOf(p)} \cap {SlotsOf(q)[i] : i \in DOMAIN SlotsOf(q)} = {}
<1>1. ASSUME NEW p \in 1..N, NEW q \in 1..N, p < q,
             NEW i \in 1..Given(p), NEW k \in 1..Given(q)
      PROVE  SlotsOf(p)[i] # SlotsOf(q)[k]
  <2>1. Taken[p] \in Nat /\ Taken[p - 1] \in Nat /\ Taken[q - 1] \in Nat /\ MaxJobs \in Nat
    BY <1>1, TakenIsSum, Sizes, PoolAssumption
  <2>2. Taken[p] <= Taken[q - 1]
    BY <1>1, TakenGrows, Sizes
  <2>3. Taken[p - 1] + i <= Taken[p] /\ SlotsOf(p)[i] = MaxJobs - Taken[p - 1] - i
    BY SlotsOfPool
  <2>4. SlotsOf(q)[k] = MaxJobs - Taken[q - 1] - k
    BY SlotsOfPool
  <2>5. i \in Nat \ {0} /\ k \in Nat \ {0}
    OBVIOUS
  <2>. QED  BY <2>1, <2>2, <2>3, <2>4, <2>5
<1>2. \A p \in 1..N : DOMAIN SlotsOf(p) = 1..Given(p)
  BY SlotsOfPool
<1>3. SUFFICES ASSUME NEW p \in 1..N, NEW q \in 1..N, p # q,
                      NEW i \in 1..Given(p), NEW k \in 1..Given(q)
               PROVE  SlotsOf(p)[i] # SlotsOf(q)[k]
  BY <1>2, Sizes
<1>. QED  BY <1>1, <1>3, Sizes

--------------------------------------------------------------------------------
(* The inductive invariant                                                 *)

VmStages == {"free", "spawned", "sending"} \cup Counted

\* TypeOK, before anything is known about the counter.
Types ==
  /\ cancelled \in BOOLEAN /\ paused \in BOOLEAN
  /\ max_ready \in Nat
  /\ loop \in {"starting", "select", "returned", "replacing", "draining",
               "idle_exit", "timeout_exit", "early_exit"}
  /\ started \in 0..MinReady
  /\ slot_pool \in Seq(Slots)
  /\ done \in Seq(Slots \X RepoSet)
  /\ repo \in RepoSet
  /\ active_count \in Int
  /\ pc \in [Vms -> VmStages]
  /\ slot_of \in [Vms -> Slots \cup {NoSlot}]
  /\ repo_of \in [Vms -> RepoSet]

(* The accounts imply one another's steps: a report is only made with a    *)
(* slot in hand, and the counter is only moved by a counted task.          *)
IInv == Types /\ SlotsPartitioned /\ CountIsExact

\* The parts of SlotsPartitioned, by name.
Holders == {v \in Vms : slot_of[v] # NoSlot}
In(seq) == {seq[i] : i \in DOMAIN seq}
InDone == {done[i][1] : i \in DOMAIN done}
Held == {slot_of[v] : v \in Holders}

AllThere ==
  /\ Len(slot_pool) + Len(done) + Cardinality(Holders) = Cardinality(Slots)
  /\ Slots = In(slot_pool) \cup InDone \cup Held

BusyHolds == \A v \in Vms : slot_of[v] # NoSlot <=> pc[v] # "free"

LEMMA PartitionedIs == SlotsPartitioned <=> (~Exited => AllThere) /\ BusyHolds
<1>1. Holders = Vms \ At({"free"}) <=> BusyHolds
  BY DEF Holders, At, BusyHolds
<1>. QED  BY <1>1 DEF SlotsPartitioned, AllThere, Holders, In, InDone, Held

LEMMA PartitionedIsPrimed == SlotsPartitioned' <=> (~Exited' => AllThere') /\ BusyHolds'
<1>1. Holders' = Vms \ At({"free"})' <=> BusyHolds'
  BY DEF Holders, At, BusyHolds
<1>. QED  BY <1>1 DEF SlotsPartitioned, AllThere, Holders, In, InDone, Held

--------------------------------------------------------------------------------
(* Counting tasks, slots and the elements of a sequence                    *)

LEMMA VmsFinite ==
  ASSUME NEW S \in SUBSET Vms
  PROVE  IsFiniteSet(S) /\ Cardinality(S) \in Nat
  BY FS_Subset, FS_CardinalityType, PoolAssumption

\* An image is no larger than what it is the image of.
LEMMA ImageSize ==
  ASSUME NEW S, IsFiniteSet(S), NEW R, NEW f \in Surjection(S, R)
  PROVE  IsFiniteSet(R) /\ Cardinality(R) \in Nat /\ Cardinality(R) <= Cardinality(S)
  BY FS_Surjection, FS_CardinalityType

LEMMA SeqFacts ==
  ASSUME NEW S, NEW seq \in Seq(S)
  PROVE  /\ Len(seq) \in Nat /\ DOMAIN seq = 1..Len(seq)
         /\ \A i \in 1..Len(seq) : seq[i] \in S
         /\ IsFiniteSet(DOMAIN seq) /\ Cardinality(DOMAIN seq) = Len(seq)
         /\ seq # <<>> => Len(seq) > 0
<1>1. Len(seq) \in Nat /\ DOMAIN seq = 1..Len(seq)
  BY LenProperties
<1>2. IsFiniteSet(1..Len(seq)) /\ Cardinality(1..Len(seq)) = Len(seq)
  <2>1. IsFiniteSet(1..Len(seq)) /\ (IF 1 > Len(seq) THEN Cardinality(1..Len(seq)) = 0
                                    ELSE Cardinality(1..Len(seq)) = Len(seq) - 1 + 1)
    BY <1>1, FS_Interval
  <2>. QED  BY <1>1, <2>1
<1>3. seq # <<>> => Len(seq) > 0
  BY <1>1, EmptySeq
<1>. QED  BY <1>1, <1>2, <1>3

LEMMA Popping ==
  ASSUME NEW S, NEW seq \in Seq(S), seq # <<>>,
         NEW rest, rest = SubSeq(seq, 1, Len(seq) - 1)
  PROVE  /\ rest \in Seq(S) /\ Len(rest) = Len(seq) - 1
         /\ seq[Len(seq)] \in S
         /\ In(seq) = In(rest) \cup {seq[Len(seq)]}
         /\ Len(seq) \in Nat
<1>1. Len(seq) \in Nat \ {0} /\ DOMAIN seq = 1..Len(seq) /\ \A i \in 1..Len(seq) : seq[i] \in S
  BY SeqFacts
<1>2. /\ rest \in Seq(S) /\ Len(rest) = Len(seq) - 1
      /\ \A i \in 1..(Len(seq) - 1) : rest[i] = seq[i]
  BY <1>1, SubSeqProperties
<1>3. DOMAIN rest = 1..(Len(seq) - 1)
  BY <1>2, LenProperties
<1>4. DOMAIN seq = DOMAIN rest \cup {Len(seq)}
  BY <1>1, <1>3
<1>5. {seq[i] : i \in DOMAIN rest} = In(rest)
  BY <1>2, <1>3 DEF In
<1>6. In(seq) = In(rest) \cup {seq[Len(seq)]}
  BY <1>4, <1>5 DEF In
<1>. QED  BY <1>1, <1>2, <1>6

LEMMA Pushing ==
  ASSUME NEW S, NEW seq \in Seq(S), NEW s \in S
  PROVE  /\ Append(seq, s) \in Seq(S) /\ Len(Append(seq, s)) = Len(seq) + 1
         /\ In(Append(seq, s)) = In(seq) \cup {s}
         /\ Len(seq) \in Nat
<1>. DEFINE more == Append(seq, s)
<1>1. Len(seq) \in Nat /\ DOMAIN seq = 1..Len(seq)
  BY LenProperties
<1>2. /\ more \in Seq(S) /\ Len(more) = Len(seq) + 1
      /\ \A i \in 1..Len(seq) : more[i] = seq[i]
      /\ more[Len(seq) + 1] = s
  BY AppendProperties
<1>. HIDE DEF more
<1>3. DOMAIN more = 1..(Len(seq) + 1)
  BY <1>2, LenProperties
<1>4. DOMAIN more = DOMAIN seq \cup {Len(seq) + 1}
  BY <1>1, <1>3
<1>5. In(more) = In(seq) \cup {s}
  BY <1>1, <1>2, <1>4 DEF In
<1>. QED  BY <1>1, <1>2, <1>5 DEF more

LEMMA Taking ==
  ASSUME NEW S, NEW seq \in Seq(S), seq # <<>>
  PROVE  /\ Tail(seq) \in Seq(S) /\ Len(Tail(seq)) = Len(seq) - 1
         /\ Head(seq) \in S
         /\ In(seq) = In(Tail(seq)) \cup {Head(seq)}
         /\ Len(seq) \in Nat
<1>1. Len(seq) \in Nat \ {0} /\ DOMAIN seq = 1..Len(seq) /\ \A i \in 1..Len(seq) : seq[i] \in S
  BY SeqFacts
<1>2. /\ Head(seq) = seq[1] /\ Head(seq) \in S
      /\ Tail(seq) \in Seq(S) /\ Len(Tail(seq)) = Len(seq) - 1
      /\ \A i \in 1..Len(Tail(seq)) : Tail(seq)[i] = seq[i + 1]
  BY HeadTailProperties, <1>1
<1>3. DOMAIN Tail(seq) = 1..(Len(seq) - 1)
  BY <1>2, LenProperties
<1>4. In(Tail(seq)) \cup {Head(seq)} \subseteq In(seq)
  BY <1>1, <1>2, <1>3 DEF In
<1>5. ASSUME NEW i \in DOMAIN seq PROVE seq[i] \in In(Tail(seq)) \cup {Head(seq)}
  <2>1. CASE i = 1
    BY <2>1, <1>2
  <2>2. CASE i # 1
    <3>1. i - 1 \in DOMAIN Tail(seq) /\ Tail(seq)[i - 1] = seq[i]
      BY <1>1, <1>2, <1>3, <2>2
    <3>. QED  BY <3>1 DEF In
  <2>. QED  BY <2>1, <2>2
<1>. QED  BY <1>1, <1>2, <1>4, <1>5 DEF In

\* The slots of the reports, from the reports.
LEMMA DoneIn == InDone = {r[1] : r \in In(done)} /\ InDone' = {r[1] : r \in In(done')}
  BY DEF InDone, In

\* The pool starts with different slots, as many as there are.
LEMMA MySlots ==
  /\ Slots \in SUBSET Nat /\ NoSlot \notin Slots
  /\ SlotsOf(Me) \in Seq(Slots) /\ Slots = In(SlotsOf(Me))
  /\ IsFiniteSet(Slots) /\ Cardinality(Slots) = Len(SlotsOf(Me))
  /\ Cardinality(Slots) \in Nat /\ Cardinality(Slots) <= MaxReady
  /\ MaxReady \in Nat
<1>0. Me \in 1..N /\ MaxReady = PoolSizes[Me] /\ PoolSizes[Me] \in Nat /\ MaxJobs \in Nat
  BY Sizes, PoolAssumption DEF MaxReady
<1>. DEFINE n == Given(Me)
            f == SlotsOf(Me)
<1>1. /\ n \in 0..PoolSizes[Me] /\ DOMAIN f = 1..n
      /\ \A i \in 1..n : f[i] \in 0..(MaxJobs - 1)
      /\ \A i, k \in 1..n : f[i] = f[k] => i = k
  BY <1>0, SlotsOfPool
<1>2. Slots = In(f) /\ Slots \in SUBSET Nat
  BY <1>0, <1>1 DEF Slots, In
<1>3. n \in Nat /\ n <= MaxReady
  BY <1>0, <1>1
<1>4. f = [i \in 1..n |-> f[i]]
  BY DEF SlotsOf
<1>. HIDE DEF n, f
<1>5. f \in [1..n -> Slots]
  BY <1>1, <1>2, <1>4 DEF In
<1>6. f \in Seq(Slots) /\ Len(f) = n
  BY <1>3, <1>5
<1>7. f \in Bijection(1..n, Slots)
  BY <1>1, <1>2, <1>5 DEF Bijection, Injection, Surjection, IsInjective, In
<1>8. IsFiniteSet(Slots) /\ Cardinality(Slots) = n
  <2>1. IsFiniteSet(1..n) /\ Cardinality(1..n) = n
    BY <1>3, FS_Interval
  <2>2. ExistsBijection(1..n, Slots)
    BY <1>7 DEF ExistsBijection
  <2>. QED  BY <2>1, <2>2, FS_Bijection
<1>9. NoSlot \notin Slots
  BY <1>2, PoolAssumption
<1>. QED  BY <1>0, <1>2, <1>3, <1>6, <1>8, <1>9 DEF f

--------------------------------------------------------------------------------
(* What a step does to the slots: nothing, or it passes one on             *)

Quiet == UNCHANGED <<slot_pool, done, slot_of>>

\* A slot is popped for v.
Spawns(v) ==
  /\ slot_pool # <<>>
  /\ slot_pool' = SubSeq(slot_pool, 1, Len(slot_pool) - 1)
  /\ done' = done
  /\ slot_of[v] = NoSlot
  /\ slot_of' = [slot_of EXCEPT ![v] = slot_pool[Len(slot_pool)]]

\* A report is received, and its slot pushed.
Receives ==
  /\ done # <<>> /\ done' = Tail(done)
  /\ slot_pool' = Append(slot_pool, Head(done)[1])
  /\ slot_of' = slot_of

\* v reports its slot.
Reports(v) ==
  /\ slot_pool' = slot_pool
  /\ done' = Append(done, <<slot_of[v], repo_of[v]>>)
  /\ slot_of[v] # NoSlot
  /\ slot_of' = [slot_of EXCEPT ![v] = NoSlot]

LEMMA HoldersFinite == IsFiniteSet(Holders) /\ Cardinality(Holders) \in Nat
  BY VmsFinite DEF Holders

LEMMA QuietAccount ==
  ASSUME AllThere, Quiet
  PROVE  AllThere'
<1>1. Holders' = Holders
  BY DEF Quiet, Holders
<1>2. Held' = Held
  BY <1>1 DEF Quiet, Held
<1>3. In(slot_pool)' = In(slot_pool) /\ InDone' = InDone
  BY DEF Quiet, In, InDone
<1>. QED  BY <1>1, <1>2, <1>3 DEF AllThere, Quiet

LEMMA SpawnsAccount ==
  ASSUME Types, AllThere, NEW v \in Vms, Spawns(v)
  PROVE  AllThere' /\ slot_pool' \in Seq(Slots) /\ slot_pool[Len(slot_pool)] \in Slots
<1>. DEFINE s == slot_pool[Len(slot_pool)]
<1>1. /\ Len(slot_pool') = Len(slot_pool) - 1 /\ Len(slot_pool) \in Nat
      /\ slot_pool' \in Seq(Slots) /\ s \in Slots
      /\ In(slot_pool) = In(slot_pool') \cup {s}
  BY Popping DEF Types, Spawns
<1>2. s # NoSlot
  BY <1>1, MySlots
<1>. HIDE DEF s
<1>3. slot_of' = [slot_of EXCEPT ![v] = s]
  BY DEF Spawns, s
<1>4. Holders' = Holders \cup {v} /\ v \notin Holders
  BY <1>2, <1>3 DEF Holders, Types, Spawns
<1>5. Held' = Held \cup {s}
  <2>1. \A u \in Holders : slot_of'[u] = slot_of[u]
    BY <1>3, <1>4 DEF Types, Holders
  <2>2. slot_of'[v] = s
    BY <1>3 DEF Types
  <2>. QED  BY <1>4, <2>1, <2>2 DEF Held
<1>6. Cardinality(Holders') = Cardinality(Holders) + 1
  BY <1>4, HoldersFinite, FS_AddElement
<1>7. done' = done /\ InDone' = InDone /\ Len(done) \in Nat
  BY LenProperties DEF Spawns, InDone, Types
<1>8. Slots = In(slot_pool') \cup InDone' \cup Held'
  BY <1>1, <1>5, <1>7 DEF AllThere
<1>9. Len(slot_pool') + Len(done') + Cardinality(Holders') = Cardinality(Slots)
  BY <1>1, <1>6, <1>7, HoldersFinite DEF AllThere
<1>. QED  BY <1>1, <1>8, <1>9 DEF AllThere, In, s

LEMMA ReceivesAccount ==
  ASSUME Types, AllThere, Receives
  PROVE  /\ AllThere' /\ slot_pool' \in Seq(Slots) /\ done' \in Seq(Slots \X RepoSet)
         /\ Head(done) \in Slots \X RepoSet
<1>. DEFINE R == Slots \X RepoSet
<1>0. done \in Seq(R) /\ done # <<>> /\ done' = Tail(done) /\ \A r \in R : r[1] \in Slots
  BY DEF Types, Receives
<1>. HIDE DEF R
<1>1. /\ Len(done') = Len(done) - 1 /\ Len(done) \in Nat
      /\ done' \in Seq(R) /\ Head(done) \in R
      /\ In(done) = In(done') \cup {Head(done)}
  BY <1>0, Taking
<1>2. Head(done)[1] \in Slots
  BY <1>0, <1>1
<1>3. /\ Len(slot_pool') = Len(slot_pool) + 1 /\ Len(slot_pool) \in Nat
      /\ slot_pool' \in Seq(Slots)
      /\ In(slot_pool') = In(slot_pool) \cup {Head(done)[1]}
  BY <1>2, Pushing DEF Types, Receives
<1>4. InDone = InDone' \cup {Head(done)[1]}
  BY <1>1, DoneIn
<1>5. Holders' = Holders
  BY DEF Receives, Holders
<1>6. Held' = Held
  BY <1>5 DEF Receives, Held
<1>7. Slots = In(slot_pool') \cup InDone' \cup Held'
  BY <1>3, <1>4, <1>6 DEF AllThere
<1>8. Len(slot_pool') + Len(done') + Cardinality(Holders') = Cardinality(Slots)
  BY <1>1, <1>3, <1>5, HoldersFinite DEF AllThere
<1>. QED  BY <1>1, <1>3, <1>7, <1>8 DEF AllThere, In, R

LEMMA ReportsAccount ==
  ASSUME Types, NEW v \in Vms, Reports(v)
  PROVE  done' \in Seq(Slots \X RepoSet) /\ (AllThere => AllThere')
<1>. DEFINE R == Slots \X RepoSet
            r == <<slot_of[v], repo_of[v]>>
<1>0. done \in Seq(R) /\ r \in R /\ r[1] = slot_of[v] /\ done' = Append(done, r)
  BY DEF Types, Reports
<1>. HIDE DEF R, r
<1>1. /\ Len(done') = Len(done) + 1 /\ Len(done) \in Nat /\ done' \in Seq(R)
      /\ In(done') = In(done) \cup {r}
  BY <1>0, Pushing
<1>2. done' \in Seq(Slots \X RepoSet)
  BY <1>1 DEF R
<1>. SUFFICES ASSUME AllThere PROVE AllThere'
  BY <1>2
<1>3. InDone' = InDone \cup {slot_of[v]}
  BY <1>0, <1>1, DoneIn
<1>4. v \in Holders /\ Holders' = Holders \ {v}
  BY MySlots DEF Holders, Types, Reports
<1>5. Held = Held' \cup {slot_of[v]}
  <2>1. \A u \in Holders' : slot_of'[u] = slot_of[u]
    BY <1>4 DEF Types, Reports, Holders
  <2>. QED  BY <1>4, <2>1 DEF Held
<1>6. Cardinality(Holders') = Cardinality(Holders) - 1
  BY <1>4, HoldersFinite, FS_RemoveElement
<1>7. slot_pool' = slot_pool /\ In(slot_pool') = In(slot_pool) /\ Len(slot_pool) \in Nat
  BY LenProperties DEF Reports, Types
<1>8. Slots = In(slot_pool') \cup InDone' \cup Held'
  BY <1>3, <1>5, <1>7 DEF AllThere
<1>9. Len(slot_pool') + Len(done') + Cardinality(Holders') = Cardinality(Slots)
  BY <1>1, <1>6, <1>7, HoldersFinite DEF AllThere
<1>. QED  BY <1>8, <1>9 DEF AllThere, In

(* The slot at the end of the pool is with no VM: otherwise the slots would *)
(* be fewer than Slots.                                                    *)
LEMMA LastIsFree ==
  ASSUME Types, AllThere, slot_pool # <<>>, NEW v \in Vms
  PROVE  slot_of[v] # slot_pool[Len(slot_pool)]
<1>. DEFINE s == slot_pool[Len(slot_pool)]
            rest == SubSeq(slot_pool, 1, Len(slot_pool) - 1)
<1>1. /\ rest \in Seq(Slots) /\ Len(rest) = Len(slot_pool) - 1 /\ s \in Slots
      /\ In(slot_pool) = In(rest) \cup {s} /\ Len(slot_pool) \in Nat
  BY Popping DEF Types
<1>. HIDE DEF s, rest
<1>2. SUFFICES ASSUME slot_of[v] = s PROVE FALSE
  BY DEF s
<1>3. s \in Held
  BY <1>1, <1>2, MySlots DEF Held, Holders
<1>4. Slots = (In(rest) \cup InDone) \cup Held
  BY <1>1, <1>3 DEF AllThere
<1>5. IsFiniteSet(In(rest)) /\ Cardinality(In(rest)) \in Nat /\ Cardinality(In(rest)) <= Len(rest)
  <2>1. IsFiniteSet(DOMAIN rest) /\ Cardinality(DOMAIN rest) = Len(rest)
    BY <1>1, SeqFacts
  <2>2. rest \in Surjection(DOMAIN rest, In(rest))
    <3>1. rest = [i \in DOMAIN rest |-> rest[i]]
      BY DEF rest
    <3>. QED  BY <3>1 DEF In, Surjection
  <2>3. Cardinality(In(rest)) <= Cardinality(DOMAIN rest)
        /\ IsFiniteSet(In(rest)) /\ Cardinality(In(rest)) \in Nat
    BY <2>1, <2>2, ImageSize
  <2>. QED  BY <2>1, <2>3
<1>6. IsFiniteSet(InDone) /\ Cardinality(InDone) \in Nat /\ Cardinality(InDone) <= Len(done)
  <2>. DEFINE f == [i \in DOMAIN done |-> done[i][1]]
  <2>1. IsFiniteSet(DOMAIN done) /\ Cardinality(DOMAIN done) = Len(done)
    BY SeqFacts DEF Types
  <2>2. f \in Surjection(DOMAIN done, InDone)
    BY DEF Surjection, InDone
  <2>. HIDE DEF f
  <2>4. IsFiniteSet(InDone) /\ Cardinality(InDone) \in Nat
        /\ Cardinality(InDone) <= Cardinality(DOMAIN done)
    BY <2>1, <2>2, ImageSize
  <2>. QED  BY <2>1, <2>4
<1>7. IsFiniteSet(Held) /\ Cardinality(Held) \in Nat /\ Cardinality(Held) <= Cardinality(Holders)
  <2>. DEFINE f == [u \in Holders |-> slot_of[u]]
  <2>1. f \in Surjection(Holders, Held)
    BY DEF Held, Surjection
  <2>. HIDE DEF f
  <2>. QED  BY <2>1, HoldersFinite, ImageSize
<1>8. /\ IsFiniteSet(In(rest) \cup InDone)
      /\ Cardinality(In(rest) \cup InDone) <= Len(rest) + Len(done)
      /\ Cardinality(In(rest) \cup InDone) \in Nat
  <2>1. Cardinality(In(rest) \cap InDone) \in Nat
    BY <1>5, FS_Intersection, FS_CardinalityType
  <2>2. /\ IsFiniteSet(In(rest) \cup InDone)
        /\ Cardinality(In(rest) \cup InDone) =
             Cardinality(In(rest)) + Cardinality(InDone) - Cardinality(In(rest) \cap InDone)
    BY <1>5, <1>6, FS_Union
  <2>3. Cardinality(In(rest) \cup InDone) \in Nat
    BY <2>2, FS_CardinalityType
  <2>4. Len(rest) \in Nat /\ Len(done) \in Nat
    BY <1>1, LenProperties DEF Types
  <2>. QED  BY <1>5, <1>6, <2>1, <2>2, <2>3, <2>4
<1>9. Cardinality(Slots) <= Len(rest) + Len(done) + Cardinality(Holders)
  <2>. DEFINE L == In(rest) \cup InDone
  <2>1. Cardinality(L \cap Held) \in Nat
    BY <1>7, FS_Intersection, FS_CardinalityType
  <2>2. Cardinality(Slots) = Cardinality(L) + Cardinality(Held) - Cardinality(L \cap Held)
    BY <1>4, <1>7, <1>8, FS_Union
  <2>3. Len(rest) \in Nat /\ Len(done) \in Nat
    BY <1>1, LenProperties DEF Types
  <2>. QED  BY <1>7, <1>8, <2>1, <2>2, <2>3, HoldersFinite
<1>10. Len(slot_pool) + Len(done) + Cardinality(Holders) = Cardinality(Slots)
  BY DEF AllThere
<1>11. Len(done) \in Nat
  BY LenProperties DEF Types
<1>. QED  BY <1>1, <1>9, <1>10, <1>11, HoldersFinite

--------------------------------------------------------------------------------
(* The operator and the manager                                            *)

\* What the tasks of the VMs own, and the accounts.
LEMMA StillAccounted ==
  ASSUME IInv, UNCHANGED <<slot_pool, done, active_count, task_vars>>, Exited => Exited'
  PROVE  SlotsPartitioned' /\ CountIsExact'
<1>1. Quiet /\ UNCHANGED <<pc, slot_of>> /\ active_count' = active_count
  BY DEF Quiet, task_vars
<1>2. (~Exited' => AllThere') /\ BusyHolds'
  BY <1>1, PartitionedIs, QuietAccount DEF IInv, BusyHolds
<1>3. At(Counted)' = At(Counted)
  BY <1>1 DEF At
<1>. QED  BY <1>1, <1>2, <1>3, PartitionedIsPrimed DEF IInv, CountIsExact

LEMMA ApiIInv ==
  ASSUME IInv, Signal \/ pause \/ resume \/ (\E max \in Scales : scale(max))
  PROVE  IInv'
<1>1. UNCHANGED <<loop, started, slot_pool, done, repo, active_count, task_vars>>
  BY DEF Signal, pause, resume, scale, Api
<1>2. cancelled' \in BOOLEAN /\ paused' \in BOOLEAN /\ max_ready' \in Nat
  BY PoolAssumption DEF Signal, pause, resume, scale, IInv, Types
<1>3. Types'
  BY <1>1, <1>2 DEF IInv, Types, task_vars
<1>4. SlotsPartitioned' /\ CountIsExact'
  BY <1>1, StillAccounted DEF Exited
<1>. QED  BY <1>3, <1>4 DEF IInv

LEMMA MovesIInv ==
  ASSUME IInv, NEW from, NEW to, Moves(from, to),
         from \in {"starting", "select", "returned", "replacing", "draining"},
         to \in {"select", "replacing", "draining", "idle_exit", "timeout_exit", "early_exit"}
  PROVE  IInv'
<1>1. /\ UNCHANGED <<api_vars, started, slot_pool, done, repo, active_count, task_vars>>
      /\ loop' = to /\ ~Exited
  BY DEF Moves, LoopStep, Exited
<1>2. Types'
  BY <1>1 DEF IInv, Types, task_vars, api_vars
<1>3. SlotsPartitioned' /\ CountIsExact'
  BY <1>1, StillAccounted
<1>. QED  BY <1>2, <1>3 DEF IInv

LEMMA RepoOfNext == \A k \in Nat : Repos[(k % Len(Repos)) + 1] \in RepoSet
<1>1. Len(Repos) \in Nat \ {0} /\ DOMAIN Repos = 1..Len(Repos)
  BY PoolAssumption, SeqFacts
<1>2. ASSUME NEW k \in Nat PROVE (k % Len(Repos)) + 1 \in 1..Len(Repos)
  BY <1>1
<1>. QED  BY <1>1, <1>2 DEF RepoSet

LEMMA SpawnIInv ==
  ASSUME IInv, NEW v \in Vms, NEW r \in RepoSet, NEW from, NEW to,
         LoopStep(from, to), Spawn(v, r), slot_pool # <<>>, started' \in 0..MinReady,
         from \in {"starting", "replacing"}, to \in {"starting", "select"}
  PROVE  IInv'
<1>. USE DEF Spawn, SpawnLeaving
<1>1. Types /\ AllThere /\ BusyHolds /\ CountIsExact
  BY PartitionedIs DEF IInv, LoopStep, Exited
<1>2. Spawns(v)
  BY <1>1 DEF Spawns, BusyHolds
<1>3. AllThere' /\ slot_pool' \in Seq(Slots) /\ slot_pool[Len(slot_pool)] \in Slots
  BY <1>1, <1>2, SpawnsAccount
<1>4. slot_pool[Len(slot_pool)] # NoSlot
  BY <1>3, MySlots
<1>5. Types'
  BY <1>1, <1>3 DEF Types, LoopStep, api_vars, VmStages
<1>6. BusyHolds'
  BY <1>1, <1>4 DEF BusyHolds, Types
<1>7. CountIsExact'
  <2>1. At(Counted)' = At(Counted)
    BY <1>1 DEF At, Counted, Types
  <2>. QED  BY <1>1, <2>1 DEF CountIsExact
<1>. QED  BY <1>3, <1>5, <1>6, <1>7, PartitionedIsPrimed DEF IInv

LEMMA ManagerIInv ==
  ASSUME IInv, ManagerStep \/ SeeCancel
  PROVE  IInv'
<1>1. ASSUME NEW v \in Vms, SpawnInitial(v) PROVE IInv'
  <2>1. started \in Nat /\ started < MinReady /\ MinReady \in Nat
    BY <1>1, PoolAssumption, MySlots DEF SpawnInitial, IInv, Types
  <2>2. started' \in 0..MinReady
    BY <1>1, <2>1 DEF SpawnInitial
  <2>3. Repos[(started % Len(Repos)) + 1] \in RepoSet
    BY <2>1, RepoOfNext
  <2>. QED  BY <1>1, <2>2, <2>3, SpawnIInv DEF SpawnInitial
<1>2. ASSUME NEW v \in Vms, Replace(v) PROVE IInv'
  <2>1. CASE Moves("replacing", "select")
    BY <2>1, MovesIInv
  <2>2. CASE LoopStep("replacing", "select") /\ Spawn(v, repo) /\ slot_pool # <<>>
             /\ UNCHANGED started
    BY <2>2, SpawnIInv DEF IInv, Types
  <2>. QED  BY <1>2, <2>1, <2>2 DEF Replace, ReplaceFor
<1>3. CASE Receive
  <2>1. Types /\ AllThere /\ BusyHolds /\ CountIsExact
    BY <1>3, PartitionedIs DEF IInv, Receive, Serve, LoopStep, Exited
  <2>2. Receives /\ UNCHANGED <<api_vars, started, active_count, pc, slot_of, repo_of>>
        /\ loop' = "returned" /\ repo' = Head(done)[2]
    BY <1>3 DEF Receive, Serve, Receives, LoopStep, task_vars
  <2>3. AllThere' /\ slot_pool' \in Seq(Slots) /\ done' \in Seq(Slots \X RepoSet)
        /\ Head(done) \in Slots \X RepoSet
    BY <2>1, <2>2, ReceivesAccount
  <2>4. repo' \in RepoSet
    BY <2>2, <2>3
  <2>5. Types'
    BY <2>1, <2>2, <2>3, <2>4 DEF Types, api_vars
  <2>6. BusyHolds' /\ CountIsExact'
    BY <2>1, <2>2 DEF BusyHolds, CountIsExact, At
  <2>. QED  BY <2>3, <2>5, <2>6, PartitionedIsPrimed DEF IInv
<1>4. CASE StartUpDone \/ Wake \/ Drain \/ SeeCancel
  BY <1>4, MovesIInv DEF StartUpDone, Wake, Drain, SeeCancel
<1>. QED  BY <1>1, <1>2, <1>3, <1>4 DEF ManagerStep

--------------------------------------------------------------------------------
(* The tasks                                                               *)

(* A task that changes its stage enters and leaves the counted ones, and   *)
(* no other task does.                                                     *)
Crosses(v, to) == (IF to \in Counted THEN 1 ELSE 0) - (IF pc[v] \in Counted THEN 1 ELSE 0)

LEMMA MoveCounts ==
  ASSUME Types, CountIsExact, NEW v \in Vms, NEW to, pc' = [pc EXCEPT ![v] = to],
         active_count' = active_count + Crosses(v, to)
  PROVE  CountIsExact'
<1>1. At(Counted)' = IF to \in Counted THEN At(Counted) \cup {v} ELSE At(Counted) \ {v}
  BY DEF At, Types
<1>2. v \in At(Counted) <=> pc[v] \in Counted
  BY DEF At
<1>3. IsFiniteSet(At(Counted)) /\ Cardinality(At(Counted)) \in Nat
  BY VmsFinite DEF At
<1>4. /\ Cardinality(At(Counted) \cup {v}) =
           IF v \in At(Counted) THEN Cardinality(At(Counted)) ELSE Cardinality(At(Counted)) + 1
      /\ Cardinality(At(Counted) \ {v}) =
           IF v \in At(Counted) THEN Cardinality(At(Counted)) - 1 ELSE Cardinality(At(Counted))
  BY <1>3, FS_AddElement, FS_RemoveElement
<1>. QED  BY <1>1, <1>2, <1>3, <1>4 DEF Crosses, CountIsExact

\* A task goes on with its slot.
LEMMA WorkingIInv ==
  ASSUME IInv, NEW v \in Vms, NEW from, NEW to \in VmStages, NEW count \in Int,
         TaskGoes(v, from, to, count), UNCHANGED <<done, slot_of>>,
         from # "free", to # "free",
         count = active_count + Crosses(v, to)
  PROVE  IInv'
<1>1. /\ pc[v] = from /\ pc' = [pc EXCEPT ![v] = to] /\ active_count' = count
      /\ UNCHANGED <<api_vars, loop, started, slot_pool, repo, repo_of, done, slot_of>>
  BY DEF TaskGoes
<1>2. Types /\ (~Exited => AllThere) /\ BusyHolds /\ CountIsExact
  BY PartitionedIs DEF IInv
<1>3. Types'
  BY <1>1, <1>2 DEF Types, api_vars
<1>4. BusyHolds'
  BY <1>1, <1>2 DEF BusyHolds, Types
<1>5. ~Exited' => AllThere'
  BY <1>1, <1>2, QuietAccount DEF Quiet, Exited
<1>6. CountIsExact'
  BY <1>1, <1>2, MoveCounts
<1>. QED  BY <1>3, <1>4, <1>5, <1>6, PartitionedIsPrimed DEF IInv

LEMMA SendIInv ==
  ASSUME IInv, NEW v \in Vms, Send(v)
  PROVE  IInv'
<1>1. /\ pc[v] = "sending" /\ pc' = [pc EXCEPT ![v] = "free"] /\ active_count' = active_count
      /\ UNCHANGED <<api_vars, loop, started, slot_pool, repo, repo_of>>
      /\ slot_of' = [slot_of EXCEPT ![v] = NoSlot]
      /\ done' = IF Exited THEN done ELSE Append(done, <<slot_of[v], repo_of[v]>>)
  BY DEF Send, TaskGoes
<1>2. Types /\ (~Exited => AllThere) /\ BusyHolds /\ CountIsExact
  BY PartitionedIs DEF IInv
<1>3. done' \in Seq(Slots \X RepoSet) /\ (~Exited' => AllThere')
  <2>1. CASE Exited
    BY <1>1, <1>2, <2>1 DEF Exited, Types
  <2>2. CASE ~Exited
    <3>1. Reports(v)
      BY <1>1, <1>2, <2>2 DEF Reports, BusyHolds
    <3>. QED  BY <1>2, <2>2, <3>1, ReportsAccount
  <2>. QED  BY <2>1, <2>2
<1>4. Types'
  BY <1>1, <1>2, <1>3 DEF Types, api_vars, VmStages
<1>5. BusyHolds'
  BY <1>1, <1>2 DEF BusyHolds, Types
<1>6. CountIsExact'
  <2>1. Crosses(v, "free") = 0
    BY <1>1 DEF Crosses, Counted
  <2>2. active_count' = active_count + Crosses(v, "free")
    BY <1>1, <1>2, <2>1 DEF Types
  <2>. QED  BY <1>1, <1>2, <2>2, MoveCounts
<1>. QED  BY <1>3, <1>4, <1>5, <1>6, PartitionedIsPrimed DEF IInv

LEMMA TaskIInv ==
  ASSUME IInv, NEW v \in Vms, TaskStep(v)
  PROVE  IInv'
<1>1. active_count \in Int
  BY DEF IInv, Types
<1>2. /\ {"counted", "vm", "ended"} = Counted
      /\ {"counted", "vm", "ended", "sending"} \subseteq VmStages
  BY DEF Counted, VmStages
<1>3. CASE Start(v)
  <2>1. TaskGoes(v, "spawned", "counted", active_count + 1) /\ UNCHANGED <<done, slot_of>>
        /\ pc[v] = "spawned"
    BY <1>3 DEF Start, TaskGoes
  <2>2. active_count + 1 = active_count + Crosses(v, "counted") /\ active_count + 1 \in Int
    BY <1>1, <1>2, <2>1 DEF Crosses
  <2>. QED  BY <1>2, <2>1, <2>2, WorkingIInv
<1>4. CASE StartVm(v)
  <2>1. TaskGoes(v, "counted", "vm", active_count) /\ UNCHANGED <<done, slot_of>>
        /\ pc[v] = "counted"
    BY <1>4 DEF StartVm, TaskGoes
  <2>2. active_count = active_count + Crosses(v, "vm")
    BY <1>1, <1>2, <2>1 DEF Crosses
  <2>. QED  BY <1>1, <1>2, <2>1, <2>2, WorkingIInv
<1>5. CASE TokenFails(v)
  <2>1. TaskGoes(v, "counted", "ended", active_count) /\ UNCHANGED <<done, slot_of>>
        /\ pc[v] = "counted"
    BY <1>5 DEF TokenFails, TaskGoes
  <2>2. active_count = active_count + Crosses(v, "ended")
    BY <1>1, <1>2, <2>1 DEF Crosses
  <2>. QED  BY <1>1, <1>2, <2>1, <2>2, WorkingIInv
<1>6. CASE VmEnds(v)
  <2>1. TaskGoes(v, "vm", "ended", active_count) /\ UNCHANGED <<done, slot_of>>
        /\ pc[v] = "vm"
    BY <1>6 DEF VmEnds, TaskGoes
  <2>2. active_count = active_count + Crosses(v, "ended")
    BY <1>1, <1>2, <2>1 DEF Crosses
  <2>. QED  BY <1>1, <1>2, <2>1, <2>2, WorkingIInv
<1>7. CASE Uncount(v)
  <2>1. TaskGoes(v, "ended", "sending", active_count - 1) /\ UNCHANGED <<done, slot_of>>
        /\ pc[v] = "ended"
    BY <1>7 DEF Uncount, TaskGoes
  <2>2. active_count - 1 = active_count + Crosses(v, "sending") /\ active_count - 1 \in Int
    BY <1>1, <1>2, <2>1 DEF Crosses
  <2>. QED  BY <1>2, <2>1, <2>2, WorkingIInv
<1>8. CASE Send(v)
  BY <1>8, SendIInv
<1>. QED  BY <1>3, <1>4, <1>5, <1>6, <1>7, <1>8 DEF TaskStep

--------------------------------------------------------------------------------

LEMMA InitIInv == Init => IInv
<1>. SUFFICES ASSUME Init PROVE IInv
  OBVIOUS
<1>1. Types
  <2>1. slot_pool \in Seq(Slots) /\ started \in 0..MinReady /\ max_ready \in Nat
    BY MySlots, PoolAssumption DEF Init
  <2>2. Repos[1] \in RepoSet
    <3>1. Repos[(0 % Len(Repos)) + 1] \in RepoSet /\ Len(Repos) \in Nat \ {0}
      BY RepoOfNext, PoolAssumption, SeqFacts
    <3>. QED  BY <3>1
  <2>3. done \in Seq(Slots \X RepoSet)
    BY DEF Init
  <2>4. repo \in RepoSet /\ repo_of \in [Vms -> RepoSet]
    BY <2>2 DEF Init
  <2>5. pc \in [Vms -> VmStages] /\ slot_of \in [Vms -> Slots \cup {NoSlot}]
    BY DEF Init, VmStages
  <2>6. cancelled \in BOOLEAN /\ paused \in BOOLEAN /\ active_count = 0 /\ loop = "starting"
    BY DEF Init
  <2>. QED  BY <2>1, <2>3, <2>4, <2>5, <2>6 DEF Types
<1>2. Holders = {} /\ At(Counted) = {}
  BY DEF Init, Holders, At, Counted
<1>3. Cardinality(Holders) = 0 /\ Cardinality(At(Counted)) = 0 /\ Len(done) = 0
  BY <1>2, FS_EmptySet DEF Init
<1>4. AllThere
  <2>1. InDone = {} /\ Held = {}
    BY <1>2 DEF Init, InDone, Held
  <2>2. slot_pool = SlotsOf(Me)
    BY DEF Init
  <2>3. Len(slot_pool) = Cardinality(Slots) /\ Cardinality(Slots) \in Nat /\ Slots = In(slot_pool)
    BY <2>2, MySlots
  <2>. QED  BY <1>3, <2>1, <2>3 DEF AllThere
<1>5. BusyHolds /\ CountIsExact
  BY <1>3 DEF Init, BusyHolds, CountIsExact
<1>. QED  BY <1>1, <1>4, <1>5, PartitionedIs DEF IInv

LEMMA NextIInv == IInv /\ [Next]_vars => IInv'
<1>. SUFFICES ASSUME IInv, [Next]_vars PROVE IInv'
  OBVIOUS
<1>1. CASE Signal \/ pause \/ resume \/ (\E max \in Scales : scale(max))
  BY <1>1, ApiIInv
<1>2. CASE ManagerStep \/ SeeCancel
  BY <1>2, ManagerIInv
<1>3. ASSUME NEW v \in Vms, TaskStep(v) PROVE IInv'
  BY <1>3, TaskIInv
<1>4. CASE ProcessGone \/ UNCHANGED vars
  <2>1. UNCHANGED vars
    BY <1>4 DEF ProcessGone
  <2>2. Types'
    BY <2>1 DEF vars, IInv, Types
  <2>3. SlotsPartitioned' /\ CountIsExact'
    BY <2>1, StillAccounted DEF vars, task_vars, Exited
  <2>. QED  BY <2>2, <2>3 DEF IInv
<1>. QED  BY <1>1, <1>2, <1>3, <1>4 DEF Next

LEMMA Invariance == Spec => []IInv
  BY InitIInv, NextIInv, PTL DEF Spec

(* The types, and with them that active_count, which the manager compares  *)
(* with max_ready and waits for at shutdown, never becomes negative.       *)
THEOREM TypeCorrect == Spec => []TypeOK
<1>1. IInv => active_count \in Nat
  BY VmsFinite DEF IInv, CountIsExact, At
<1>2. IInv => TypeOK
  BY <1>1 DEF IInv, Types, TypeOK, VmStages
<1>. QED  BY <1>2, Invariance, PTL

(* For any share of the slots, whatever VMs and requests fail: every slot  *)
(* of the pool is free, with one VM or on its way back.                    *)
THEOREM SlotsArePartitioned == Spec => []SlotsPartitioned
<1>1. IInv => SlotsPartitioned
  BY DEF IInv
<1>. QED  BY <1>1, Invariance, PTL

\* active_count is exact on every path of a VM task.
THEOREM CountExact == Spec => []CountIsExact
<1>1. IInv => CountIsExact
  BY DEF IInv
<1>. QED  BY <1>1, Invariance, PTL

(* The channel never fills, whatever scale does: a report comes with a slot *)
(* of the pool, of which there are at most max_ready, and the channel has   *)
(* twice as many places.                                                   *)
THEOREM ReportsAreNeverBlocked == Spec => []ReportsNeverWait
<1>1. IInv => ReportsNeverWait
  <2>. SUFFICES ASSUME IInv, NEW v \in Vms, pc[v] = "sending", ~Exited
                PROVE  Len(done) < Capacity
    BY DEF ReportsNeverWait
  <2>1. Types /\ AllThere /\ BusyHolds
    BY PartitionedIs DEF IInv
  <2>2. v \in Holders
    BY <2>1 DEF BusyHolds, Holders
  <2>3. Cardinality(Holders) # 0
    BY <2>2, HoldersFinite, FS_EmptySet
  <2>4. Len(slot_pool) \in Nat /\ Len(done) \in Nat
    BY <2>1, LenProperties DEF Types
  <2>5. Len(done) < Cardinality(Slots)
    BY <2>1, <2>3, <2>4, HoldersFinite, MySlots DEF AllThere
  <2>. QED  BY <2>4, <2>5, MySlots DEF Capacity
<1>. QED  BY <1>1, Invariance, PTL

--------------------------------------------------------------------------------
(* Named pools implement SlotLease                                         *)

(* A spawn leases a slot that no VM has, a report returns it, and no other *)
(* step changes who holds what.                                            *)
LEMMA LeaseStep == IInv /\ [Next]_vars => [Lease!Next]_slot_of
<1>. SUFFICES ASSUME IInv, [Next]_vars PROVE Lease!Next \/ UNCHANGED slot_of
  BY Zenon
<1>1. ASSUME NEW v \in Vms, NEW r, NEW from, NEW to, Spawn(v, r), LoopStep(from, to),
             from \in {"starting", "replacing"}, slot_pool # <<>>
      PROVE  Lease!Next
  <2>1. Types /\ AllThere /\ BusyHolds
    BY <1>1, PartitionedIs DEF IInv, LoopStep, Exited
  <2>. DEFINE s == slot_pool[Len(slot_pool)]
  <2>2. s \in Slots
    BY <1>1, <2>1, Popping DEF Types
  <2>3. \A w \in Vms : slot_of[w] # s
    BY <1>1, <2>1, LastIsFree
  <2>4. slot_of[v] = NoSlot /\ slot_of' = [slot_of EXCEPT ![v] = s]
    BY <1>1, <2>1 DEF Spawn, SpawnLeaving, BusyHolds
  <2>. HIDE DEF s
  <2>5. Lease!Lease(v, s)
    BY <2>2, <2>3, <2>4 DEF Lease!Lease, Lease!Unleased
  <2>. QED  BY <2>2, <2>5 DEF Lease!Next
<1>2. ASSUME NEW v \in Vms, SpawnInitial(v) \/ Replace(v)
      PROVE  Lease!Next \/ UNCHANGED slot_of
  <2>1. CASE SpawnInitial(v)
    BY <1>1, <2>1 DEF SpawnInitial
  <2>2. CASE Replace(v)
    BY <1>1, <2>2 DEF Replace, ReplaceFor, Moves, task_vars
  <2>. QED  BY <1>2, <2>1, <2>2
<1>3. ASSUME NEW v \in Vms, Send(v) PROVE Lease!Next
  <2>1. slot_of[v] # NoSlot
    BY <1>3, PartitionedIs DEF IInv, BusyHolds, Send, TaskGoes
  <2>2. Lease!Return(v)
    BY <1>3, <2>1 DEF Send, Lease!Return
  <2>. QED  BY <2>2 DEF Lease!Next
<1>4. ASSUME NEW v \in Vms, TaskStep(v), ~Send(v) PROVE UNCHANGED slot_of
  BY <1>4 DEF TaskStep, Start, StartVm, TokenFails, VmEnds, Uncount
<1>5. CASE StartUpDone \/ Receive \/ Wake \/ Drain \/ SeeCancel
  BY <1>5 DEF StartUpDone, Receive, Serve, Wake, Drain, SeeCancel, Moves, task_vars
<1>6. CASE Signal \/ pause \/ resume \/ (\E max \in Scales : scale(max))
  BY <1>6 DEF Signal, pause, resume, scale, Api, task_vars
<1>7. CASE ProcessGone \/ UNCHANGED vars
  BY <1>7 DEF ProcessGone, vars
<1>. QED  BY <1>2, <1>3, <1>4, <1>5, <1>6, <1>7 DEF Next, ManagerStep

(* A slot of the pool is leased to one VM at a time, from the spawn to the *)
(* report, for any number of VMs, slots and scales.                        *)
THEOREM ImplementsLease == Spec => LeaseSpec
<1>1. Init => Lease!Init
  BY DEF Init, Lease!Init
<1>. QED  BY <1>1, LeaseStep, Invariance, PTL DEF Spec, LeaseSpec, Lease!Spec

\* What SlotLease gives, for these holders.
Leased == INSTANCE SlotLeaseProofs WITH Holders <- Vms, held <- slot_of

(* No two VMs of a pool ever have one slot; with PoolsShareNothing, no two   *)
(* VMs of any of the pools.                                                *)
THEOREM SlotsNeverShared == Spec => []Lease!Exclusive
<1>1. Lease!Spec => Leased!Spec
  BY PTL DEF Lease!Spec, Leased!Spec, Lease!Init, Leased!Init, Lease!Next, Leased!Next,
             Lease!Lease, Leased!Lease, Lease!Return, Leased!Return,
             Lease!Unleased, Leased!Unleased
<1>2. Leased!Exclusive => Lease!Exclusive
  BY DEF Leased!Exclusive, Lease!Exclusive
<1>. QED  BY <1>1, <1>2, ImplementsLease, Leased!NeverShared, PTL DEF LeaseSpec
================================================================================
