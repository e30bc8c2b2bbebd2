--------------------------- MODULE CacheServiceProofs ---------------------------
(***************************************************************************)
(* Theorems about CacheService, for every finite set of clients, their     *)
(* keys and any number of restarts.                                        *)
(***************************************************************************)
EXTENDS CacheService, FiniteSetTheorems, SequenceTheorems, WellFoundedInduction, TLAPS

Distinct(es) == \A i, j \in DOMAIN es : es[i].id = es[j].id => i = j
Elements(es) == {es[i] : i \in DOMAIN es}

--------------------------------------------------------------------------------
(* What retain keeps                                                       *)

LEMMA Appended ==
  ASSUME NEW es \in Seq(Entry), NEW e \in Entry
  PROVE  /\ Append(es, e) \in Seq(Entry)
         /\ Elements(Append(es, e)) = Elements(es) \cup {e}
         /\ Distinct(es) /\ (\A x \in Elements(es) : x.id # e.id) => Distinct(Append(es, e))
<1>. DEFINE more == Append(es, e)
<1>1. more \in Seq(Entry) /\ Len(more) = Len(es) + 1 /\ more[Len(es) + 1] = e
      /\ \A i \in 1..Len(es) : more[i] = es[i]
  OBVIOUS
<1>2. DOMAIN es = 1..Len(es) /\ DOMAIN more = 1..(Len(es) + 1) /\ Len(es) \in Nat
  BY <1>1
<1>. HIDE DEF more
<1>3. Elements(more) = Elements(es) \cup {e}
  <2>1. ASSUME NEW x \in Elements(more) PROVE x \in Elements(es) \cup {e}
    <3>1. PICK i \in 1..(Len(es) + 1) : x = more[i]
      BY <1>2 DEF Elements
    <3>2. i = Len(es) + 1 \/ i \in 1..Len(es)
      BY <1>2
    <3>. QED  BY <1>1, <1>2, <3>1, <3>2 DEF Elements
  <2>2. ASSUME NEW x \in Elements(es) PROVE x \in Elements(more)
    BY <1>1, <1>2 DEF Elements
  <2>3. e \in Elements(more)
    BY <1>1, <1>2 DEF Elements
  <2>. QED  BY <2>1, <2>2, <2>3
<1>4. ASSUME Distinct(es), \A x \in Elements(es) : x.id # e.id PROVE Distinct(more)
  <2>1. \A i \in 1..Len(es) : more[i].id # e.id
    BY <1>1, <1>2, <1>4 DEF Elements
  <2>. QED  BY <1>1, <1>2, <1>4, <2>1 DEF Distinct
<1>. QED  BY <1>1, <1>3, <1>4 DEF more

(* Induction, without an operator to instantiate: a counterexample has a   *)
(* least one.                                                              *)
LEMMA Least ==
  ASSUME NEW S \in SUBSET Nat, S # {}
  PROVE  \E m \in S : \A k \in S : m <= k
<1>1. PICK m \in S : \A k \in S : <<k, m>> \notin OpToRel(<, Nat)
  BY WFMin, NatLessThanWellFounded, Zenon
<1>2. \A k \in S : ~(k < m)
  BY <1>1, Zenon DEF OpToRel
<1>. QED  BY <1>2

\* What is kept of the first n elements, for every n up to m.
Keeps(kept, es, id, n) ==
  kept[n] = IF es[n].id = id THEN kept[n - 1] ELSE Append(kept[n - 1], es[n])

Prefixes(es, id, m) ==
  {kept \in [0..m -> Seq(Entry)] : kept[0] = <<>> /\ \A n \in 1..m : Keeps(kept, es, id, n)}

LEMMA PrefixesExist ==
  ASSUME NEW es \in Seq(Entry), NEW id
  PROVE  Prefixes(es, id, Len(es)) # {}
<1>. DEFINE Bad == {n \in 0..Len(es) : Prefixes(es, id, n) = {}}
<1>0. Len(es) \in Nat /\ \A n \in 1..Len(es) : es[n] \in Entry
  OBVIOUS
<1>1. Bad \in SUBSET Nat
  BY <1>0
<1>. SUFFICES ASSUME Bad # {} PROVE FALSE
  BY <1>0
<1>. HIDE DEF Bad
<1>2. PICK m \in Bad : \A k \in Bad : m <= k
  BY <1>1, Least
<1>. USE DEF Bad
<1>3. m # 0
  <2>1. [n \in 0..0 |-> <<>>] \in Prefixes(es, id, 0)
    BY DEF Prefixes
  <2>. QED  BY <2>1
<1>4. m \in 1..Len(es) /\ m - 1 \in 0..Len(es) /\ m - 1 \notin Bad
  BY <1>0, <1>2, <1>3
<1>5. PICK g \in Prefixes(es, id, m - 1) : TRUE
  BY <1>4
<1>. DEFINE last == IF es[m].id = id THEN g[m - 1] ELSE Append(g[m - 1], es[m])
            h == [n \in 0..m |-> IF n = m THEN last ELSE g[n]]
<1>6. /\ g \in [0..(m - 1) -> Seq(Entry)] /\ g[0] = <<>>
      /\ \A n \in 1..(m - 1) : Keeps(g, es, id, n)
  BY <1>5 DEF Prefixes
<1>7. last \in Seq(Entry)
  <2>1. g[m - 1] \in Seq(Entry) /\ es[m] \in Entry
    BY <1>0, <1>4, <1>6
  <2>. QED  BY <2>1, Appended
<1>8. h \in [0..m -> Seq(Entry)] /\ h[0] = <<>>
  BY <1>4, <1>6, <1>7
<1>9. ASSUME NEW n \in 1..m PROVE Keeps(h, es, id, n)
  <2>1. n - 1 \in 0..m /\ n - 1 # m /\ n \in 0..m
    BY <1>4
  <2>2. h[n - 1] = g[n - 1]
    BY <2>1
  <2>3. CASE n = m
    BY <2>2, <2>3 DEF Keeps
  <2>4. CASE n # m
    <3>1. n \in 1..(m - 1) /\ h[n] = g[n]
      BY <1>4, <2>4
    <3>. QED  BY <1>6, <2>2, <3>1 DEF Keeps
  <2>. QED  BY <2>3, <2>4
<1>10. h \in Prefixes(es, id, m)
  BY <1>8, <1>9 DEF Prefixes
<1>. QED  BY <1>10

LEMMA WithoutIsPrefix ==
  ASSUME NEW es \in Seq(Entry), NEW id
  PROVE  \E kept \in Prefixes(es, id, Len(es)) : Without(es, id) = kept[Len(es)]
<1>. DEFINE Def(f) == [n \in 0..Len(es) |->
                         IF n = 0 THEN <<>>
                         ELSE IF es[n].id = id THEN f[n - 1] ELSE Append(f[n - 1], es[n])]
            kept == CHOOSE f : f = Def(f)
<1>0. Len(es) \in Nat /\ \A n \in 1..Len(es) : es[n] \in Entry
  OBVIOUS
<1>1. PICK g \in Prefixes(es, id, Len(es)) : TRUE
  BY PrefixesExist
<1>2. g = Def(g)
  <2>1. /\ g \in [0..Len(es) -> Seq(Entry)] /\ g[0] = <<>>
        /\ \A n \in 1..Len(es) : Keeps(g, es, id, n)
    BY <1>1 DEF Prefixes
  <2>2. ASSUME NEW n \in 0..Len(es) PROVE g[n] = Def(g)[n]
    <3>1. n = 0 \/ n \in 1..Len(es)
      BY <1>0
    <3>. QED  BY <2>1, <3>1, Zenon DEF Keeps
  <2>3. DOMAIN g = 0..Len(es) /\ g = [n \in 0..Len(es) |-> g[n]]
    BY <2>1
  <2>. QED  BY <2>2, <2>3, Zenon
<1>3. kept = Def(kept)
  BY <1>2, Zenon
<1>4. Without(es, id) = kept[Len(es)]
  BY Zenon DEF Without
<1>. HIDE DEF kept
<1>5. kept[0] = <<>> /\ \A n \in 1..Len(es) : Keeps(kept, es, id, n)
  <2>1. ASSUME NEW n \in 0..Len(es) PROVE kept[n] = Def(kept)[n]
    BY <1>3, Zenon
  <2>2. 0 \in 0..Len(es) /\ \A n \in 1..Len(es) : n \in 0..Len(es) /\ n # 0
    BY <1>0
  <2>. QED  BY <2>1, <2>2, Zenon DEF Keeps
<1>. DEFINE Bad == {n \in 0..Len(es) : kept[n] \notin Seq(Entry)}
<1>6. Bad = {}
  <2>. SUFFICES ASSUME Bad # {} PROVE FALSE
    OBVIOUS
  <2>1. Bad \in SUBSET Nat
    BY <1>0
  <2>. HIDE DEF Bad
  <2>2. PICK m \in Bad : \A k \in Bad : m <= k
    BY <2>1, Least
  <2>. USE DEF Bad
  <2>3. m # 0
    BY <1>5, EmptySeq
  <2>4. m \in 1..Len(es) /\ m - 1 \in 0..Len(es) /\ m - 1 \notin Bad
    BY <1>0, <2>2, <2>3
  <2>5. kept[m - 1] \in Seq(Entry) /\ es[m] \in Entry
    BY <1>0, <2>4
  <2>6. kept[m] \in Seq(Entry)
    <3>1. kept[m] = IF es[m].id = id THEN kept[m - 1] ELSE Append(kept[m - 1], es[m])
      BY <1>5, <2>4 DEF Keeps
    <3>2. Append(kept[m - 1], es[m]) \in Seq(Entry)
      BY <2>5, Appended
    <3>. QED  BY <2>5, <3>1, <3>2
  <2>. QED  BY <2>4, <2>6
<1>7. kept \in [0..Len(es) -> Seq(Entry)]
  BY <1>3, <1>6
<1>. QED  BY <1>4, <1>5, <1>7 DEF Prefixes

\* The entries with another id stay, and no two become one.
LEMMA Retained ==
  ASSUME NEW es \in Seq(Entry), NEW id
  PROVE  /\ Without(es, id) \in Seq(Entry)
         /\ Elements(Without(es, id)) = {e \in Elements(es) : e.id # id}
         /\ Distinct(es) => Distinct(Without(es, id))
<1>0. Len(es) \in Nat /\ \A n \in 1..Len(es) : es[n] \in Entry
  OBVIOUS
<1>1. PICK g \in Prefixes(es, id, Len(es)) : Without(es, id) = g[Len(es)]
  BY WithoutIsPrefix
<1>2. /\ g \in [0..Len(es) -> Seq(Entry)] /\ g[0] = <<>>
      /\ \A n \in 1..Len(es) : Keeps(g, es, id, n)
  BY <1>1 DEF Prefixes
<1>. DEFINE First(n) == {es[i] : i \in {j \in 1..n : es[j].id # id}}
            Good(n) == Elements(g[n]) = First(n) /\ (Distinct(es) => Distinct(g[n]))
            Bad == {n \in 0..Len(es) : ~Good(n)}
<1>3. Bad = {}
  <2>. SUFFICES ASSUME Bad # {} PROVE FALSE
    OBVIOUS
  <2>1. Bad \in SUBSET Nat
    BY <1>0
  <2>. HIDE DEF Bad
  <2>2. PICK m \in Bad : \A k \in Bad : m <= k
    BY <2>1, Least
  <2>3. m \in 0..Len(es) /\ ~Good(m)
    BY DEF Bad
  <2>4. m - 1 \notin Bad /\ m # 0 /\ m \in 1..Len(es) /\ m - 1 \in 0..Len(es)
    <3>1. m - 1 \notin Bad
      BY <1>0, <2>1, <2>2, <2>3
    <3>2. m # 0
      BY <1>2, <2>3 DEF Elements, Distinct
    <3>. QED  BY <1>0, <2>3, <3>1, <3>2
  <2>. USE DEF Bad
  <2>5. Good(m - 1) /\ Keeps(g, es, id, m) /\ g[m - 1] \in Seq(Entry) /\ es[m] \in Entry
    BY <1>0, <1>2, <2>4
  <2>6. First(m) = IF es[m].id = id THEN First(m - 1) ELSE First(m - 1) \cup {es[m]}
    BY <2>4
  <2>7. ASSUME Distinct(es), NEW x \in First(m - 1) PROVE x.id # es[m].id
    BY <2>4, <2>7 DEF Distinct
  <2>. HIDE DEF First
  <2>8. CASE es[m].id = id
    BY <2>5, <2>6, <2>8, <2>4 DEF Keeps
  <2>9. CASE es[m].id # id
    <3>1. g[m] = Append(g[m - 1], es[m])
      BY <2>5, <2>9 DEF Keeps
    <3>2. Elements(g[m]) = First(m)
      BY <2>5, <2>6, <2>9, <3>1, Appended
    <3>3. Distinct(es) => Distinct(g[m])
      BY <2>5, <2>7, <3>1, Appended
    <3>. QED  BY <2>4, <3>2, <3>3
  <2>. QED  BY <2>8, <2>9
<1>4. Good(Len(es))
  <2>1. Len(es) \in 0..Len(es)
    BY <1>0
  <2>. HIDE DEF Good
  <2>. QED  BY <1>3, <2>1
<1>5. First(Len(es)) = {e \in Elements(es) : e.id # id}
  BY DEF Elements
<1>. QED  BY <1>1, <1>2, <1>4, <1>5

--------------------------------------------------------------------------------
(* The index file                                                          *)

EntryOf(c, committed) == [id |-> id_of[c], key |-> KeyOf[c], committed |-> committed]
OnDisk == Elements(Loaded)
Known == EntriesOf \cup OnDisk

LEMMA EntriesOfIs == EntriesOf = Elements(entries) /\ EntriesOf' = Elements(entries)'
  BY DEF EntriesOf, Elements

LEMMA NoElements == <<>> \in Seq(Entry) /\ Elements(<<>>) = {} /\ Distinct(<<>>)
  BY EmptySeq DEF Elements, Distinct

LEMMA LoadedType ==
  ASSUME disk \in Seq(Seq(Entry)), Len(disk) <= 1
  PROVE  /\ Loaded \in Seq(Entry)
         /\ disk # <<>> => disk = <<Loaded>>
         /\ disk = <<>> => Loaded = <<>>
<1>1. CASE disk = <<>>
  BY <1>1, NoElements DEF Loaded
<1>2. CASE disk # <<>>
  <2>1. Len(disk) = 1
    <3>1. \A s \in Seq(Seq(Entry)) : s = <<>> <=> Len(s) = 0
      BY EmptySeq
    <3>2. Len(disk) \in Nat
      OBVIOUS
    <3>3. Len(disk) # 0
      BY <1>2, <3>1
    <3>4. \A n \in Nat : n # 0 /\ n <= 1 => n = 1
      OBVIOUS
    <3>. QED  BY <3>2, <3>3, <3>4, Zenon
  <2>2. disk[1] \in Seq(Entry)
    BY <2>1
  <2>3. disk = <<disk[1]>>
    <3>1. <<disk[1]>> \in Seq(Seq(Entry)) /\ Len(<<disk[1]>>) = 1
          /\ <<disk[1]>>[1] = disk[1]
      BY <2>2
    <3>. QED  BY <2>1, <3>1, SeqEqual
  <2>. QED  BY <1>2, <2>2, <2>3 DEF Loaded
<1>. QED  BY <1>1, <1>2

\* What a saver may do to the index file.
Rewrites ==
  \/ disk' = disk /\ Loaded' = Loaded
  \/ disk' = <<>> /\ Loaded' = <<>>
  \/ disk' = <<entries>> /\ disk' # <<>> /\ Loaded' = entries

LEMMA RewritesIs ==
  ASSUME entries \in Seq(Entry), disk \in Seq(Seq(Entry)), Len(disk) <= 1,
         disk' \in {disk, <<>>, <<entries>>}
  PROVE  /\ disk' \in Seq(Seq(Entry)) /\ Len(disk') <= 1
         /\ Rewrites
         /\ disk' \in {<<>>, <<entries>>} => disk' = <<>> \/ Loaded' = entries
<1>1. CASE disk' = disk
  BY <1>1 DEF Rewrites, Loaded
<1>2. CASE disk' = <<>>
  BY <1>2, EmptySeq DEF Rewrites, Loaded
<1>3. CASE disk' = <<entries>>
  <2>1. <<entries>> \in Seq(Seq(Entry)) /\ Len(<<entries>>) = 1 /\ <<entries>>[1] = entries
    OBVIOUS
  <2>2. <<entries>> # <<>>
    OBVIOUS
  <2>3. Loaded' = entries
    BY <1>3, <2>1, <2>2 DEF Loaded
  <2>. QED  BY <1>3, <2>1, <2>2, <2>3 DEF Rewrites
<1>. QED  BY <1>1, <1>2, <1>3

--------------------------------------------------------------------------------
(* What the steps of a save have in common                                 *)

Stages == {"idle", "reserved", "uploaded"} \cup Handling \cup Ended
Progress == {"no", "locked", "writing", "overtaken", "lost", "written"}

LEMMA TypeOKIs ==
  TypeOK <=>
    /\ entries \in Seq(Entry) /\ disk \in Seq(Seq(Entry)) /\ Len(disk) <= 1
    /\ key_index \in [Keys -> Ids \cup {0}] /\ next_id \in 1..(Cardinality(Clients) + 1)
    /\ \A i \in DOMAIN temps : i \in Ids /\ temps[i] \in Clients \cup {NoOne}
    /\ s3 \in [Ids -> Clients \cup {NoOne}] /\ temp \in {"none", "partial", "full"}
    /\ stage \in [Clients -> Stages] /\ id_of \in [Clients -> Ids \cup {0}]
    /\ saving \in [Clients -> Progress] /\ restarts \in 0..MaxRestarts
  BY DEF TypeOK, Stages, Progress

\* Saving changes what clients have got to and the files of the index.
SaveStep(c) ==
  /\ UNCHANGED <<entries, key_index, next_id, temps, s3, id_of, restarts>>
  /\ disk' \in {disk, <<>>, <<entries>>} /\ temp' \in {"none", "partial", "full"}
  /\ saving' \in [Clients -> Progress]
  /\ \/ UNCHANGED stage
     \/ stage[c] \in {"pushed", "indexed"} /\ stage' = [stage EXCEPT ![c] = "failed"]
     \/ /\ stage[c] \in {"pushed", "indexed"} /\ stage' = [stage EXCEPT ![c] = Returns(c)]
        /\ disk' \in {<<>>, <<entries>>}

Saving(c) == SaveBegin(c) \/ SaveOpen(c) \/ SaveWrite(c) \/ SaveRename(c)

LEMMA SaveSteps ==
  ASSUME TypeOK, NEW c \in Clients, Saving(c),
         \A d \in Clients : saving[d] # "no" => stage[d] \in {"pushed", "indexed"}
  PROVE  SaveStep(c)
<1>. USE TypeOKIs DEF Saves, server, files, index_files
<1>1. CASE SaveBegin(c)
  BY <1>1 DEF SaveBegin, SaveStep, Progress
<1>2. CASE SaveOpen(c)
  BY <1>2 DEF SaveOpen, SaveStep, Progress
<1>3. CASE SaveWrite(c)
  BY <1>3 DEF SaveWrite, SaveStep, Progress
<1>4. CASE SaveRename(c)
  <2>1. stage[c] \in {"pushed", "indexed"}
    BY <1>4 DEF SaveRename
  <2>2. CASE temp = "none"
    BY <1>4, <2>1, <2>2 DEF SaveRename, SaveStep, Progress
  <2>3. CASE temp # "none"
    <3>1. saving' \in [Clients -> Progress]
      BY <1>4, <2>3 DEF SaveRename, Progress
    <3>2. disk' \in {<<>>, <<entries>>} /\ temp' = "none"
      BY <1>4, <2>3 DEF SaveRename
    <3>3. stage' = [stage EXCEPT ![c] = Returns(c)]
      BY <1>4, <2>3 DEF SaveRename
    <3>. QED  BY <1>4, <2>1, <3>1, <3>2, <3>3 DEF SaveRename, SaveStep
  <2>. QED  BY <2>2, <2>3
<1>. QED  BY <1>1, <1>2, <1>3, <1>4 DEF Saving
--------------------------------------------------------------------------------
(* Types.  Ids stay within Ids, because a client allocates once and a      *)
(* restart does not raise next_id.                                         *)

Started == {c \in Clients : stage[c] \notin {"idle", "removed"}}
Allotted == next_id <= 1 + Cardinality(Started)
Below == \A e \in Known : e.id < next_id
InHand == \A c \in Clients : stage[c] = "allocated" => id_of[c] \in 1..(next_id - 1)

\* Handlers save the index where they have changed entries.
SavesAtEnd == \A c \in Clients : saving[c] # "no" => stage[c] \in {"pushed", "indexed"}

Typed == TypeOK /\ Allotted /\ Below /\ InHand /\ SavesAtEnd

LEMMA Counts ==
  /\ IsFiniteSet(Clients) /\ Cardinality(Clients) \in Nat
  /\ IsFiniteSet(Started) /\ Cardinality(Started) \in Nat
  /\ Cardinality(Started) <= Cardinality(Clients)
  BY FS_Subset, FS_CardinalityType, CacheAssumption DEF Started

\* Who has started has, and a client that allocates is one more.
LEMMA StartedGrows ==
  ASSUME \A c \in Clients : c \in Started => c \in Started'
  PROVE  Cardinality(Started') \in Nat /\ Cardinality(Started) <= Cardinality(Started')
<1>1. Started \subseteq Started' /\ Started' \subseteq Clients
  BY DEF Started
<1>2. IsFiniteSet(Started')
  BY <1>1, FS_Subset, Counts
<1>. QED  BY <1>1, <1>2, FS_Subset, FS_CardinalityType

LEMMA OneMoreStarts ==
  ASSUME NEW c \in Clients, c \notin Started, Started' = Started \cup {c}
  PROVE  /\ Cardinality(Started') = Cardinality(Started) + 1
         /\ Cardinality(Started) + 1 <= Cardinality(Clients)
<1>1. Cardinality(Started') = Cardinality(Started) + 1
  BY Counts, FS_AddElement
<1>2. Started' \subseteq Clients
  BY DEF Started
<1>3. Cardinality(Started') <= Cardinality(Clients)
  BY <1>2, Counts, FS_Subset
<1>. QED  BY <1>1, <1>3

LEMMA InitTyped == Init => Typed
<1>. SUFFICES ASSUME Init PROVE Typed
  OBVIOUS
<1>1. disk = << <<>> >> /\ entries = <<>>
  BY DEF Init
<1>2. disk \in Seq(Seq(Entry)) /\ Len(disk) = 1 /\ disk[1] = <<>> /\ disk # <<>>
  BY <1>1, NoElements
<1>3. Loaded = <<>>
  BY <1>2 DEF Loaded
<1>4. Known = {}
  BY <1>1, <1>3, NoElements, EntriesOfIs DEF Known, OnDisk
<1>5. TypeOK
  <2>1. DOMAIN <<>> = {}
    OBVIOUS
  <2>. QED
    BY <1>1, <1>2, <2>1, NoElements, TypeOKIs, Counts, CacheAssumption
    DEF Init, Stages, Progress
<1>. QED  BY <1>4, <1>5, Counts DEF Init, Typed, Allotted, Below, InHand, SavesAtEnd

\* Steps of a handler leave the index file alone.
LEMMA KnownIs ==
  ASSUME UNCHANGED disk
  PROVE  Loaded' = Loaded /\ OnDisk' = OnDisk /\ Known' = EntriesOf' \cup OnDisk
  BY DEF Loaded, OnDisk, Known

LEMMA SaveTyped ==
  ASSUME Typed, NEW c \in Clients, Saving(c)
  PROVE  Typed'
<1>1. SaveStep(c) /\ TypeOK
  BY SaveSteps DEF Typed, SavesAtEnd
<1>2. stage' \in [Clients -> Stages]
  BY <1>1, TypeOKIs DEF SaveStep, Stages, Handling, Ended, Returns
<1>3. /\ disk' \in Seq(Seq(Entry)) /\ Len(disk') <= 1
      /\ Rewrites
  BY <1>1, RewritesIs, TypeOKIs DEF SaveStep
<1>4. TypeOK'
  BY <1>1, <1>2, <1>3, TypeOKIs DEF SaveStep, TypeOK, Stages, Progress
<1>5. Known' \subseteq Known
  BY <1>1, <1>3, NoElements, EntriesOfIs DEF Rewrites, SaveStep, Known, OnDisk, EntriesOf
<1>6. Allotted'
  <2>1. \A d \in Clients : d \in Started => d \in Started'
    BY <1>1, TypeOKIs DEF SaveStep, Started, Returns
  <2>. QED
    BY <1>1, <2>1, StartedGrows, Counts, <1>4, TypeOKIs DEF Typed, Allotted, SaveStep
<1>7. Below' /\ InHand'
  BY <1>1, <1>5, TypeOKIs DEF Typed, Below, InHand, SaveStep, Returns
<1>8. SavesAtEnd'
  <2>. USE TypeOKIs DEF Typed, SavesAtEnd, Saves
  <2>1. CASE SaveBegin(c)
    BY <1>1, <2>1 DEF SaveBegin
  <2>2. CASE SaveOpen(c)
    BY <1>1, <2>2 DEF SaveOpen
  <2>3. CASE SaveWrite(c)
    BY <1>1, <2>3 DEF SaveWrite
  <2>4. CASE SaveRename(c)
    <3>1. saving'[c] = "no" /\ \A d \in Clients \ {c} : saving'[d] # "no" => saving[d] # "no"
      BY <1>1, <2>4 DEF SaveRename
    <3>2. \A d \in Clients \ {c} : stage'[d] = stage[d]
      BY <1>1, <2>4 DEF SaveRename
    <3>. QED  BY <3>1, <3>2
  <2>. QED  BY <2>1, <2>2, <2>3, <2>4 DEF Saving
<1>. QED  BY <1>4, <1>6, <1>7, <1>8 DEF Typed

\* A step of the handler or the client, which leaves the index file alone.
Handler(c, to) ==
  /\ stage' = [stage EXCEPT ![c] = to]
  /\ UNCHANGED <<disk, temp, saving, restarts>>

LEMMA HandlesIs ==
  ASSUME NEW c \in Clients, NEW from, NEW to, Handles(c, from, to)
  PROVE  stage[c] = from /\ Handler(c, to)
  BY DEF Handles, Handler, index_files

\* What a step of a handler that leaves next_id alone has to keep.
Kinds ==
  /\ entries \in Seq(Entry) /\ \A e \in EntriesOf : e.id < next_id
  /\ key_index \in [Keys -> Ids \cup {0}]
  /\ \A i \in DOMAIN temps : i \in Ids /\ temps[i] \in Clients \cup {NoOne}
  /\ s3 \in [Ids -> Clients \cup {NoOne}]
  /\ id_of \in [Clients -> Ids \cup {0}]

LEMMA HandlerTyped ==
  ASSUME Typed, NEW c \in Clients, NEW to, Handler(c, to), Kinds', UNCHANGED next_id,
         \/ to \in Stages \ {"idle", "removed", "allocated"}
         \/ stage[c] = "idle" /\ to = "removed",
         stage[c] \notin {"pushed", "indexed"},
         \A d \in Clients \ {c} : id_of'[d] = id_of[d]
  PROVE  Typed'
<1>. USE DEF Handler, Kinds
<1>1. stage' \in [Clients -> Stages]
  BY TypeOKIs DEF Typed, Stages, Handling
<1>2. TypeOK'
  BY <1>1, TypeOKIs DEF Typed, TypeOK, Stages, Progress
<1>3. Allotted'
  <2>1. \A d \in Clients : d \in Started => d \in Started'
    BY TypeOKIs DEF Typed, Started
  <2>. QED  BY <2>1, StartedGrows, Counts, <1>2, TypeOKIs DEF Typed, Allotted
<1>4. Below'
  BY KnownIs DEF Typed, Below, Known
<1>5. InHand' /\ SavesAtEnd'
  BY TypeOKIs DEF Typed, InHand, SavesAtEnd
<1>. QED  BY <1>2, <1>3, <1>4, <1>5 DEF Typed

LEMMA KindsIs == Typed => Kinds /\ next_id \in Nat /\ TypeOK
  BY TypeOKIs DEF Typed, Below, Known, Kinds
--------------------------------------------------------------------------------
(* What the handlers do to entries                                         *)

\* The first of the entries that are found.
LEMMA FirstFound ==
  ASSUME NEW found \in SUBSET (DOMAIN entries), found # {}, entries \in Seq(Entry)
  PROVE  (CHOOSE i \in found : \A j \in found : i <= j) \in found
<1>1. found \subseteq Nat
  OBVIOUS
<1>2. \E i \in found : \A j \in found : i <= j
  BY <1>1, Least
<1>. QED  BY <1>2, Zenon

Commit(es, i) == [es EXCEPT ![i].committed = TRUE]

LEMMA Committing ==
  ASSUME NEW es \in Seq(Entry), NEW i \in DOMAIN es
  PROVE  LET new == Commit(es, i)
             e   == [es[i] EXCEPT !.committed = TRUE]
         IN  /\ new \in Seq(Entry)
             /\ e \in Entry /\ e.id = es[i].id /\ e.key = es[i].key /\ e.committed
             /\ Elements(new) \subseteq Elements(es) \cup {e}
             /\ e \in Elements(new)
             /\ \A x \in Elements(es) : x # es[i] => x \in Elements(new)
             /\ Distinct(es) => Distinct(new)
<1>. DEFINE new == Commit(es, i)
            e == [es[i] EXCEPT !.committed = TRUE]
<1>1. es \in [1..Len(es) -> Entry] /\ DOMAIN es = 1..Len(es) /\ Len(es) \in Nat
  OBVIOUS
<1>2. e \in Entry /\ e.id = es[i].id /\ e.key = es[i].key /\ e.committed
  BY <1>1 DEF Entry
<1>3. new = [j \in 1..Len(es) |-> IF j = i THEN e ELSE es[j]]
  BY <1>1 DEF Commit
<1>. HIDE DEF new, e
<1>4. /\ DOMAIN new = DOMAIN es /\ new[i] = e
      /\ \A j \in DOMAIN es \ {i} : new[j] = es[j]
  BY <1>1, <1>3
<1>5. new \in Seq(Entry)
  <2>1. new \in [1..Len(es) -> Entry]
    BY <1>1, <1>2, <1>3
  <2>. QED  BY <1>1, <2>1
<1>6. Elements(new) \subseteq Elements(es) \cup {e} /\ e \in Elements(new)
  BY <1>4 DEF Elements
<1>7. ASSUME NEW x \in Elements(es), x # es[i] PROVE x \in Elements(new)
  BY <1>4, <1>7 DEF Elements
<1>8. Distinct(es) => Distinct(new)
  BY <1>2, <1>4 DEF Distinct
<1>. QED  BY <1>2, <1>5, <1>6, <1>7, <1>8 DEF new, e

\* Marking an entry committed, of those that a handler has found.
Marks(c, from, found) ==
  /\ stage[c] = from /\ Handler(c, "marked")
  /\ UNCHANGED <<key_index, next_id, temps, s3>>
  /\ \E i \in found : entries' = Commit(entries, i) /\ id_of' = [id_of EXCEPT ![c] = entries[i].id]

LEMMA MarkIs ==
  ASSUME TypeOK, NEW c \in Clients, NEW from, NEW found \in SUBSET (DOMAIN entries),
         Mark(c, from, found)
  PROVE  \/ /\ found = {} /\ stage[c] = from /\ Handler(c, "gone")
            /\ UNCHANGED <<entries, key_index, next_id, temps, s3, id_of>>
         \/ Marks(c, from, found)
<1>1. CASE found = {}
  BY <1>1, HandlesIs DEF Mark, files
<1>2. CASE found # {}
  <2>. DEFINE first == CHOOSE i \in found : \A j \in found : i <= j
  <2>1. first \in found
    BY <1>2, FirstFound, TypeOKIs
  <2>2. /\ Handles(c, from, "marked") /\ entries' = Commit(entries, first)
        /\ id_of' = [id_of EXCEPT ![c] = entries[first].id]
        /\ UNCHANGED <<key_index, next_id, temps, s3>>
    BY <1>2, Zenon DEF Mark, files, Commit
  <2>. HIDE DEF first
  <2>. QED  BY <2>1, <2>2, HandlesIs DEF Marks
<1>. QED  BY <1>1, <1>2

OwnFound(c) == {i \in DOMAIN entries : entries[i].id = id_of[c]}
KeyFound(c) == {i \in DOMAIN entries : entries[i].key = KeyOf[c] /\ ~entries[i].committed}

LEMMA MarkSteps ==
  ASSUME TypeOK, NEW c \in Clients, CommitMark(c) \/ FinalizeMark(c)
  PROVE  \E from \in {"unlinked", "uploaded"}, found \in {OwnFound(c), KeyFound(c)} :
           /\ \/ c \notin V2 /\ from = "unlinked" /\ found = OwnFound(c)
              \/ c \in V2 /\ from = "uploaded" /\ found = KeyFound(c)
           /\ \/ /\ stage[c] = from /\ Handler(c, "gone")
                 /\ UNCHANGED <<entries, key_index, next_id, temps, s3, id_of>>
              \/ Marks(c, from, found)
<1>0. OwnFound(c) \in SUBSET (DOMAIN entries) /\ KeyFound(c) \in SUBSET (DOMAIN entries)
  BY DEF OwnFound, KeyFound
<1>1. CASE CommitMark(c)
  <2>1. c \notin V2 /\ Mark(c, "unlinked", OwnFound(c))
    BY <1>1 DEF CommitMark, MarkOwn, OwnFound
  <2>. QED  BY <1>0, <2>1, MarkIs
<1>2. CASE FinalizeMark(c)
  <2>1. c \in V2 /\ Mark(c, "uploaded", KeyFound(c))
    BY <1>2 DEF FinalizeMark, KeyFound
  <2>. QED  BY <1>0, <2>1, MarkIs
<1>. QED  BY <1>1, <1>2

--------------------------------------------------------------------------------
(* The types, step by step                                                 *)

HandlerStep(c) ==
  \/ RemoveOld(c) \/ PushEntry(c) \/ Upload(c)
  \/ CommitStore(c) \/ CommitUnlink(c) \/ CommitMark(c) \/ FinalizeMark(c) \/ InsertIndex(c)

LEMMA HandlerStepTyped ==
  ASSUME Typed, NEW c \in Clients, HandlerStep(c)
  PROVE  Typed'
<1>0. Kinds /\ TypeOK /\ next_id \in Nat /\ KeyOf[c] \in Keys
  BY KindsIs DEF Keys
<1>. USE DEF server, files
<1>1. CASE RemoveOld(c)
  <2>1. /\ Handles(c, "idle", "removed") /\ entries' = Without(entries, key_index[KeyOf[c]])
        /\ key_index' = [key_index EXCEPT ![KeyOf[c]] = 0]
        /\ UNCHANGED <<next_id, temps, s3, id_of>>
    BY <1>1 DEF RemoveOld, RemoveFor
  <2>2. entries' \in Seq(Entry) /\ EntriesOf' \subseteq EntriesOf
    BY <1>0, <2>1, Retained, EntriesOfIs DEF Kinds
  <2>3. Kinds'
    BY <1>0, <2>1, <2>2 DEF Kinds
  <2>4. stage[c] = "idle" /\ Handler(c, "removed")
    BY <2>1, HandlesIs
  <2>. QED  BY <2>1, <2>3, <2>4, HandlerTyped
<1>2. CASE PushEntry(c)
  <2>. DEFINE e == EntryOf(c, FALSE)
  <2>1. /\ Handles(c, "allocated", "pushed") /\ entries' = Append(entries, e)
        /\ UNCHANGED <<key_index, next_id, temps, s3, id_of>>
    BY <1>2 DEF PushEntry, EntryOf
  <2>2. stage[c] = "allocated" /\ Handler(c, "pushed")
    BY <2>1, HandlesIs
  <2>3. id_of[c] \in Ids /\ id_of[c] < next_id
    BY <2>2, <1>0 DEF Typed, InHand, Kinds
  <2>4. e \in Entry /\ e.id = id_of[c]
    BY <1>0, <2>3 DEF Entry, EntryOf
  <2>. HIDE DEF e
  <2>5. entries' \in Seq(Entry) /\ EntriesOf' = EntriesOf \cup {e}
    BY <1>0, <2>1, <2>4, Appended, EntriesOfIs DEF Kinds
  <2>6. Kinds'
    BY <1>0, <2>1, <2>3, <2>4, <2>5 DEF Kinds
  <2>. QED  BY <2>1, <2>2, <2>6, HandlerTyped DEF Stages, Handling
<1>3. CASE Upload(c)
  <2>1. PICK to \in {"uploaded", "gone"} : Handles(c, "reserved", to)
    BY <1>3 DEF Upload
  <2>2. stage[c] = "reserved" /\ Handler(c, to)
    BY <2>1, HandlesIs
  <2>3. UNCHANGED <<entries, key_index, next_id, id_of>> /\ UNCHANGED EntriesOf
    BY <1>3 DEF Upload, EntriesOf
  <2>4. \A i \in DOMAIN temps' : i \in Ids /\ temps'[i] \in Clients \cup {NoOne}
    BY <1>0, <1>3 DEF Upload, Kinds
  <2>5. s3' \in [Ids -> Clients \cup {NoOne}]
    BY <1>0, <1>3 DEF Upload, Kinds
  <2>6. Kinds'
    BY <1>0, <2>3, <2>4, <2>5 DEF Kinds
  <2>. QED  BY <2>2, <2>3, <2>6, HandlerTyped DEF Stages, Ended
<1>4. CASE CommitStore(c)
  <2>1. PICK to \in {"stored", "gone"} : Handles(c, "uploaded", to)
    BY <1>4 DEF CommitStore
  <2>2. stage[c] = "uploaded" /\ Handler(c, to)
    BY <2>1, HandlesIs
  <2>3. UNCHANGED <<entries, key_index, next_id, temps, id_of>> /\ UNCHANGED EntriesOf
    BY <1>4 DEF CommitStore, EntriesOf
  <2>4. s3' \in [Ids -> Clients \cup {NoOne}]
    BY <1>0, <1>4 DEF CommitStore, Kinds
  <2>5. Kinds'
    BY <1>0, <2>3, <2>4 DEF Kinds
  <2>. QED  BY <2>2, <2>3, <2>5, HandlerTyped DEF Stages, Ended, Handling
<1>5. CASE CommitUnlink(c)
  <2>1. stage[c] = "stored" /\ Handler(c, "unlinked")
    BY <1>5, HandlesIs DEF CommitUnlink
  <2>2. UNCHANGED <<entries, key_index, next_id, s3, id_of>> /\ UNCHANGED EntriesOf
    BY <1>5 DEF CommitUnlink, EntriesOf
  <2>3. \A i \in DOMAIN temps' : i \in Ids /\ temps'[i] \in Clients \cup {NoOne}
    BY <1>0, <1>5 DEF CommitUnlink, Kinds
  <2>4. Kinds'
    BY <1>0, <2>2, <2>3 DEF Kinds
  <2>. QED  BY <2>1, <2>2, <2>4, HandlerTyped DEF Stages, Handling
<1>6. CASE CommitMark(c) \/ FinalizeMark(c)
  <2>1. PICK from \in {"unlinked", "uploaded"}, found \in {OwnFound(c), KeyFound(c)} :
          \/ /\ stage[c] = from /\ Handler(c, "gone")
             /\ UNCHANGED <<entries, key_index, next_id, temps, s3, id_of>>
          \/ Marks(c, from, found)
    BY <1>0, <1>6, MarkSteps
  <2>2. stage[c] \in {"unlinked", "uploaded"}
    BY <2>1 DEF Marks
  <2>3. CASE Handler(c, "gone") /\ UNCHANGED <<entries, key_index, next_id, temps, s3, id_of>>
    <3>1. UNCHANGED EntriesOf
      BY <2>3 DEF EntriesOf
    <3>2. Kinds'
      BY <1>0, <2>3, <3>1 DEF Kinds
    <3>. QED  BY <2>2, <2>3, <3>2, HandlerTyped DEF Stages, Ended
  <2>4. CASE Marks(c, from, found)
    <3>1. PICK i \in found :
            entries' = Commit(entries, i) /\ id_of' = [id_of EXCEPT ![c] = entries[i].id]
      BY <2>4 DEF Marks
    <3>2. i \in DOMAIN entries /\ entries[i] \in Entry /\ entries[i] \in EntriesOf
      <4>1. i \in DOMAIN entries
        BY <3>1 DEF OwnFound, KeyFound
      <4>. QED  BY <1>0, <4>1 DEF EntriesOf, Kinds
    <3>3. entries' \in Seq(Entry) /\ \A e \in EntriesOf' : e.id < next_id
      <4>1. /\ Commit(entries, i) \in Seq(Entry)
            /\ \A x \in Elements(Commit(entries, i)) : x \in EntriesOf \/ x.id = entries[i].id
        <5>. DEFINE e == [entries[i] EXCEPT !.committed = TRUE]
        <5>1. /\ Commit(entries, i) \in Seq(Entry) /\ e.id = entries[i].id
              /\ Elements(Commit(entries, i)) \subseteq Elements(entries) \cup {e}
          BY <1>0, <3>2, Committing, Zenon DEF Kinds
        <5>. HIDE DEF e
        <5>. QED  BY <5>1, EntriesOfIs
      <4>2. entries[i].id < next_id
        BY <1>0, <3>2 DEF Kinds
      <4>3. EntriesOf' = Elements(Commit(entries, i))
        BY <3>1, EntriesOfIs
      <4>. QED  BY <1>0, <3>1, <4>1, <4>2, <4>3 DEF Kinds
    <3>4. id_of' \in [Clients -> Ids \cup {0}]
      BY <1>0, <3>1, <3>2 DEF Entry, Kinds
    <3>5. Kinds'
      BY <1>0, <2>4, <3>3, <3>4 DEF Kinds, Marks
    <3>. QED  BY <2>2, <2>4, <3>1, <3>5, HandlerTyped DEF Marks, Stages, Handling
  <2>. QED  BY <2>1, <2>3, <2>4
<1>7. CASE InsertIndex(c)
  <2>1. /\ Handles(c, "marked", "indexed")
        /\ key_index' = [key_index EXCEPT ![KeyOf[c]] = id_of[c]]
        /\ UNCHANGED <<entries, next_id, temps, s3, id_of>> /\ UNCHANGED EntriesOf
    BY <1>7 DEF InsertIndex, InsertThen, EntriesOf
  <2>2. stage[c] = "marked" /\ Handler(c, "indexed")
    BY <2>1, HandlesIs
  <2>3. Kinds'
    BY <1>0, <2>1 DEF Kinds
  <2>. QED  BY <2>1, <2>2, <2>3, HandlerTyped DEF Stages, Handling
<1>. QED  BY <1>1, <1>2, <1>3, <1>4, <1>5, <1>6, <1>7 DEF HandlerStep

LEMMA AllocateTyped ==
  ASSUME Typed, NEW c \in Clients, Allocate(c)
  PROVE  Typed'
<1>0. Kinds /\ TypeOK /\ next_id \in Nat
  BY KindsIs
<1>1. /\ stage[c] = "removed" /\ Handler(c, "allocated")
      /\ id_of' = [id_of EXCEPT ![c] = next_id] /\ next_id' = next_id + 1
      /\ UNCHANGED <<entries, key_index, s3>>
  BY HandlesIs DEF Allocate
<1>. USE DEF Handler
<1>2. c \notin Started /\ Started' = Started \cup {c}
  BY <1>1, TypeOKIs, <1>0 DEF Started
<1>3. /\ Cardinality(Started') = Cardinality(Started) + 1
      /\ Cardinality(Started) + 1 <= Cardinality(Clients)
  BY <1>2, OneMoreStarts
<1>4. next_id \in Ids /\ next_id' \in 1..(Cardinality(Clients) + 1) /\ Allotted'
  BY <1>0, <1>1, <1>3, Counts, TypeOKIs DEF Typed, Allotted, Ids
<1>5. \A i \in DOMAIN temps' : i \in Ids /\ temps'[i] \in Clients \cup {NoOne}
  <2>1. CASE c \in V2
    BY <2>1, <1>0 DEF Allocate, Kinds
  <2>2. CASE c \notin V2
    BY <2>2, <1>0, <1>4 DEF Allocate, Kinds
  <2>. QED  BY <2>1, <2>2
<1>6. stage' \in [Clients -> Stages] /\ id_of' \in [Clients -> Ids \cup {0}]
  BY <1>0, <1>1, <1>4, TypeOKIs DEF Stages, Handling
<1>7. TypeOK'
  BY <1>0, <1>1, <1>4, <1>5, <1>6, TypeOKIs DEF TypeOK, Stages, Progress
<1>8. Below'
  <2>1. Known' = Known
    BY <1>1, KnownIs DEF Known, EntriesOf
  <2>2. \A e \in Known : e.id \in Nat
    <3>1. Loaded \in Seq(Entry)
      BY <1>0, LoadedType, TypeOKIs
    <3>2. \A e \in Known : e \in Entry
      BY <1>0, <3>1, TypeOKIs DEF Known, OnDisk, Elements, EntriesOf
    <3>3. Ids \subseteq Nat
      BY Counts DEF Ids
    <3>. QED  BY <3>2, <3>3 DEF Entry
  <2>. QED  BY <1>0, <1>1, <2>1, <2>2 DEF Typed, Below
<1>9. InHand' /\ SavesAtEnd'
  BY <1>0, <1>1, TypeOKIs DEF Typed, InHand, SavesAtEnd
<1>. QED  BY <1>4, <1>7, <1>8, <1>9 DEF Typed

--------------------------------------------------------------------------------
(* A restart                                                               *)

LEMMA GreatestIs ==
  ASSUME NEW m \in Nat, NEW S \in SUBSET (1..m), S # {}
  PROVE  Greatest(S) \in S /\ \A i \in S : i <= Greatest(S)
<1>. DEFINE Down == {m - i : i \in S}
<1>1. Down \in SUBSET Nat /\ Down # {}
  <2>1. \A i \in S : m - i \in Nat
    OBVIOUS
  <2>2. PICK i \in S : TRUE
    OBVIOUS
  <2>3. m - i \in Down
    OBVIOUS
  <2>. QED  BY <2>1, <2>3
<1>. HIDE DEF Down
<1>2. PICK d \in Down : \A k \in Down : d <= k
  BY <1>1, Least
<1>. USE DEF Down
<1>3. PICK g \in S : d = m - g
  OBVIOUS
<1>4. ASSUME NEW i \in S PROVE i <= g
  <2>1. m - i \in Down
    OBVIOUS
  <2>2. m - g <= m - i
    BY <1>2, <1>3, <2>1
  <2>. QED  BY <2>2
<1>. HIDE DEF Down
<1>. QED  BY <1>4, Zenon DEF Greatest

LEMMA LastIs ==
  ASSUME Loaded \in Seq(Entry), NEW k, LastCommitted(k) # 0
  PROVE  \E e \in OnDisk : e.id = LastCommitted(k) /\ e.key = k /\ e.committed
<1>. DEFINE at == {i \in DOMAIN Loaded : Loaded[i].key = k /\ Loaded[i].committed}
<1>1. LastCommitted(k) = IF at = {} THEN 0 ELSE Loaded[Greatest(at)].id
  BY Zenon DEF LastCommitted
<1>2. at \in SUBSET (1..Len(Loaded)) /\ Len(Loaded) \in Nat
  OBVIOUS
<1>3. at # {}
  BY <1>1
<1>. HIDE DEF at
<1>4. Greatest(at) \in at
  BY <1>2, <1>3, GreatestIs
<1>. DEFINE e == Loaded[Greatest(at)]
<1>5. e \in OnDisk /\ e.key = k /\ e.committed /\ e.id = LastCommitted(k)
  BY <1>1, <1>3, <1>4 DEF at, OnDisk, Elements
<1>. QED  BY <1>5

\* What a restart finds on disk.
LEMMA KeptIs ==
  ASSUME Typed
  PROVE  /\ Loaded \in Seq(Entry)
         /\ KeptIds = {e.id : e \in OnDisk}
         /\ Greatest(KeptIds) \in Nat /\ Greatest(KeptIds) < next_id
         /\ \A e \in OnDisk : e.id \in 1..Greatest(KeptIds)
<1>1. TypeOK /\ next_id \in Nat /\ next_id >= 1
  BY TypeOKIs DEF Typed
<1>2. Loaded \in Seq(Entry)
  BY <1>1, LoadedType, TypeOKIs
<1>3. KeptIds = {e.id : e \in OnDisk}
  BY DEF KeptIds, OnDisk, Elements
<1>4. \A e \in OnDisk : e.id \in 1..(next_id - 1)
  <2>1. \A e \in OnDisk : e \in Entry
    BY <1>2 DEF OnDisk, Elements
  <2>2. \A i \in Ids : i \in Nat /\ i >= 1
    BY Counts DEF Ids
  <2>. QED  BY <1>1, <2>1, <2>2 DEF Entry, Typed, Below, Known
<1>5. KeptIds \in SUBSET (1..(next_id - 1)) /\ next_id - 1 \in Nat
  BY <1>1, <1>3, <1>4
<1>6. CASE KeptIds = {}
  <2>1. Greatest(KeptIds) = 0 /\ OnDisk = {}
    BY <1>3, <1>6 DEF Greatest
  <2>. QED  BY <1>1, <1>2, <1>3, <2>1
<1>7. CASE KeptIds # {}
  <2>1. Greatest(KeptIds) \in KeptIds /\ \A i \in KeptIds : i <= Greatest(KeptIds)
    BY <1>5, <1>7, GreatestIs
  <2>. QED  BY <1>1, <1>2, <1>3, <1>4, <1>5, <2>1
<1>. QED  BY <1>6, <1>7

LEMMA RestartTyped ==
  ASSUME Typed, Restart
  PROVE  Typed'
<1>. DEFINE id == 1 + Greatest(KeptIds)
<1>0. Kinds /\ TypeOK /\ next_id \in Nat
  BY KindsIs
<1>1. /\ Loaded \in Seq(Entry) /\ id \in Nat /\ id >= 1 /\ id <= next_id
      /\ \A e \in OnDisk : e.id < id /\ e.id \in Ids
  <2>1. \A e \in OnDisk : e \in Entry
    BY KeptIs DEF OnDisk, Elements
  <2>. QED  BY KeptIs, <1>0, <2>1 DEF Entry
<1>. HIDE DEF id
<1>2. /\ entries' = Loaded /\ next_id' = id /\ restarts < MaxRestarts /\ restarts' = restarts + 1
      /\ key_index' = [k \in Keys |-> LastCommitted(k)]
      /\ stage' = [c \in Clients |-> IF stage[c] \in Handling THEN "aborted" ELSE stage[c]]
      /\ saving' = [c \in Clients |-> "no"] /\ UNCHANGED <<s3, disk, temp, id_of>>
      /\ temps' = [i \in DOMAIN temps \cap (KeptIds \ Committed(Loaded)) |-> temps[i]]
  BY DEF Restart, RestartFrom, index_files, id
<1>3. key_index' \in [Keys -> Ids \cup {0}]
  <2>1. \A k \in Keys : LastCommitted(k) \in Ids \cup {0}
    BY <1>1, LastIs
  <2>. QED  BY <1>2, <2>1
<1>4. \A i \in DOMAIN temps' : i \in Ids /\ temps'[i] \in Clients \cup {NoOne}
  BY <1>0, <1>2 DEF Kinds
<1>5. stage' \in [Clients -> Stages] /\ saving' \in [Clients -> Progress]
  BY <1>0, <1>2, TypeOKIs DEF Stages, Progress, Ended
<1>6. id \in 1..(Cardinality(Clients) + 1) /\ restarts' \in 0..MaxRestarts
  BY <1>0, <1>1, <1>2, TypeOKIs, Counts, CacheAssumption
<1>7. TypeOK'
  BY <1>0, <1>1, <1>2, <1>3, <1>4, <1>5, <1>6, TypeOKIs DEF TypeOK, Stages, Progress
<1>8. Allotted'
  <2>1. \A d \in Clients : d \in Started => d \in Started'
    BY <1>0, <1>2, TypeOKIs DEF Started
  <2>. QED  BY <1>0, <1>1, <1>2, <2>1, StartedGrows, Counts DEF Typed, Allotted
<1>9. Below'
  <2>1. Known' = OnDisk
    BY <1>2, KnownIs, EntriesOfIs DEF OnDisk, Elements
  <2>. QED  BY <1>1, <1>2, <2>1 DEF Below
<1>10. InHand' /\ SavesAtEnd'
  BY <1>2 DEF InHand, SavesAtEnd, Handling
<1>. QED  BY <1>7, <1>8, <1>9, <1>10 DEF Typed

LEMMA StepIs ==
  ASSUME NEW c \in Clients, Step(c)
  PROVE  HandlerStep(c) \/ Allocate(c) \/ Saving(c)
  BY DEF Step, HandlerStep, Saving

LEMMA NextTyped == Typed /\ [Next]_vars => Typed'
<1>. SUFFICES ASSUME Typed, [Next]_vars PROVE Typed'
  OBVIOUS
<1>1. CASE UNCHANGED vars \/ Done
  <2>1. UNCHANGED vars
    BY <1>1 DEF Done
  <2>. QED
    BY <2>1, KnownIs
    DEF vars, Typed, TypeOK, Allotted, Below, InHand, SavesAtEnd, Started, Known, EntriesOf
<1>2. ASSUME NEW c \in Clients, Step(c) PROVE Typed'
  BY <1>2, StepIs, HandlerStepTyped, AllocateTyped, SaveTyped
<1>. QED  BY <1>1, <1>2, RestartTyped DEF Next

LEMMA TypedIsInvariant == Spec => []Typed
  BY InitTyped, NextTyped, PTL DEF Spec

(* For every set of clients and keys and any number of restarts, also from  *)
(* a truncated index: the types, in particular that ids given out stay      *)
(* within as many as there are clients.                                    *)
THEOREM TypeCorrect == Spec => []TypeOK
<1>1. Typed => TypeOK
  BY DEF Typed
<1>. QED  BY <1>1, TypedIsInvariant, PTL

--------------------------------------------------------------------------------
(* The index file: unless it is current, somebody is going to write it.    *)

Writes(c) == saving[c] \notin {"no", "locked"}
Unsaved == {"removed", "allocated", "pushed", "marked", "indexed"}
Owes(c) ==
  \/ saving[c] = "no" /\ stage[c] \in Unsaved
  \/ saving[c] \in {"locked", "writing", "overtaken"}
  \/ saving[c] = "written" /\ temp # "none"

Current ==
  /\ \A c \in Clients : saving[c] = "writing" => temp # "none"
  /\ temp = "partial" /\ (\E c \in Clients : Writes(c)) =>
       \E c \in Clients : saving[c] = "writing"
  /\ disk = <<entries>> \/ \E c \in Clients : Owes(c)

LEMMA InitCurrent == Init => Current
  BY DEF Init, Current, Writes

\* A handler that changes entries saves the index later; the others do not.
LEMMA HandlerCurrent ==
  ASSUME Typed, Current, NEW c \in Clients, NEW to, Handler(c, to),
         stage[c] \notin {"pushed", "indexed"},
         \/ to \in Unsaved
         \/ UNCHANGED entries /\ stage[c] \notin Unsaved
  PROVE  Current'
<1>1. /\ stage' = [stage EXCEPT ![c] = to] /\ UNCHANGED <<disk, temp, saving>>
      /\ stage \in [Clients -> Stages] /\ saving \in [Clients -> Progress]
  BY TypeOKIs DEF Handler, Typed
<1>2. CASE to \in Unsaved
  <2>1. saving[c] = "no"
    BY DEF Typed, SavesAtEnd
  <2>2. Owes(c)'
    BY <1>1, <1>2, <2>1 DEF Owes
  <2>3. \A d \in Clients : Writes(d)' <=> Writes(d)
    BY <1>1 DEF Writes
  <2>. QED  BY <1>1, <2>2, <2>3 DEF Current
<1>3. CASE UNCHANGED entries /\ stage[c] \notin Unsaved
  <2>1. \A d \in Clients : Owes(d) => Owes(d)'
    BY <1>1, <1>3 DEF Owes
  <2>. QED  BY <1>1, <1>3, <2>1 DEF Current, Writes
<1>. QED  BY <1>2, <1>3

LEMMA HandlerStepCurrent ==
  ASSUME Typed, Current, NEW c \in Clients, HandlerStep(c) \/ Allocate(c)
  PROVE  Current'
<1>0. TypeOK
  BY DEF Typed
<1>1. CASE RemoveOld(c)
  <2>1. stage[c] = "idle" /\ Handler(c, "removed")
    BY <1>1, HandlesIs DEF RemoveOld, RemoveFor
  <2>. QED  BY <2>1, HandlerCurrent DEF Unsaved
<1>2. CASE PushEntry(c)
  <2>1. stage[c] = "allocated" /\ Handler(c, "pushed")
    BY <1>2, HandlesIs DEF PushEntry
  <2>. QED  BY <2>1, HandlerCurrent DEF Unsaved
<1>3. CASE Upload(c)
  <2>1. PICK to \in {"uploaded", "gone"} : Handles(c, "reserved", to) /\ UNCHANGED entries
    BY <1>3 DEF Upload, server
  <2>2. stage[c] = "reserved" /\ Handler(c, to)
    BY <2>1, HandlesIs
  <2>. QED  BY <2>1, <2>2, HandlerCurrent DEF Unsaved
<1>4. CASE CommitStore(c)
  <2>1. PICK to \in {"stored", "gone"} : Handles(c, "uploaded", to) /\ UNCHANGED entries
    BY <1>4 DEF CommitStore, server
  <2>2. stage[c] = "uploaded" /\ Handler(c, to)
    BY <2>1, HandlesIs
  <2>. QED  BY <2>1, <2>2, HandlerCurrent DEF Unsaved
<1>5. CASE CommitUnlink(c)
  <2>1. stage[c] = "stored" /\ Handler(c, "unlinked") /\ UNCHANGED entries
    BY <1>5, HandlesIs DEF CommitUnlink, server
  <2>. QED  BY <2>1, HandlerCurrent DEF Unsaved
<1>6. CASE CommitMark(c) \/ FinalizeMark(c)
  <2>1. /\ stage[c] \in {"unlinked", "uploaded"}
        /\ Handler(c, "marked") \/ (Handler(c, "gone") /\ UNCHANGED entries)
    BY <1>0, <1>6, MarkSteps DEF Marks
  <2>. QED  BY <2>1, HandlerCurrent DEF Unsaved
<1>7. CASE InsertIndex(c)
  <2>1. stage[c] = "marked" /\ Handler(c, "indexed")
    BY <1>7, HandlesIs DEF InsertIndex, InsertThen
  <2>. QED  BY <2>1, HandlerCurrent DEF Unsaved
<1>8. CASE Allocate(c)
  <2>1. stage[c] = "removed" /\ Handler(c, "allocated")
    BY <1>8, HandlesIs DEF Allocate
  <2>. QED  BY <2>1, HandlerCurrent DEF Unsaved
<1>. QED  BY <1>1, <1>2, <1>3, <1>4, <1>5, <1>6, <1>7, <1>8 DEF HandlerStep

LEMMA SaveCurrent ==
  ASSUME Typed, Current, NEW c \in Clients, Saving(c)
  PROVE  Current'
<1>0. /\ stage \in [Clients -> Stages] /\ saving \in [Clients -> Progress]
      /\ temp \in {"none", "partial", "full"}
  BY TypeOKIs DEF Typed
<1>. USE DEF Saves, server, files, index_files
<1>1. CASE SaveBegin(c)
  <2>1. saving' = [saving EXCEPT ![c] = "locked"] /\ UNCHANGED <<entries, disk, temp, stage>>
    BY <1>1 DEF SaveBegin
  <2>2. Owes(c)' /\ saving[c] = "no"
    BY <1>0, <1>1, <2>1 DEF SaveBegin, Owes
  <2>3. \A d \in Clients : Writes(d)' => Writes(d)
    BY <1>0, <2>1 DEF Writes
  <2>4. \A d \in Clients : saving'[d] = "writing" <=> saving[d] = "writing"
    BY <1>0, <2>1, <2>2
  <2>. QED  BY <2>1, <2>2, <2>3, <2>4 DEF Current
<1>2. CASE SaveOpen(c)
  <2>1. saving'[c] = "writing" /\ temp' = "partial"
    BY <1>0, <1>2 DEF SaveOpen
  <2>. QED  BY <2>1 DEF Current, Owes
<1>3. CASE SaveWrite(c)
  <2>1. /\ saving' = [saving EXCEPT ![c] = "written"] /\ UNCHANGED <<entries, stage>>
        /\ Writes(c)
    BY <1>3 DEF SaveWrite, Writes
  <2>2. CASE saving[c] = "writing" /\ temp' = "full" /\ UNCHANGED disk
    <3>1. Owes(c)'
      BY <1>0, <2>1, <2>2 DEF Owes
    <3>. QED  BY <1>0, <2>1, <2>2, <3>1 DEF Current
  <2>3. CASE saving[c] \in {"overtaken", "lost"} /\ UNCHANGED temp
    <3>1. \A d \in Clients : saving'[d] = "writing" <=> saving[d] = "writing"
      BY <1>0, <2>1, <2>3
    <3>2. (\E d \in Clients : Writes(d)') => \E d \in Clients : Writes(d)
      BY <2>1
    <3>3. disk' = <<entries'>> \/ \E d \in Clients : Owes(d)'
      <4>1. CASE saving[c] = "overtaken"
        BY <1>3, <2>1, <4>1 DEF SaveWrite
      <4>2. CASE saving[c] = "lost"
        <5>1. UNCHANGED disk
          BY <1>3, <4>2 DEF SaveWrite
        <5>2. \A d \in Clients : Owes(d) => Owes(d)'
          BY <1>0, <2>1, <2>3, <4>2 DEF Owes
        <5>. QED  BY <2>1, <5>1, <5>2 DEF Current
      <4>. QED  BY <2>3, <4>1, <4>2
    <3>. QED  BY <2>3, <3>1, <3>2, <3>3 DEF Current
  <2>. QED  BY <1>3, <2>2, <2>3 DEF SaveWrite
<1>4. CASE SaveRename(c)
  <2>1. saving[c] = "written" /\ UNCHANGED entries
    BY <1>4 DEF SaveRename
  <2>2. CASE temp = "none"
    <3>1. /\ saving' = [saving EXCEPT ![c] = "no"] /\ stage' = [stage EXCEPT ![c] = "failed"]
          /\ UNCHANGED <<disk, temp>>
      BY <1>4, <2>2 DEF SaveRename
    <3>2. \A d \in Clients : Owes(d) => Owes(d)'
      BY <1>0, <2>1, <2>2, <3>1 DEF Owes
    <3>3. \A d \in Clients :
            saving'[d] # "writing" /\ (saving'[d] = "writing" <=> saving[d] = "writing")
      BY <1>0, <2>1, <2>2, <3>1 DEF Current
    <3>. QED  BY <2>1, <2>2, <3>1, <3>2, <3>3 DEF Current
  <2>3. CASE temp # "none"
    <3>1. /\ saving' = [d \in Clients |-> CASE d = c -> "no"
                                            [] saving[d] = "writing" -> "overtaken"
                                            [] saving[d] = "overtaken" -> "lost"
                                            [] OTHER -> saving[d]]
          /\ disk' = (IF temp = "full" THEN <<entries>> ELSE <<>>) /\ temp' = "none"
      BY <1>4, <2>3 DEF SaveRename
    <3>2. \A d \in Clients : saving'[d] # "writing"
      BY <1>0, <3>1 DEF Progress
    <3>3. CASE temp = "full"
      BY <2>1, <3>1, <3>2, <3>3 DEF Current
    <3>4. CASE temp = "partial"
      <4>1. PICK d \in Clients : saving[d] = "writing"
        BY <2>1, <3>4 DEF Current, Writes
      <4>2. saving'[d] = "overtaken"
        BY <2>1, <3>1, <4>1
      <4>. QED  BY <3>1, <3>2, <4>2 DEF Current, Owes
    <3>. QED  BY <1>0, <2>3, <3>3, <3>4
  <2>. QED  BY <2>2, <2>3
<1>. QED  BY <1>1, <1>2, <1>3, <1>4 DEF Saving

LEMMA NextCurrent == WholeIndex /\ Typed /\ Current /\ [Next]_vars => Current'
<1>. SUFFICES ASSUME WholeIndex, Typed, Current, [Next]_vars PROVE Current'
  OBVIOUS
<1>1. CASE UNCHANGED vars \/ Done
  <2>1. UNCHANGED vars
    BY <1>1 DEF Done
  <2>. QED  BY <2>1 DEF vars, Current, Writes, Owes
<1>2. CASE Restart
  <2>1. /\ entries' = Loaded /\ disk # <<>> /\ UNCHANGED <<disk, temp>>
        /\ saving' = [c \in Clients |-> "no"]
    BY <1>2 DEF Restart, RestartFrom, index_files
  <2>2. disk' = <<entries'>>
    BY <2>1, LoadedType, TypeOKIs DEF Typed
  <2>. QED  BY <2>1, <2>2 DEF Current, Writes
<1>3. ASSUME NEW c \in Clients, Step(c) PROVE Current'
  BY <1>3, StepIs, HandlerStepCurrent, SaveCurrent
<1>. QED  BY <1>1, <1>2, <1>3 DEF Next

(* For every set of clients, keys and restarts: as long as the process does *)
(* not die while index.json is half written, handlers that share one       *)
(* temporary file leave it whole and current when the last of them is done. *)
THEOREM QuietIndexCurrent == WholeIndex => (Spec => []QuietIndexIsCurrent)
<1>. SUFFICES ASSUME WholeIndex PROVE Spec => []QuietIndexIsCurrent
  OBVIOUS
<1>1. Typed /\ Current /\ [Next]_vars => Current'
  BY NextCurrent
<1>2. Typed /\ Current => QuietIndexIsCurrent
  BY DEF Typed, SavesAtEnd, Current, QuietIndexIsCurrent, Owes, Unsaved, Handling
<1>. QED  BY <1>1, <1>2, InitCurrent, TypedIsInvariant, PTL DEF Spec

--------------------------------------------------------------------------------
(* Ids, entries and archives                                               *)

(* A v2 save has its key to itself: finalize names the key and not the     *)
(* entry, and two saves of one key do go wrong.                            *)
OwnKeys == \A c \in V2, d \in Clients : c # d => KeyOf[c] # KeyOf[d]

Working == {c \in Clients : stage[c] \notin Ended \cup {"idle", "removed"}}
Uploading == {"reserved", "uploaded", "stored", "unlinked"}

Numbered ==
  /\ Distinct(entries) /\ Distinct(Loaded)
  /\ \A c \in Working : id_of[c] \in 1..(next_id - 1)
  /\ \A c, d \in Working : id_of[c] = id_of[d] => c = d

Indexed ==
  \A k \in Keys : key_index[k] # 0 =>
    \E e \in EntriesOf : e.id = key_index[k] /\ e.key = k /\ e.committed

\* The entry of a client, from its id to its mark, in memory and on disk.
Follows(c) ==
  /\ stage[c] = "allocated" => \A e \in Known : e.id # id_of[c]
  /\ stage[c] \in Uploading \cup {"pushed"} => EntryOf(c, FALSE) \in EntriesOf
  /\ stage[c] \in Uploading /\ disk # <<>> => EntryOf(c, FALSE) \in OnDisk
  /\ stage[c] = "marked" =>
       EntryOf(c, TRUE) \in EntriesOf /\ \A k \in Keys : key_index[k] # id_of[c]
  /\ c \in V2 => \A e \in Known : e.key = KeyOf[c] =>
       stage[c] \notin {"idle", "removed", "allocated"} /\ e.id = id_of[c]

\* Its archive, from the upload on.
Stored(c) ==
  /\ stage[c] = "uploaded" /\ c \in V2 => s3[id_of[c]] = c
  /\ stage[c] = "uploaded" /\ c \notin V2 /\ id_of[c] \in DOMAIN temps => temps[id_of[c]] = c
  /\ stage[c] \in {"stored", "unlinked", "marked", "indexed"} => s3[id_of[c]] = c
  /\ stage[c] = "saved" /\ s3[id_of[c]] = c /\ id_of[c] \in Committed(entries) /\ disk # <<>>
       => id_of[c] \in Committed(Loaded)

HasArchive(e) == s3[e.id] # NoOne /\ KeyOf[s3[e.id]] = e.key

Following == \A c \in Clients : Follows(c)
Storing == \A c \in Clients : Stored(c)
Archived == \A e \in Known : e.committed => HasArchive(e)

Owned == Numbered /\ Indexed /\ Following /\ Storing /\ Archived

LEMMA SameId ==
  ASSUME Numbered
  PROVE  /\ \A x, y \in EntriesOf : x.id = y.id => x = y
         /\ \A x, y \in OnDisk : x.id = y.id => x = y
  BY EntriesOfIs DEF Numbered, Distinct, OnDisk, Elements, EntriesOf

LEMMA CommittedIs ==
  ASSUME NEW es
  PROVE  Committed(es) = {e.id : e \in {x \in Elements(es) : x.committed}}
  BY DEF Committed, Elements

LEMMA EntryOfIs ==
  ASSUME NEW c, NEW b
  PROVE  /\ EntryOf(c, b).id = id_of[c] /\ EntryOf(c, b).key = KeyOf[c]
         /\ EntryOf(c, b).committed = b
         /\ id_of'[c] = id_of[c] => EntryOf(c, b)' = EntryOf(c, b)
  BY DEF EntryOf

LEMMA InitOwned == Init => Owned
<1>. SUFFICES ASSUME Init PROVE Owned
  OBVIOUS
<1>1. disk = << <<>> >> /\ entries = <<>>
  BY DEF Init
<1>2. disk[1] = <<>> /\ disk # <<>>
  BY <1>1, NoElements
<1>3. Loaded = <<>>
  BY <1>2 DEF Loaded
<1>4. Known = {}
  BY <1>1, <1>3, NoElements, EntriesOfIs DEF Known, OnDisk
<1>5. \A c \in Clients : stage[c] = "idle"
  BY DEF Init
<1>6. Numbered
  BY <1>1, <1>3, <1>5, NoElements DEF Numbered, Working
<1>7. Indexed
  BY DEF Init, Indexed
<1>8. Following /\ Storing
  BY <1>4, <1>5 DEF Following, Follows, Storing, Stored, Uploading
<1>. QED  BY <1>4, <1>6, <1>7, <1>8 DEF Owned, Archived

\* What is known about a client at work.
LEMMA AtWork ==
  ASSUME Typed, Owned, NEW c \in Clients
  PROVE  /\ Follows(c) /\ Stored(c)
         /\ c \in Working =>
              /\ id_of[c] \in Ids /\ id_of[c] \in 1..(next_id - 1) /\ id_of[c] # 0
              /\ \A d \in Working : d # c => id_of[d] # id_of[c]
<1>1. next_id \in Nat /\ id_of[c] \in Ids \cup {0}
  BY KindsIs DEF Kinds
<1>. QED  BY <1>1 DEF Owned, Numbered, Following, Storing

LEMMA SaveOwned ==
  ASSUME Typed, Owned, NEW c \in Clients, Saving(c)
  PROVE  Owned'
<1>1. SaveStep(c) /\ TypeOK /\ stage \in [Clients -> Stages]
  BY SaveSteps, TypeOKIs DEF Typed, SavesAtEnd
<1>2. /\ Rewrites
      /\ disk' \in {<<>>, <<entries>>} => disk' = <<>> \/ Loaded' = entries
  BY <1>1, RewritesIs, TypeOKIs DEF SaveStep
<1>3. UNCHANGED <<entries, key_index, next_id, temps, s3, id_of>> /\ UNCHANGED EntriesOf
  BY <1>1 DEF SaveStep, EntriesOf
<1>4. OnDisk' \in {OnDisk, {}, EntriesOf} /\ Known' \subseteq Known
  BY <1>2, <1>3, NoElements, EntriesOfIs DEF Rewrites, Known, OnDisk
<1>5. /\ \A d \in Clients \ {c} : stage'[d] = stage[d]
      /\ \/ stage'[c] = stage[c]
         \/ stage'[c] = "failed"
         \/ /\ stage[c] \in {"pushed", "indexed"} /\ stage'[c] = Returns(c)
            /\ disk' \in {<<>>, <<entries>>}
  BY <1>1 DEF SaveStep
<1>6. Working' \subseteq Working
  BY <1>1, <1>5 DEF Working, Returns, Ended
<1>7. Numbered'
  BY <1>2, <1>3, <1>6, NoElements DEF Owned, Numbered, Rewrites
<1>8. Indexed'
  BY <1>3 DEF Owned, Indexed
<1>9. ASSUME NEW d \in Clients PROVE Follows(d)'
  <2>0. id_of'[d] = id_of[d]
    BY <1>3
  <2>1. Follows(d) /\ EntryOf(d, TRUE)' = EntryOf(d, TRUE) /\ EntryOf(d, FALSE)' = EntryOf(d, FALSE)
    <3>1. Follows(d)
      BY AtWork
    <3>. QED  BY <2>0, <3>1 DEF EntryOf
  <2>2. disk' # <<>> => (disk # <<>> /\ OnDisk' = OnDisk) \/ OnDisk' = EntriesOf
    BY <1>2, <1>3, EntriesOfIs DEF Rewrites, OnDisk
  <2>3. ASSUME stage'[d] = stage[d] PROVE Follows(d)'
    <3>1. stage[d] = "allocated" => \A e \in Known' : e.id # id_of'[d]
      BY <1>4, <2>0, <2>1 DEF Follows
    <3>2. stage[d] \in Uploading \cup {"pushed"} => EntryOf(d, FALSE)' \in EntriesOf'
      BY <1>3, <2>1 DEF Follows
    <3>3. stage[d] \in Uploading /\ disk' # <<>> => EntryOf(d, FALSE)' \in OnDisk'
      <4>1. stage[d] \in Uploading => EntryOf(d, FALSE) \in EntriesOf
        BY <2>1 DEF Follows
      <4>2. stage[d] \in Uploading /\ disk # <<>> => EntryOf(d, FALSE) \in OnDisk
        BY <2>1 DEF Follows
      <4>. QED  BY <2>1, <2>2, <4>1, <4>2
    <3>4. stage[d] = "marked" =>
            EntryOf(d, TRUE)' \in EntriesOf' /\ \A k \in Keys : key_index'[k] # id_of'[d]
      BY <1>3, <2>1 DEF Follows
    <3>5. d \in V2 => \A e \in Known' : e.key = KeyOf[d] =>
            stage[d] \notin {"idle", "removed", "allocated"} /\ e.id = id_of'[d]
      BY <1>4, <2>0, <2>1 DEF Follows
    <3>. QED  BY <2>3, <3>1, <3>2, <3>3, <3>4, <3>5 DEF Follows, Uploading
  <2>4. CASE stage'[d] # stage[d]
    <3>1. d = c /\ stage'[d] \in {"failed", "reserved", "saved"}
      BY <1>5, <2>4 DEF Returns
    <3>2. stage'[d] = "reserved" => stage[d] = "pushed" /\ (disk' = <<>> \/ OnDisk' = EntriesOf)
      BY <1>2, <1>3, <1>5, <2>4, <3>1, EntriesOfIs DEF Returns, OnDisk
    <3>3. stage[d] \in {"pushed", "indexed"}
      BY <1>1, <2>4, <3>1 DEF SaveStep
    <3>. QED  BY <1>3, <1>4, <2>1, <3>1, <3>2, <3>3 DEF Follows, Uploading
  <2>. QED  BY <2>3, <2>4
<1>10. ASSUME NEW d \in Clients PROVE Stored(d)'
  <2>1. Stored(d)
    BY AtWork
  <2>2. disk' # <<>> => (disk # <<>> /\ Loaded' = Loaded) \/ Loaded' = entries
    BY <1>2 DEF Rewrites
  <2>3. stage'[d] = stage[d] => Stored(d)'
    BY <1>3, <2>1, <2>2 DEF Stored
  <2>4. CASE stage'[d] # stage[d]
    <3>1. d = c /\ stage'[d] \in {"failed", "reserved", "saved"}
      BY <1>5, <2>4 DEF Returns
    <3>2. stage'[d] = "saved" => disk' = <<>> \/ Loaded' = entries
      BY <1>2, <1>5, <2>4, <3>1
    <3>. QED  BY <1>3, <3>1, <3>2 DEF Stored
  <2>. QED  BY <2>3, <2>4
<1>11. Archived'
  BY <1>3, <1>4 DEF Owned, Archived, HasArchive
<1>. QED  BY <1>7, <1>8, <1>9, <1>10, <1>11 DEF Owned, Following, Storing

--------------------------------------------------------------------------------
(* The handlers: what a step of one client leaves to the others            *)

LEMMA OthersFollow ==
  ASSUME Typed, Owned, NEW d \in Clients, UNCHANGED disk,
         stage'[d] = stage[d], id_of'[d] = id_of[d],
         \A e \in EntriesOf' :
           \/ e \in EntriesOf
           \/ (d \in Working => e.id # id_of[d]) /\ (d \in V2 => e.key # KeyOf[d]),
         d \in Working => \A e \in EntriesOf :
           e.id = id_of[d] /\ (~e.committed \/ \A k \in Keys : key_index[k] # e.id)
             => e \in EntriesOf',
         d \in Working => \A k \in Keys :
           key_index'[k] = key_index[k] \/ key_index'[k] # id_of[d]
  PROVE  Follows(d)'
<1>1. Follows(d) /\ EntryOf(d, TRUE)' = EntryOf(d, TRUE) /\ EntryOf(d, FALSE)' = EntryOf(d, FALSE)
  <2>1. Follows(d)
    BY AtWork
  <2>. QED  BY <2>1 DEF EntryOf
<1>2. OnDisk' = OnDisk /\ Known' = EntriesOf' \cup OnDisk
  BY KnownIs
<1>3. stage[d] \in {"allocated", "pushed", "marked"} \cup Uploading => d \in Working
  BY DEF Working, Ended, Uploading
<1>4. stage[d] = "allocated" => \A e \in Known' : e.id # id_of'[d]
  BY <1>1, <1>2, <1>3 DEF Follows, Known
<1>5. stage[d] \in Uploading \cup {"pushed"} => EntryOf(d, FALSE)' \in EntriesOf'
  <2>. SUFFICES ASSUME stage[d] \in Uploading \cup {"pushed"}
                PROVE  EntryOf(d, FALSE) \in EntriesOf'
    BY <1>1
  <2>1. EntryOf(d, FALSE) \in EntriesOf
    BY <1>1 DEF Follows
  <2>2. EntryOf(d, FALSE).id = id_of[d] /\ ~EntryOf(d, FALSE).committed
    BY DEF EntryOf
  <2>3. d \in Working
    BY <1>3
  <2>. QED  BY <2>1, <2>2, <2>3
<1>6. stage[d] \in Uploading /\ disk' # <<>> => EntryOf(d, FALSE)' \in OnDisk'
  BY <1>1, <1>2 DEF Follows
<1>7. stage[d] = "marked" =>
        EntryOf(d, TRUE)' \in EntriesOf' /\ \A k \in Keys : key_index'[k] # id_of'[d]
  <2>. SUFFICES ASSUME stage[d] = "marked"
                PROVE  EntryOf(d, TRUE) \in EntriesOf' /\ \A k \in Keys : key_index'[k] # id_of[d]
    BY <1>1
  <2>1. EntryOf(d, TRUE) \in EntriesOf /\ \A k \in Keys : key_index[k] # id_of[d]
    BY <1>1 DEF Follows
  <2>2. d \in Working
    BY <1>3
  <2>3. EntryOf(d, TRUE).id = id_of[d]
    BY DEF EntryOf
  <2>4. EntryOf(d, TRUE) \in EntriesOf'
    BY <2>1, <2>2, <2>3
  <2>5. \A k \in Keys : key_index'[k] # id_of[d]
    BY <2>1, <2>2
  <2>. QED  BY <2>4, <2>5
<1>8. d \in V2 => \A e \in Known' : e.key = KeyOf[d] =>
        stage[d] \notin {"idle", "removed", "allocated"} /\ e.id = id_of'[d]
  BY <1>1, <1>2 DEF Follows, Known
<1>. QED  BY <1>4, <1>5, <1>6, <1>7, <1>8 DEF Follows, Uploading

LEMMA OthersStored ==
  ASSUME Typed, Owned, NEW d \in Clients, UNCHANGED disk,
         stage'[d] = stage[d], id_of'[d] = id_of[d],
         s3'[id_of[d]] = s3[id_of[d]] \/ (d \notin Working /\ s3'[id_of[d]] # d),
         s3'[id_of[d]] = d /\ id_of[d] \in Committed(entries') => id_of[d] \in Committed(entries),
         d \in Working /\ id_of[d] \in DOMAIN temps' =>
           id_of[d] \in DOMAIN temps /\ temps'[id_of[d]] = temps[id_of[d]]
  PROVE  Stored(d)'
<1>1. Stored(d) /\ Loaded' = Loaded
  BY AtWork, KnownIs
<1>2. stage[d] \in {"uploaded", "stored", "unlinked", "marked", "indexed"} => d \in Working
  BY DEF Working, Ended
<1>. QED  BY <1>1, <1>2 DEF Stored

LEMMA HandlerNumbered ==
  ASSUME Typed, Owned, NEW c \in Clients, NEW to, Handler(c, to), UNCHANGED <<next_id, id_of>>,
         c \in Working \/ to \in Ended \cup {"removed"}, Distinct(entries')
  PROVE  Numbered'
<1>1. Working' \subseteq Working
  BY TypeOKIs DEF Working, Handler, Typed
<1>2. Loaded' = Loaded
  BY KnownIs DEF Handler
<1>. QED  BY <1>1, <1>2 DEF Owned, Numbered

LEMMA ArchivedKept ==
  ASSUME Owned, UNCHANGED <<disk, s3>>,
         \A e \in EntriesOf' : e \in EntriesOf \/ ~e.committed
  PROVE  Archived'
<1>1. Known' = EntriesOf' \cup OnDisk
  BY KnownIs
<1>. QED  BY <1>1 DEF Owned, Archived, HasArchive, Known

\* The entry of a client that is uploading is not committed anywhere.
LEMMA NotYet ==
  ASSUME Typed, Owned, NEW c \in Clients, stage[c] \in Uploading
  PROVE  \A e \in Known : e.id = id_of[c] => e = EntryOf(c, FALSE)
<1>1. Follows(c) /\ Numbered
  BY AtWork DEF Owned
<1>2. EntryOf(c, FALSE) \in EntriesOf /\ EntryOf(c, FALSE).id = id_of[c]
  BY <1>1, EntryOfIs DEF Follows
<1>3. disk = <<>> => OnDisk = {}
  BY NoElements DEF OnDisk, Loaded
<1>4. disk # <<>> => EntryOf(c, FALSE) \in OnDisk
  BY <1>1 DEF Follows
<1>. QED  BY <1>1, <1>2, <1>3, <1>4, SameId DEF Known

LEMMA RemoveOwned ==
  ASSUME Typed, Owned, NEW c \in Clients, RemoveOld(c)
  PROVE  Owned'
<1>. DEFINE old == key_index[KeyOf[c]]
<1>0. TypeOK /\ entries \in Seq(Entry) /\ stage \in [Clients -> Stages] /\ KeyOf[c] \in Keys
      /\ key_index \in [Keys -> Ids \cup {0}] /\ \A i \in Ids : i # 0
  BY TypeOKIs, Counts DEF Typed, Keys, Ids
<1>1. /\ stage[c] = "idle" /\ Handler(c, "removed") /\ entries' = Without(entries, old)
      /\ key_index' = [key_index EXCEPT ![KeyOf[c]] = 0]
      /\ UNCHANGED <<next_id, temps, s3, id_of>>
  BY HandlesIs DEF RemoveOld, RemoveFor, files
<1>2. EntriesOf' = {e \in EntriesOf : e.id # old} /\ Distinct(entries')
  BY <1>0, <1>1, Retained, EntriesOfIs DEF Owned, Numbered
<1>. HIDE DEF old
<1>3. Numbered'
  BY <1>1, <1>2, HandlerNumbered
<1>4. Indexed'
  <2>1. ASSUME NEW k \in Keys, key_index'[k] # 0
        PROVE  \E e \in EntriesOf' : e.id = key_index'[k] /\ e.key = k /\ e.committed
    <3>1. k # KeyOf[c] /\ key_index'[k] = key_index[k]
      BY <1>0, <1>1, <2>1
    <3>2. PICK e \in EntriesOf : e.id = key_index[k] /\ e.key = k /\ e.committed
      BY <2>1, <3>1 DEF Owned, Indexed
    <3>3. e.id # old
      <4>1. ASSUME old = e.id PROVE FALSE
        <5>1. old # 0
          BY <2>1, <3>1, <3>2, <4>1
        <5>2. PICK f \in EntriesOf : f.id = old /\ f.key = KeyOf[c]
          BY <1>0, <5>1 DEF Owned, Indexed, old
        <5>. QED  BY <3>1, <3>2, <4>1, <5>2, SameId DEF Owned
      <4>. QED  BY <4>1
    <3>. QED  BY <1>2, <3>1, <3>2, <3>3
  <2>. QED  BY <2>1 DEF Indexed
<1>5. \A e \in EntriesOf : e.id = old => e.committed
  <2>1. ASSUME NEW e \in EntriesOf, e.id = old PROVE e.committed
    <3>1. old # 0
      <4>1. e \in Entry
        BY <1>0 DEF EntriesOf
      <4>. QED  BY <1>0, <2>1, <4>1 DEF Entry
    <3>2. PICK f \in EntriesOf : f.id = old /\ f.committed
      BY <1>0, <3>1 DEF Owned, Indexed, old
    <3>. QED  BY <2>1, <3>2, SameId DEF Owned
  <2>. QED  BY <2>1
<1>6. ASSUME NEW d \in Clients PROVE Follows(d)'
  <2>1. CASE d # c
    <3>1. \A e \in EntriesOf :
            (~e.committed \/ \A k \in Keys : key_index[k] # e.id) => e \in EntriesOf'
      BY <1>0, <1>2, <1>5 DEF old
    <3>2. d \in Working => \A k \in Keys : key_index'[k] = key_index[k] \/ key_index'[k] # id_of[d]
      <4>1. d \in Working => id_of[d] # 0
        BY AtWork
      <4>. QED  BY <1>0, <1>1, <4>1
    <3>3. stage'[d] = stage[d] /\ UNCHANGED disk
      BY <1>0, <1>1, <2>1 DEF Handler
    <3>. QED  BY <1>1, <1>2, <3>1, <3>2, <3>3, OthersFollow
  <2>2. CASE d = c
    <3>1. stage'[c] = "removed" /\ Known' \subseteq Known
      BY <1>0, <1>1, <1>2, KnownIs DEF Handler, Known
    <3>2. Follows(c)
      BY AtWork
    <3>. QED  BY <1>1, <2>2, <3>1, <3>2 DEF Follows, Uploading
  <2>. QED  BY <2>1, <2>2
<1>7. ASSUME NEW d \in Clients PROVE Stored(d)'
  <2>1. CASE d # c
    <3>1. Committed(entries') \subseteq Committed(entries)
      BY <1>2, CommittedIs, EntriesOfIs
    <3>2. stage'[d] = stage[d] /\ UNCHANGED disk
      BY <1>0, <1>1, <2>1 DEF Handler
    <3>. QED  BY <1>1, <3>1, <3>2, OthersStored
  <2>2. CASE d = c
    BY <1>0, <1>1, <2>2 DEF Handler, Stored
  <2>. QED  BY <2>1, <2>2
<1>8. Archived'
  BY <1>1, <1>2, ArchivedKept DEF Handler
<1>. QED  BY <1>3, <1>4, <1>6, <1>7, <1>8 DEF Owned, Following, Storing

LEMMA PushOwned ==
  ASSUME OwnKeys, Typed, Owned, NEW c \in Clients, PushEntry(c)
  PROVE  Owned'
<1>. DEFINE e == EntryOf(c, FALSE)
<1>0. TypeOK /\ entries \in Seq(Entry) /\ stage \in [Clients -> Stages] /\ KeyOf[c] \in Keys
  BY TypeOKIs DEF Typed, Keys
<1>1. /\ stage[c] = "allocated" /\ Handler(c, "pushed") /\ entries' = Append(entries, e)
      /\ UNCHANGED <<key_index, next_id, temps, s3, id_of>>
  BY HandlesIs DEF PushEntry, EntryOf, files
<1>2. /\ c \in Working /\ id_of[c] \in Ids /\ Follows(c)
      /\ \A d \in Working : d # c => id_of[d] # id_of[c]
  BY <1>1, AtWork DEF Working, Ended
<1>3. e \in Entry /\ e.id = id_of[c] /\ e.key = KeyOf[c] /\ ~e.committed
  BY <1>0, <1>2 DEF Entry, EntryOf
<1>4. \A x \in Known : x.id # e.id
  BY <1>1, <1>2, <1>3 DEF Follows
<1>. HIDE DEF e
<1>5. EntriesOf' = EntriesOf \cup {e} /\ Distinct(entries')
  BY <1>0, <1>1, <1>3, <1>4, Appended, EntriesOfIs DEF Owned, Numbered, Known
<1>6. Numbered'
  BY <1>1, <1>2, <1>5, HandlerNumbered
<1>7. Indexed'
  BY <1>1, <1>5 DEF Owned, Indexed
<1>8. UNCHANGED disk /\ stage'[c] = "pushed" /\ \A d \in Clients \ {c} : stage'[d] = stage[d]
  BY <1>0, <1>1 DEF Handler
<1>9. ASSUME NEW d \in Clients PROVE Follows(d)'
  <2>1. CASE d # c
    <3>1. d \in V2 => e.key # KeyOf[d]
      BY <1>3, <2>1 DEF OwnKeys
    <3>2. d \in Working => e.id # id_of[d]
      BY <1>2, <1>3, <2>1
    <3>. QED  BY <1>1, <1>5, <1>8, <2>1, <3>1, <3>2, OthersFollow
  <2>2. CASE d = c
    <3>1. EntryOf(c, FALSE)' = e /\ id_of'[c] = e.id
      BY <1>1, <1>3 DEF EntryOf, e
    <3>2. Known' = Known \cup {e}
      BY <1>5, <1>8, KnownIs DEF Known
    <3>3. c \in V2 => \A x \in Known : x.key # KeyOf[c]
      BY <1>1, <1>2 DEF Follows
    <3>. QED  BY <1>5, <1>8, <2>2, <3>1, <3>2, <3>3 DEF Follows, Uploading
  <2>. QED  BY <2>1, <2>2
<1>10. ASSUME NEW d \in Clients PROVE Stored(d)'
  <2>1. CASE d # c
    <3>1. Committed(entries') = Committed(entries)
      BY <1>3, <1>5, CommittedIs, EntriesOfIs
    <3>. QED  BY <1>1, <1>8, <2>1, <3>1, OthersStored
  <2>2. CASE d = c
    BY <1>8, <2>2 DEF Stored
  <2>. QED  BY <2>1, <2>2
<1>11. Archived'
  BY <1>1, <1>3, <1>5, <1>8, ArchivedKept
<1>. QED  BY <1>6, <1>7, <1>9, <1>10, <1>11 DEF Owned, Following, Storing

\* A step that leaves the entries as they are.
LEMMA SameEntriesFollow ==
  ASSUME Typed, Owned, NEW c \in Clients, NEW to, Handler(c, to),
         UNCHANGED <<entries, key_index, next_id, id_of>>, stage[c] \in Uploading,
         to \in (Uploading \ {"reserved"}) \cup {"gone"}
  PROVE  /\ Numbered' /\ Indexed' /\ Following'
         /\ \A d \in Clients \ {c} : stage'[d] = stage[d]
         /\ stage'[c] = to /\ UNCHANGED <<disk, EntriesOf, Known, id_of>>
         /\ c \in Working /\ id_of[c] \in Ids
         /\ \A d \in Working : d # c => id_of[d] # id_of[c]
<1>1. stage \in [Clients -> Stages]
  BY TypeOKIs DEF Typed
<1>2. c \in Working /\ id_of[c] \in Ids /\ \A d \in Working : d # c => id_of[d] # id_of[c]
  BY AtWork DEF Working, Uploading, Ended
<1>3. UNCHANGED <<disk, EntriesOf, Known, OnDisk>>
  BY KnownIs DEF Handler, EntriesOf, Known
<1>4. stage'[c] = to /\ \A d \in Clients \ {c} : stage'[d] = stage[d]
  BY <1>1 DEF Handler
<1>5. Numbered'
  BY <1>2, HandlerNumbered DEF Owned, Numbered
<1>6. Indexed'
  BY <1>3 DEF Owned, Indexed
<1>7. ASSUME NEW d \in Clients PROVE Follows(d)'
  <2>1. CASE d # c
    BY <1>3, <1>4, <2>1, OthersFollow
  <2>2. CASE d = c
    <3>1. Follows(c)
      BY AtWork
    <3>2. EntryOf(c, FALSE)' = EntryOf(c, FALSE)
      BY DEF EntryOf
    <3>3. EntryOf(c, FALSE) \in EntriesOf /\ (disk # <<>> => EntryOf(c, FALSE) \in OnDisk)
      BY <3>1 DEF Follows
    <3>4. to \notin {"idle", "removed", "allocated", "pushed", "marked"}
      BY DEF Uploading
    <3>5. c \in V2 => \A e \in Known : e.key = KeyOf[c] => e.id = id_of[c]
      BY <3>1 DEF Follows
    <3>. QED  BY <1>3, <1>4, <2>2, <3>2, <3>3, <3>4, <3>5 DEF Follows
  <2>. QED  BY <2>1, <2>2
<1>. QED  BY <1>2, <1>3, <1>4, <1>5, <1>6, <1>7 DEF Following

\* An archive is put where the client's entry says.
LEMMA Putting ==
  ASSUME Typed, Owned, NEW c \in Clients, stage[c] \in Uploading,
         s3' = [s3 EXCEPT ![id_of[c]] = c], UNCHANGED <<entries, Known, disk, id_of>>,
         \A d \in Clients \ {c} : stage'[d] = stage[d],
         \A i \in DOMAIN temps' : i # id_of[c] => i \in DOMAIN temps /\ temps'[i] = temps[i]
  PROVE  /\ Archived' /\ s3'[id_of[c]] = c
         /\ \A d \in Clients \ {c} : Stored(d)'
<1>1. /\ c \in Working /\ id_of[c] \in Ids
      /\ \A d \in Working : d # c => id_of[d] # id_of[c]
  BY AtWork DEF Working, Uploading, Ended
<1>2. s3 \in [Ids -> Clients \cup {NoOne}]
  BY TypeOKIs DEF Typed
<1>3. s3'[id_of[c]] = c /\ \A i \in Ids : i # id_of[c] => s3'[i] = s3[i]
  BY <1>1, <1>2
<1>4. \A e \in Known : e \in Entry
  <2>1. entries \in Seq(Entry) /\ Loaded \in Seq(Entry)
    BY LoadedType, TypeOKIs DEF Typed
  <2>. QED  BY <2>1 DEF Known, OnDisk, Elements, EntriesOf
<1>5. Archived'
  <2>1. ASSUME NEW e \in Known, e.committed PROVE HasArchive(e)'
    <3>1. e.id # id_of[c]
      BY <2>1, NotYet, EntryOfIs
    <3>2. s3'[e.id] = s3[e.id]
      BY <1>3, <1>4, <3>1 DEF Entry
    <3>. QED  BY <2>1, <3>2 DEF Owned, Archived, HasArchive
  <2>. QED  BY <2>1 DEF Archived
<1>6. ASSUME NEW d \in Clients \ {c} PROVE Stored(d)'
  <2>1. s3'[id_of[d]] = s3[id_of[d]] \/ (d \notin Working /\ s3'[id_of[d]] # d)
    <3>1. CASE id_of[d] = id_of[c]
      BY <1>1, <1>3, <3>1
    <3>2. CASE id_of[d] # id_of[c]
      BY <1>2, <3>2
    <3>. QED  BY <3>1, <3>2
  <2>. QED  BY <1>1, <2>1, OthersStored
<1>. QED  BY <1>3, <1>5, <1>6

LEMMA UploadOwned ==
  ASSUME Typed, Owned, NEW c \in Clients, Upload(c)
  PROVE  Owned'
<1>1. PICK to \in {"uploaded", "gone"} : Handles(c, "reserved", to)
  BY DEF Upload
<1>2. stage[c] = "reserved" /\ Handler(c, to) /\ UNCHANGED <<entries, key_index, next_id, id_of>>
  BY <1>1, HandlesIs DEF Upload, server
<1>3. /\ Numbered' /\ Indexed' /\ Following' /\ stage'[c] = to
      /\ \A d \in Clients \ {c} : stage'[d] = stage[d]
      /\ UNCHANGED <<disk, EntriesOf, Known>> /\ id_of[c] \in Ids
      /\ \A d \in Working : d # c => id_of[d] # id_of[c]
  BY <1>2, SameEntriesFollow DEF Uploading
<1>4. CASE c \in V2
  <2>1. s3' = [s3 EXCEPT ![id_of[c]] = c] /\ UNCHANGED temps
    BY <1>4 DEF Upload
  <2>2. Archived' /\ s3'[id_of[c]] = c /\ \A d \in Clients \ {c} : Stored(d)'
    BY <1>2, <1>3, <2>1, Putting DEF Uploading
  <2>3. Stored(c)'
    BY <1>2, <1>3, <1>4, <2>2 DEF Stored
  <2>. QED  BY <1>3, <2>2, <2>3 DEF Owned, Storing
<1>5. CASE c \notin V2
  <2>1. temps' = [i \in DOMAIN temps |-> IF i = id_of[c] THEN c ELSE temps[i]] /\ UNCHANGED s3
    BY <1>5 DEF Upload
  <2>2. Stored(c)'
    BY <1>2, <1>3, <1>5, <2>1 DEF Stored
  <2>3. ASSUME NEW d \in Clients \ {c} PROVE Stored(d)'
    BY <1>2, <1>3, <2>1, OthersStored
  <2>4. Archived'
    BY <1>2, <1>3, <2>1, ArchivedKept
  <2>. QED  BY <1>3, <2>2, <2>3, <2>4 DEF Owned, Storing
<1>. QED  BY <1>4, <1>5

LEMMA CommitStoreOwned ==
  ASSUME Typed, Owned, NEW c \in Clients, CommitStore(c)
  PROVE  Owned'
<1>1. PICK to \in {"stored", "gone"} : Handles(c, "uploaded", to)
  BY DEF CommitStore
<1>2. /\ stage[c] = "uploaded" /\ Handler(c, to) /\ c \notin V2
      /\ UNCHANGED <<entries, key_index, next_id, temps, id_of>>
  BY <1>1, HandlesIs DEF CommitStore, server
<1>3. /\ Numbered' /\ Indexed' /\ Following' /\ stage'[c] = to
      /\ \A d \in Clients \ {c} : stage'[d] = stage[d]
      /\ UNCHANGED <<disk, EntriesOf, Known>> /\ id_of[c] \in Ids
      /\ \A d \in Working : d # c => id_of[d] # id_of[c]
  BY <1>2, SameEntriesFollow DEF Uploading
<1>4. CASE id_of[c] \in DOMAIN temps
  <2>1. Stored(c)
    BY AtWork
  <2>2. s3' = [s3 EXCEPT ![id_of[c]] = c]
    BY <1>2, <1>4, <2>1 DEF CommitStore, Stored
  <2>3. Archived' /\ s3'[id_of[c]] = c /\ \A d \in Clients \ {c} : Stored(d)'
    BY <1>2, <1>3, <2>2, Putting DEF Uploading
  <2>4. Stored(c)'
    BY <1>2, <1>3, <2>3 DEF Stored
  <2>. QED  BY <1>3, <2>3, <2>4 DEF Owned, Storing
<1>5. CASE id_of[c] \notin DOMAIN temps
  <2>1. Handles(c, "uploaded", "gone") /\ UNCHANGED s3
    BY <1>5 DEF CommitStore
  <2>2. stage'[c] = "gone"
    BY <2>1, TypeOKIs DEF Handles, Typed
  <2>3. Stored(c)'
    BY <2>2 DEF Stored
  <2>4. ASSUME NEW d \in Clients \ {c} PROVE Stored(d)'
    BY <1>2, <1>3, <2>1, OthersStored
  <2>5. Archived'
    BY <1>2, <1>3, <2>1, ArchivedKept
  <2>. QED  BY <1>3, <2>3, <2>4, <2>5 DEF Owned, Storing
<1>. QED  BY <1>4, <1>5

LEMMA UnlinkOwned ==
  ASSUME Typed, Owned, NEW c \in Clients, CommitUnlink(c)
  PROVE  Owned'
<1>1. /\ stage[c] = "stored" /\ Handler(c, "unlinked")
      /\ temps' = [i \in DOMAIN temps \ {id_of[c]} |-> temps[i]]
      /\ UNCHANGED <<entries, key_index, next_id, s3, id_of>>
  BY HandlesIs DEF CommitUnlink, server
<1>2. /\ Numbered' /\ Indexed' /\ Following' /\ stage'[c] = "unlinked"
      /\ \A d \in Clients \ {c} : stage'[d] = stage[d]
      /\ UNCHANGED <<disk, EntriesOf, Known>>
  BY <1>1, SameEntriesFollow DEF Uploading
<1>3. Stored(c) /\ Stored(c)'
  BY <1>1, <1>2, AtWork DEF Stored
<1>4. ASSUME NEW d \in Clients \ {c} PROVE Stored(d)'
  BY <1>1, <1>2, OthersStored
<1>5. Archived'
  BY <1>1, <1>2, ArchivedKept
<1>. QED  BY <1>2, <1>3, <1>4, <1>5 DEF Owned, Storing

LEMMA GoneOwned ==
  ASSUME Typed, Owned, NEW c \in Clients, stage[c] \in Uploading, Handler(c, "gone"),
         UNCHANGED <<entries, key_index, next_id, temps, s3, id_of>>
  PROVE  Owned'
<1>1. /\ Numbered' /\ Indexed' /\ Following' /\ stage'[c] = "gone"
      /\ \A d \in Clients \ {c} : stage'[d] = stage[d]
      /\ UNCHANGED <<disk, EntriesOf, Known>>
  BY SameEntriesFollow
<1>2. Stored(c)'
  BY <1>1 DEF Stored
<1>3. ASSUME NEW d \in Clients \ {c} PROVE Stored(d)'
  BY <1>1, OthersStored
<1>4. Archived'
  BY <1>1, ArchivedKept
<1>. QED  BY <1>1, <1>2, <1>3, <1>4 DEF Owned, Storing

LEMMA SameFields ==
  ASSUME NEW x \in Entry, NEW y \in Entry,
         x.id = y.id, x.key = y.key, x.committed = y.committed
  PROVE  x = y
  BY DEF Entry

\* The entry that a client marks is its own, and its archive is there.
LEMMA FoundIsOwn ==
  ASSUME Typed, Owned, NEW c \in Clients, stage[c] \in {"uploaded", "unlinked"},
         NEW i \in DOMAIN entries,
         entries[i].id = id_of[c] \/ (c \in V2 /\ entries[i].key = KeyOf[c])
  PROVE  entries[i] = EntryOf(c, FALSE)
<1>1. entries[i] \in EntriesOf /\ Follows(c)
  BY AtWork DEF EntriesOf
<1>2. entries[i].id = id_of[c]
  BY <1>1 DEF Follows, Known
<1>. QED  BY <1>1, <1>2, NotYet DEF Known, Uploading

LEMMA MarkOwned ==
  ASSUME OwnKeys, Typed, Owned, NEW c \in Clients, CommitMark(c) \/ FinalizeMark(c)
  PROVE  Owned'
<1>0. /\ TypeOK /\ entries \in Seq(Entry) /\ stage \in [Clients -> Stages]
      /\ id_of \in [Clients -> Ids \cup {0}] /\ KeyOf[c] \in Keys
  BY TypeOKIs DEF Typed, Keys
<1>1. PICK from \in {"unlinked", "uploaded"}, found \in {OwnFound(c), KeyFound(c)} :
           /\ \/ c \notin V2 /\ from = "unlinked" /\ found = OwnFound(c)
              \/ c \in V2 /\ from = "uploaded" /\ found = KeyFound(c)
           /\ \/ /\ stage[c] = from /\ Handler(c, "gone")
                 /\ UNCHANGED <<entries, key_index, next_id, temps, s3, id_of>>
              \/ Marks(c, from, found)
  BY <1>0, MarkSteps
<1>2. CASE /\ stage[c] = from /\ Handler(c, "gone")
           /\ UNCHANGED <<entries, key_index, next_id, temps, s3, id_of>>
  BY <1>2, GoneOwned DEF Uploading
<1>3. CASE Marks(c, from, found)
  <2>1. PICK i \in found :
          entries' = Commit(entries, i) /\ id_of' = [id_of EXCEPT ![c] = entries[i].id]
    BY <1>3 DEF Marks
  <2>2. /\ stage[c] = from /\ Handler(c, "marked")
        /\ UNCHANGED <<key_index, next_id, temps, s3>>
    BY <1>3 DEF Marks
  <2>3. i \in DOMAIN entries /\ entries[i] = EntryOf(c, FALSE)
    <3>1. i \in DOMAIN entries
      BY <1>1, <2>1 DEF OwnFound, KeyFound
    <3>2. entries[i].id = id_of[c] \/ (c \in V2 /\ entries[i].key = KeyOf[c])
      BY <1>1, <2>1 DEF OwnFound, KeyFound
    <3>. QED  BY <2>2, <3>1, <3>2, FoundIsOwn
  <2>4. id_of' = id_of
    <3>1. entries[i].id = id_of[c]
      BY <2>3 DEF EntryOf
    <3>. QED  BY <1>0, <2>1, <3>1
  <2>. DEFINE own == EntryOf(c, FALSE)
              e == EntryOf(c, TRUE)
  <2>5. /\ c \in Working /\ id_of[c] \in Ids /\ Follows(c) /\ Stored(c)
        /\ \A d \in Working : d # c => id_of[d] # id_of[c]
    BY <2>2, AtWork DEF Working, Ended
  <2>6. /\ e = [entries[i] EXCEPT !.committed = TRUE]
        /\ own.id = id_of[c] /\ e.id = id_of[c] /\ e.key = KeyOf[c] /\ e.committed /\ ~own.committed
    <3>1. own.id = id_of[c] /\ e.id = id_of[c] /\ e.key = KeyOf[c] /\ e.committed /\ ~own.committed
          /\ own.key = KeyOf[c]
      BY DEF EntryOf
    <3>2. own \in Entry /\ e \in Entry
      BY <1>0, <2>5 DEF Entry, EntryOf
    <3>. HIDE DEF own, e
    <3>. DEFINE r == [own EXCEPT !.committed = TRUE]
    <3>3. r \in Entry /\ r.id = own.id /\ r.key = own.key /\ r.committed = TRUE
      BY <3>2 DEF Entry
    <3>. HIDE DEF r
    <3>4. e.committed = TRUE
      BY <3>1, <3>2 DEF Entry
    <3>5. r = e
      BY <3>1, <3>2, <3>3, <3>4, SameFields
    <3>6. own = entries[i]
      BY <2>3 DEF own
    <3>. QED  BY <3>1, <3>5, <3>6 DEF r
  <2>7. s3[id_of[c]] = c
    BY <1>1, <2>2, <2>5 DEF Stored
  <2>. HIDE DEF own, e
  <2>8. /\ EntriesOf' \subseteq EntriesOf \cup {e} /\ e \in EntriesOf'
        /\ \A x \in EntriesOf : x # own => x \in EntriesOf'
        /\ Distinct(entries')
    <3>1. LET es == Commit(entries, i) IN
          /\ Elements(es) \subseteq Elements(entries) \cup {e} /\ e \in Elements(es)
          /\ \A x \in Elements(entries) : x # entries[i] => x \in Elements(es)
          /\ Distinct(entries) => Distinct(es)
      BY <1>0, <2>3, <2>6, Committing
    <3>2. Distinct(entries) /\ entries[i] = own
      BY <2>3 DEF Owned, Numbered, own
    <3>. QED  BY <2>1, <3>1, <3>2, EntriesOfIs
  <2>9. UNCHANGED disk /\ stage'[c] = "marked" /\ \A d \in Clients \ {c} : stage'[d] = stage[d]
    BY <1>0, <2>2 DEF Handler
  <2>10. Numbered'
    BY <2>2, <2>4, <2>5, <2>8, HandlerNumbered
  <2>11. Indexed'
    BY <2>2, <2>6, <2>8 DEF Owned, Indexed
  <2>12. ASSUME NEW d \in Clients PROVE Follows(d)'
    <3>1. CASE d # c
      <4>1. d \in V2 => e.key # KeyOf[d]
        BY <2>6, <3>1 DEF OwnKeys
      <4>2. d \in Working => e.id # id_of[d] /\ own.id # id_of[d]
        BY <2>5, <2>6, <3>1
      <4>. QED  BY <2>2, <2>4, <2>8, <2>9, <3>1, <4>1, <4>2, OthersFollow
    <3>2. CASE d = c
      <4>1. EntryOf(c, TRUE)' = e /\ id_of'[c] = id_of[c]
        BY <2>4 DEF EntryOf, e
      <4>2. \A k \in Keys : key_index[k] # id_of[c]
        <5>1. ASSUME NEW k \in Keys, key_index[k] = id_of[c] PROVE FALSE
          <6>1. id_of[c] # 0
            BY <2>5, AtWork
          <6>2. PICK x \in EntriesOf : x.id = id_of[c] /\ x.committed
            BY <5>1, <6>1 DEF Owned, Indexed
          <6>. QED  BY <1>1, <2>2, <2>6, <6>2, NotYet DEF Known, Uploading, own
        <5>. QED  BY <5>1
      <4>3. c \in V2 => \A x \in Known' : x.key = KeyOf[c] => x.id = id_of[c]
        <5>1. Known' \subseteq Known \cup {e}
          BY <2>8, <2>9, KnownIs DEF Known
        <5>. QED  BY <2>5, <2>6, <5>1 DEF Follows
      <4>. QED  BY <2>2, <2>8, <2>9, <3>2, <4>1, <4>2, <4>3 DEF Follows, Uploading
    <3>. QED  BY <3>1, <3>2
  <2>13. ASSUME NEW d \in Clients PROVE Stored(d)'
    <3>1. CASE d # c
      <4>1. Committed(entries') \subseteq Committed(entries) \cup {id_of[c]}
        BY <2>6, <2>8, CommittedIs, EntriesOfIs
      <4>2. s3[id_of[d]] = d => id_of[d] # id_of[c]
        BY <2>7, <3>1
      <4>. QED  BY <2>2, <2>4, <2>9, <3>1, <4>1, <4>2, OthersStored
    <3>2. CASE d = c
      BY <2>2, <2>4, <2>7, <2>9, <3>2 DEF Stored
    <3>. QED  BY <3>1, <3>2
  <2>14. Archived'
    <3>1. Known' \subseteq Known \cup {e}
      BY <2>8, <2>9, KnownIs DEF Known
    <3>2. HasArchive(e)
      BY <2>6, <2>7, CacheAssumption DEF HasArchive
    <3>. QED  BY <2>2, <3>1, <3>2 DEF Owned, Archived, HasArchive
  <2>. QED  BY <2>10, <2>11, <2>12, <2>13, <2>14 DEF Owned, Following, Storing
<1>. QED  BY <1>1, <1>2, <1>3

LEMMA InsertOwned ==
  ASSUME Typed, Owned, NEW c \in Clients, InsertIndex(c)
  PROVE  Owned'
<1>0. TypeOK /\ stage \in [Clients -> Stages] /\ KeyOf[c] \in Keys
      /\ key_index \in [Keys -> Ids \cup {0}]
  BY TypeOKIs DEF Typed, Keys
<1>1. /\ stage[c] = "marked" /\ Handler(c, "indexed")
      /\ key_index' = [key_index EXCEPT ![KeyOf[c]] = id_of[c]]
      /\ UNCHANGED <<entries, next_id, temps, s3, id_of>>
  BY HandlesIs DEF InsertIndex, InsertThen, files
<1>2. /\ c \in Working /\ Follows(c) /\ Stored(c)
      /\ \A d \in Working : d # c => id_of[d] # id_of[c]
  BY <1>1, AtWork DEF Working, Ended
<1>3. UNCHANGED <<disk, EntriesOf, Known>> /\ stage'[c] = "indexed"
      /\ \A d \in Clients \ {c} : stage'[d] = stage[d]
  BY <1>0, <1>1, KnownIs DEF Handler, EntriesOf, Known
<1>4. Numbered'
  BY <1>1, <1>2, HandlerNumbered DEF Owned, Numbered
<1>5. Indexed'
  <2>1. EntryOf(c, TRUE) \in EntriesOf
    BY <1>1, <1>2 DEF Follows
  <2>2. ASSUME NEW k \in Keys, key_index'[k] # 0
        PROVE  \E e \in EntriesOf : e.id = key_index'[k] /\ e.key = k /\ e.committed
    <3>1. CASE k = KeyOf[c]
      <4>. WITNESS EntryOf(c, TRUE) \in EntriesOf
      <4>. QED  BY <1>0, <1>1, <3>1 DEF EntryOf
    <3>2. CASE k # KeyOf[c]
      BY <1>0, <1>1, <2>2, <3>2 DEF Owned, Indexed
    <3>. QED  BY <3>1, <3>2
  <2>. QED  BY <1>3, <2>2 DEF Indexed
<1>6. ASSUME NEW d \in Clients PROVE Follows(d)'
  <2>1. CASE d # c
    <3>1. d \in Working => \A k \in Keys :
            key_index'[k] = key_index[k] \/ key_index'[k] # id_of[d]
      BY <1>0, <1>1, <1>2, <2>1
    <3>. QED  BY <1>1, <1>3, <2>1, <3>1, OthersFollow
  <2>2. CASE d = c
    BY <1>1, <1>2, <1>3, <2>2 DEF Follows, Uploading
  <2>. QED  BY <2>1, <2>2
<1>7. ASSUME NEW d \in Clients PROVE Stored(d)'
  <2>1. CASE d # c
    BY <1>1, <1>3, <2>1, OthersStored
  <2>2. CASE d = c
    BY <1>1, <1>2, <1>3, <2>2 DEF Stored
  <2>. QED  BY <2>1, <2>2
<1>8. Archived'
  BY <1>1, <1>3, ArchivedKept
<1>. QED  BY <1>4, <1>5, <1>6, <1>7, <1>8 DEF Owned, Following, Storing

LEMMA AllocateOwned ==
  ASSUME Typed, Owned, NEW c \in Clients, Allocate(c)
  PROVE  Owned'
<1>0. TypeOK /\ stage \in [Clients -> Stages] /\ id_of \in [Clients -> Ids \cup {0}]
      /\ next_id \in Nat /\ next_id >= 1 /\ Ids \subseteq Nat
  BY TypeOKIs, Counts DEF Typed, Ids
<1>1. /\ stage[c] = "removed" /\ Handler(c, "allocated")
      /\ id_of' = [id_of EXCEPT ![c] = next_id] /\ next_id' = next_id + 1
      /\ UNCHANGED <<entries, key_index, s3>>
  BY HandlesIs DEF Allocate
<1>2. /\ UNCHANGED <<disk, EntriesOf, Known, Loaded>> /\ stage'[c] = "allocated"
      /\ \A d \in Clients \ {c} : stage'[d] = stage[d] /\ id_of'[d] = id_of[d]
      /\ id_of'[c] = next_id
  BY <1>0, <1>1, KnownIs DEF Handler, EntriesOf, Known
<1>3. Working' = Working \cup {c} /\ \A d \in Working : id_of[d] \in 1..(next_id - 1)
  BY <1>2 DEF Working, Ended, Owned, Numbered
<1>4. Numbered'
  <2>1. \A d \in Working : d # c => id_of'[d] \in 1..(next_id - 1) /\ id_of'[d] # next_id
    BY <1>0, <1>2, <1>3 DEF Working
  <2>2. \A d \in Working' : id_of'[d] \in 1..(next_id' - 1)
    BY <1>0, <1>1, <1>2, <1>3, <2>1
  <2>3. \A d, f \in Working' : id_of'[d] = id_of'[f] => d = f
    <3>1. ASSUME NEW d \in Working', NEW f \in Working', id_of'[d] = id_of'[f] PROVE d = f
      <4>1. CASE d = c \/ f = c
        BY <1>2, <1>3, <2>1, <3>1, <4>1
      <4>2. CASE d # c /\ f # c
        <5>1. d \in Working /\ f \in Working /\ id_of[d] = id_of[f]
          BY <1>2, <1>3, <3>1, <4>2 DEF Working
        <5>. QED  BY <5>1 DEF Owned, Numbered
      <4>. QED  BY <4>1, <4>2
    <3>. QED  BY <3>1
  <2>. QED  BY <1>1, <1>2, <2>2, <2>3 DEF Owned, Numbered
<1>5. Indexed'
  BY <1>1, <1>2 DEF Owned, Indexed
<1>6. ASSUME NEW d \in Clients PROVE Follows(d)'
  <2>1. CASE d # c
    BY <1>1, <1>2, <2>1, OthersFollow
  <2>2. CASE d = c
    <3>1. Follows(c)
      BY AtWork
    <3>2. \A e \in Known : e.id # next_id
      BY <1>0 DEF Typed, Below
    <3>. QED  BY <1>1, <1>2, <2>2, <3>1, <3>2 DEF Follows, Uploading
  <2>. QED  BY <2>1, <2>2
<1>7. ASSUME NEW d \in Clients PROVE Stored(d)'
  <2>1. CASE d # c
    <3>1. d \in Working /\ id_of[d] \in DOMAIN temps' =>
            id_of[d] \in DOMAIN temps /\ temps'[id_of[d]] = temps[id_of[d]]
      <4>1. d \in Working => id_of[d] # next_id
        BY <1>0, <1>3
      <4>. QED  BY <4>1 DEF Allocate
    <3>. QED  BY <1>1, <1>2, <2>1, <3>1, OthersStored
  <2>2. CASE d = c
    BY <1>2, <2>2 DEF Stored
  <2>. QED  BY <2>1, <2>2
<1>8. Archived'
  BY <1>1, <1>2, ArchivedKept
<1>. QED  BY <1>4, <1>5, <1>6, <1>7, <1>8 DEF Owned, Following, Storing

--------------------------------------------------------------------------------
(* A restart, and the theorems                                             *)

LEMMA RestartOwned ==
  ASSUME WholeIndex, Typed, Owned, Restart
  PROVE  Owned'
<1>0. TypeOK /\ disk # <<>> /\ \A c \in Clients : stage[c] \in Stages
  BY TypeOKIs DEF Typed, Restart, RestartFrom
<1>1. /\ entries' = Loaded /\ next_id' = 1 + Greatest(KeptIds)
      /\ key_index' = [k \in Keys |-> LastCommitted(k)]
      /\ \A c \in Clients : stage'[c] = IF stage[c] \in Handling THEN "aborted" ELSE stage[c]
      /\ UNCHANGED <<s3, disk, id_of>>
      /\ temps' = [i \in DOMAIN temps \cap (KeptIds \ Committed(Loaded)) |-> temps[i]]
  BY DEF Restart, RestartFrom, index_files
<1>2. /\ Loaded' = Loaded /\ OnDisk' = OnDisk /\ EntriesOf' = OnDisk /\ Known' = OnDisk
  BY <1>1, KnownIs, EntriesOfIs DEF OnDisk, Elements
<1>3. /\ Loaded \in Seq(Entry) /\ Greatest(KeptIds) \in Nat
      /\ \A e \in OnDisk : e.id \in 1..Greatest(KeptIds)
  BY KeptIs
<1>4. \A c \in Clients : c \in Working' =>
        c \in Working /\ stage[c] \in {"reserved", "uploaded"} /\ EntryOf(c, FALSE) \in OnDisk
  <2>1. ASSUME NEW c \in Clients, c \in Working'
        PROVE  c \in Working /\ stage[c] \in {"reserved", "uploaded"}
    BY <1>0, <1>1, <2>1 DEF Working, Stages, Handling, Ended
  <2>2. ASSUME NEW c \in Clients, stage[c] \in {"reserved", "uploaded"}
        PROVE  EntryOf(c, FALSE) \in OnDisk
    BY <1>0, <2>2, AtWork DEF Follows, Uploading
  <2>. QED  BY <2>1, <2>2
<1>5. Numbered'
  <2>1. \A c \in Working' : id_of'[c] \in 1..(next_id' - 1)
    <3>1. ASSUME NEW c \in Clients, c \in Working' PROVE id_of'[c] \in 1..(next_id' - 1)
      <4>1. EntryOf(c, FALSE) \in OnDisk /\ EntryOf(c, FALSE).id = id_of[c]
        BY <1>4, <3>1, EntryOfIs
      <4>2. id_of[c] \in 1..Greatest(KeptIds)
        BY <1>3, <4>1
      <4>3. next_id' - 1 = Greatest(KeptIds) /\ id_of'[c] = id_of[c]
        BY <1>1, <1>3
      <4>. QED  BY <4>2, <4>3
    <3>. QED  BY <3>1 DEF Working
  <2>2. \A c, d \in Working' : id_of'[c] = id_of'[d] => c = d
    BY <1>1, <1>4 DEF Owned, Numbered, Working
  <2>. QED  BY <1>1, <1>2, <2>1, <2>2 DEF Owned, Numbered
<1>6. Indexed'
  BY <1>1, <1>2, <1>3, LastIs DEF Indexed
<1>7. ASSUME NEW c \in Clients PROVE Follows(c)'
  <2>1. Follows(c) /\ EntryOf(c, FALSE)' = EntryOf(c, FALSE) /\ id_of'[c] = id_of[c]
    <3>1. Follows(c)
      BY AtWork
    <3>. QED  BY <1>1, <3>1 DEF EntryOf
  <2>2. stage'[c] \in {"allocated", "pushed", "marked"} \cup Uploading =>
          stage'[c] \in Uploading /\ EntryOf(c, FALSE) \in OnDisk
    BY <1>0, <1>1, <1>4 DEF Uploading, Handling, Working, Stages, Ended
  <2>3. c \in V2 => \A e \in OnDisk : e.key = KeyOf[c] =>
          stage'[c] \notin {"idle", "removed", "allocated"} /\ e.id = id_of[c]
    BY <1>1, <2>1 DEF Follows, Known, Handling
  <2>4. stage'[c] \notin {"allocated", "pushed", "marked"}
    BY <2>2 DEF Uploading
  <2>. QED  BY <1>2, <2>1, <2>2, <2>3, <2>4 DEF Follows
<1>8. ASSUME NEW c \in Clients PROVE Stored(c)'
  <2>1. Stored(c) /\ \A i \in DOMAIN temps' : i \in DOMAIN temps /\ temps'[i] = temps[i]
    BY <1>1, AtWork
  <2>2. stage'[c] \notin {"stored", "unlinked", "marked", "indexed"}
    BY <1>0, <1>1 DEF Handling
  <2>3. stage'[c] \in {"uploaded", "saved"} => stage[c] = stage'[c]
    BY <1>1
  <2>. QED  BY <1>1, <1>2, <2>1, <2>2, <2>3 DEF Stored
<1>9. Archived'
  BY <1>1, <1>2 DEF Owned, Archived, HasArchive, Known
<1>. QED  BY <1>5, <1>6, <1>7, <1>8, <1>9 DEF Owned, Following, Storing

LEMMA NextOwned == WholeIndex /\ OwnKeys /\ Typed /\ Owned /\ [Next]_vars => Owned'
<1>. SUFFICES ASSUME WholeIndex, OwnKeys, Typed, Owned, [Next]_vars PROVE Owned'
  OBVIOUS
<1>1. CASE UNCHANGED vars \/ Done
  <2>1. UNCHANGED <<entries, key_index, next_id, temps, s3, disk, stage, id_of>>
    BY <1>1 DEF Done, vars
  <2>2. UNCHANGED <<Loaded, OnDisk, EntriesOf, Known, Working>>
    BY <2>1, KnownIs DEF EntriesOf, Known, Working
  <2>3. Numbered' /\ Indexed' /\ Archived'
    BY <2>1, <2>2 DEF Owned, Numbered, Indexed, Archived, HasArchive
  <2>4. Following' /\ Storing'
    BY <2>1, <2>2 DEF Owned, Following, Follows, Storing, Stored, EntryOf
  <2>. QED  BY <2>3, <2>4 DEF Owned
<1>2. CASE Restart
  BY <1>2, RestartOwned
<1>3. ASSUME NEW c \in Clients, HandlerStep(c) PROVE Owned'
  BY <1>3, RemoveOwned, PushOwned, UploadOwned, CommitStoreOwned, UnlinkOwned, MarkOwned,
     InsertOwned DEF HandlerStep
<1>4. ASSUME NEW c \in Clients, Step(c) PROVE Owned'
  BY <1>3, <1>4, StepIs, AllocateOwned, SaveOwned
<1>. QED  BY <1>1, <1>2, <1>4 DEF Next

LEMMA OwnedIsInvariant == WholeIndex /\ OwnKeys => (Spec => []Owned)
<1>. SUFFICES ASSUME WholeIndex, OwnKeys PROVE Spec => []Owned
  OBVIOUS
<1>1. Typed /\ Owned /\ [Next]_vars => Owned'
  BY NextOwned
<1>. QED  BY <1>1, InitOwned, TypedIsInvariant, PTL DEF Spec

(* For every set of clients whose v2 saves have a key of their own, and any *)
(* number of restarts from a whole index: an entry a lookup may answer with *)
(* has an archive of its key in S3; commit_cache and finalize mark an entry *)
(* only after its upload, and no overwrite or restart puts that at risk.    *)
THEOREM CommittedUploaded == WholeIndex /\ OwnKeys => (Spec => []CommittedIsUploaded)
<1>. SUFFICES ASSUME WholeIndex, OwnKeys PROVE Spec => []CommittedIsUploaded
  OBVIOUS
<1>1. Owned => CommittedIsUploaded
  BY DEF Owned, Archived, HasArchive, Known, CommittedIsUploaded
<1>. QED  BY <1>1, OwnedIsInvariant, PTL

(* Likewise: no two clients ever write the archive of one entry, although a *)
(* restart sets next_id back to just above the ids it finds on disk.        *)
THEOREM OneWriter == WholeIndex /\ OwnKeys => (Spec => []OneWriterPerId)
<1>. SUFFICES ASSUME WholeIndex, OwnKeys PROVE Spec => []OneWriterPerId
  OBVIOUS
<1>1. Owned => OneWriterPerId
  BY DEF Owned, Numbered, Working, OneWriterPerId
<1>. QED  BY <1>1, OwnedIsInvariant, PTL

(* Likewise: a restart keeps every entry whose save was answered and whose  *)
(* archive is still the one in S3, because save_index had returned.         *)
THEOREM SavedSurviveRestarts == WholeIndex /\ OwnKeys => (Spec => SavedSurvives)
<1>. SUFFICES ASSUME WholeIndex, OwnKeys PROVE Spec => SavedSurvives
  OBVIOUS
<1>1. Owned /\ [Next]_vars => [restarts' # restarts => \A c \in Clients : Survives(c)]_vars
  <2>. SUFFICES ASSUME Owned, Next, restarts' # restarts, NEW c \in Clients PROVE Survives(c)
    OBVIOUS
  <2>1. Restart
    <3>1. ASSUME NEW d \in Clients, Step(d) PROVE UNCHANGED restarts
      BY <3>1 DEF Step, RemoveOld, RemoveFor, Allocate, PushEntry, Upload, CommitStore,
         CommitUnlink, CommitMark, MarkOwn, FinalizeMark, Mark, InsertIndex, InsertThen, Handles,
         SaveBegin, SaveOpen, SaveWrite, SaveRename, Saves
    <3>. QED  BY <3>1 DEF Next, Done, vars
  <2>2. entries' = Loaded /\ disk # <<>> /\ Stored(c)
    BY <2>1 DEF Restart, RestartFrom, Owned, Storing
  <2>. QED  BY <2>2 DEF Survives, Stored
<1>. QED  BY <1>1, OwnedIsInvariant, PTL DEF Spec, SavedSurvives

--------------------------------------------------------------------------------
(* Ids and the index, also where saves share a key                         *)

(* No id is in entries twice, nor in the file, and an id that was given    *)
(* out and has no entry yet is in neither.                                 *)
Unique ==
  /\ Distinct(entries) /\ Distinct(Loaded)
  /\ \A c \in Clients : stage[c] = "allocated" => \A e \in Known : e.id # id_of[c]
  /\ \A c, d \in Clients :
       stage[c] = "allocated" /\ stage[d] = "allocated" /\ id_of[c] = id_of[d] => c = d

LEMMA SameEntry ==
  ASSUME Unique, NEW x \in EntriesOf, NEW y \in EntriesOf, x.id = y.id
  PROVE  x = y
  BY EntriesOfIs DEF Unique, Distinct, Elements, EntriesOf

LEMMA HandlerUnique ==
  ASSUME Typed, Unique, NEW c \in Clients, NEW to, Handler(c, to), to # "allocated",
         \A d \in Clients \ {c} : id_of'[d] = id_of[d], Distinct(entries'),
         \A e \in EntriesOf' :
           \/ \E x \in EntriesOf : x.id = e.id
           \/ stage[c] = "allocated" /\ e.id = id_of[c]
  PROVE  Unique'
<1>1. /\ Loaded' = Loaded /\ Known' = EntriesOf' \cup OnDisk
      /\ \A d \in Clients : stage'[d] = "allocated" => d # c /\ stage[d] = "allocated"
  BY KnownIs, TypeOKIs DEF Handler, Typed
<1>2. ASSUME NEW d \in Clients, stage'[d] = "allocated", NEW e \in Known'
      PROVE  e.id # id_of'[d]
  <2>1. d # c /\ stage[d] = "allocated" /\ id_of'[d] = id_of[d]
    BY <1>1, <1>2
  <2>2. CASE e \in OnDisk \/ \E x \in EntriesOf : x.id = e.id
    BY <2>1, <2>2 DEF Unique, Known
  <2>3. CASE stage[c] = "allocated" /\ e.id = id_of[c]
    BY <2>1, <2>3 DEF Unique
  <2>. QED  BY <1>1, <1>2, <2>2, <2>3
<1>3. ASSUME NEW d \in Clients, NEW f \in Clients, stage'[d] = "allocated",
             stage'[f] = "allocated", id_of'[d] = id_of'[f]
      PROVE  d = f
  BY <1>1, <1>3 DEF Unique
<1>. QED  BY <1>1, <1>2, <1>3 DEF Unique

LEMMA MarkUnique ==
  ASSUME Typed, Unique, NEW c \in Clients, CommitMark(c) \/ FinalizeMark(c)
  PROVE  Unique'
<1>0. TypeOK /\ entries \in Seq(Entry) /\ id_of \in [Clients -> Ids \cup {0}]
  BY TypeOKIs DEF Typed
<1>1. PICK from \in {"unlinked", "uploaded"}, found \in {OwnFound(c), KeyFound(c)} :
        \/ /\ stage[c] = from /\ Handler(c, "gone")
           /\ UNCHANGED <<entries, key_index, next_id, temps, s3, id_of>>
        \/ Marks(c, from, found)
  BY <1>0, MarkSteps
<1>2. CASE Handler(c, "gone") /\ UNCHANGED <<entries, id_of>>
  <2>1. EntriesOf' = EntriesOf /\ Distinct(entries')
    BY <1>2 DEF EntriesOf, Unique
  <2>. QED  BY <1>2, <2>1, HandlerUnique
<1>3. CASE Marks(c, from, found)
  <2>1. PICK i \in found :
          entries' = Commit(entries, i) /\ id_of' = [id_of EXCEPT ![c] = entries[i].id]
    BY <1>3 DEF Marks
  <2>2. i \in DOMAIN entries
    BY <2>1 DEF OwnFound, KeyFound
  <2>. DEFINE e == [entries[i] EXCEPT !.committed = TRUE]
  <2>3. /\ e.id = entries[i].id /\ Elements(entries') \subseteq Elements(entries) \cup {e}
        /\ Distinct(entries')
    BY <1>0, <2>1, <2>2, Committing DEF Unique
  <2>. HIDE DEF e
  <2>4. \A x \in EntriesOf' : \E y \in EntriesOf : y.id = x.id
    BY <2>2, <2>3, EntriesOfIs DEF EntriesOf
  <2>5. Handler(c, "marked") /\ \A d \in Clients \ {c} : id_of'[d] = id_of[d]
    BY <1>0, <1>3, <2>1 DEF Marks
  <2>. QED  BY <2>3, <2>4, <2>5, HandlerUnique
<1>. QED  BY <1>1, <1>2, <1>3

LEMMA StepUnique ==
  ASSUME Typed, Unique, NEW c \in Clients, Step(c)
  PROVE  Unique'
<1>0. /\ TypeOK /\ entries \in Seq(Entry) /\ stage \in [Clients -> Stages]
      /\ id_of \in [Clients -> Ids \cup {0}] /\ next_id \in Nat
  BY KindsIs, TypeOKIs DEF Typed
<1>1. CASE RemoveOld(c)
  <2>. DEFINE old == key_index[KeyOf[c]]
  <2>1. Handler(c, "removed") /\ entries' = Without(entries, old) /\ id_of' = id_of
    BY <1>1, HandlesIs DEF RemoveOld, RemoveFor
  <2>2. EntriesOf' \subseteq EntriesOf /\ Distinct(entries')
    BY <1>0, <2>1, Retained, EntriesOfIs DEF Unique
  <2>. QED  BY <2>1, <2>2, HandlerUnique
<1>2. CASE PushEntry(c)
  <2>. DEFINE e == EntryOf(c, FALSE)
  <2>1. /\ stage[c] = "allocated" /\ Handler(c, "pushed") /\ entries' = Append(entries, e)
        /\ id_of' = id_of
    BY <1>2, HandlesIs DEF PushEntry, EntryOf, files
  <2>2. e.id = id_of[c] /\ e \in Entry
    <3>1. id_of[c] # 0
      BY <1>0, <2>1 DEF Typed, InHand
    <3>. QED  BY <1>0, <3>1 DEF Entry, EntryOf, Keys
  <2>3. \A x \in Elements(entries) : x.id # e.id
    BY <2>1, <2>2, EntriesOfIs DEF Unique, Known
  <2>. HIDE DEF e
  <2>4. EntriesOf' = EntriesOf \cup {e} /\ Distinct(entries')
    BY <1>0, <2>1, <2>2, <2>3, Appended, EntriesOfIs DEF Unique
  <2>. QED  BY <2>1, <2>2, <2>4, HandlerUnique
<1>3. CASE Upload(c) \/ CommitStore(c) \/ CommitUnlink(c) \/ InsertIndex(c)
  <2>1. UNCHANGED <<entries, id_of>>
    BY <1>3 DEF Upload, CommitStore, CommitUnlink, InsertIndex, InsertThen, server
  <2>2. \E to : Handler(c, to) /\ to # "allocated"
    BY <1>3, HandlesIs DEF Upload, CommitStore, CommitUnlink, InsertIndex, InsertThen
  <2>3. EntriesOf' = EntriesOf /\ Distinct(entries')
    BY <2>1 DEF EntriesOf, Unique
  <2>. QED  BY <2>1, <2>2, <2>3, HandlerUnique
<1>4. CASE Allocate(c)
  <2>1. /\ Handler(c, "allocated") /\ id_of' = [id_of EXCEPT ![c] = next_id]
        /\ UNCHANGED entries
    BY <1>4, HandlesIs DEF Allocate
  <2>2. UNCHANGED <<Known, Loaded>>
    BY <2>1, KnownIs DEF Handler, Known, EntriesOf
  <2>3. /\ \A e \in Known : e.id # next_id
        /\ \A d \in Clients : stage[d] = "allocated" => id_of[d] # next_id
    BY <1>0 DEF Typed, Below, InHand
  <2>4. /\ id_of'[c] = next_id
        /\ \A d \in Clients \ {c} : stage'[d] = stage[d] /\ id_of'[d] = id_of[d]
    BY <1>0, <2>1 DEF Handler
  <2>. QED  BY <2>1, <2>2, <2>3, <2>4 DEF Unique
<1>5. CASE Saving(c)
  <2>1. SaveStep(c)
    BY <1>0, <1>5, SaveSteps DEF Typed, SavesAtEnd
  <2>2. Rewrites
    BY <2>1, RewritesIs, TypeOKIs, <1>0 DEF SaveStep
  <2>3. UNCHANGED <<entries, id_of>> /\ UNCHANGED EntriesOf
    BY <2>1 DEF SaveStep, EntriesOf
  <2>4. Known' \subseteq Known /\ Distinct(Loaded')
    BY <2>2, <2>3, NoElements, EntriesOfIs DEF Rewrites, Known, OnDisk, Unique
  <2>5. \A d \in Clients : stage'[d] = "allocated" => stage[d] = "allocated"
    BY <1>0, <2>1 DEF SaveStep, Returns
  <2>. QED  BY <2>3, <2>4, <2>5 DEF Unique
<1>. QED  BY <1>1, <1>2, <1>3, <1>4, <1>5, MarkUnique, StepIs DEF HandlerStep

LEMMA NextUnique == Typed /\ Unique /\ [Next]_vars => Unique'
<1>. SUFFICES ASSUME Typed, Unique, [Next]_vars PROVE Unique'
  OBVIOUS
<1>1. CASE UNCHANGED vars \/ Done
  <2>1. UNCHANGED <<entries, disk, stage, id_of>>
    BY <1>1 DEF vars, Done
  <2>2. UNCHANGED <<Loaded, Known>>
    BY <2>1, KnownIs DEF Known, EntriesOf
  <2>. QED  BY <2>1, <2>2 DEF Unique
<1>2. CASE Restart
  <2>1. entries' = Loaded /\ Loaded' = Loaded
    BY <1>2, KnownIs DEF Restart, RestartFrom, index_files
  <2>2. \A c \in Clients : stage'[c] # "allocated"
    BY <1>2 DEF Restart, RestartFrom, Handling
  <2>. QED  BY <2>1, <2>2 DEF Unique
<1>. QED  BY <1>1, <1>2, StepUnique DEF Next

LEMMA UniqueIsInvariant == Spec => []Unique
<1>1. Init => Unique
  <2>. SUFFICES ASSUME Init PROVE Unique
    OBVIOUS
  <2>1. Distinct(entries) /\ Distinct(Loaded)
    BY InitOwned DEF Owned, Numbered
  <2>. QED  BY <2>1 DEF Init, Unique
<1>. QED  BY <1>1, NextUnique, TypedIsInvariant, PTL DEF Spec

(* Whatever keys, protocols and index files the clients and restarts meet,  *)
(* no two entries have one id and no id is given out while an entry has it. *)
IdsAreFresh ==
  /\ \A i, j \in DOMAIN entries : entries[i].id = entries[j].id => i = j
  /\ \A e \in EntriesOf : e.id < next_id

THEOREM IdsStayFresh == Spec => []IdsAreFresh
<1>1. Typed /\ Unique => IdsAreFresh
  BY DEF Typed, Below, Unique, Distinct, Known, IdsAreFresh
<1>. QED  BY <1>1, TypedIsInvariant, UniqueIsInvariant, PTL

--------------------------------------------------------------------------------
(* The index, where all saves of one key speak one protocol.  (A commit    *)
(* and a finalize of one key may mark the same entry, one overwrite then   *)
(* removes it, and the later insert gives key_index an id of no entry.)    *)
OneProtocol == \A c, d \in Clients : KeyOf[c] = KeyOf[d] => (c \in V2 <=> d \in V2)

\* What reserve_cache pushes for c, and what c last marked.
Draft(c)  == EntryOf(c, FALSE)
Marked(c) == EntryOf(c, TRUE)

LEMMA DraftIs ==
  ASSUME NEW c
  PROVE  /\ Draft(c).id = id_of[c] /\ Draft(c).key = KeyOf[c] /\ ~Draft(c).committed
         /\ Marked(c).id = id_of[c] /\ Marked(c).key = KeyOf[c] /\ Marked(c).committed
         /\ id_of'[c] = id_of[c] => Draft(c)' = Draft(c) /\ Marked(c)' = Marked(c)
  BY DEF Draft, Marked, EntryOf

LEMMA AnEntry == Typed => \A e \in EntriesOf : e \in Entry /\ e.id \in Ids /\ e.id # 0
<1>. SUFFICES ASSUME Typed, NEW e \in EntriesOf PROVE e \in Entry /\ e.id \in Ids /\ e.id # 0
  OBVIOUS
<1>1. entries \in Seq(Entry) /\ \A i \in Ids : i # 0
  BY KindsIs, Counts DEF Kinds, Ids
<1>2. e \in Entry
  BY <1>1 DEF EntriesOf
<1>3. e.id \in Ids
  BY <1>2 DEF Entry
<1>. QED  BY <1>1, <1>2, <1>3

(* Of v1 saves, finding their entry by its id, every one has to be where   *)
(* the client left it; of v2 saves only the one that was just marked.      *)
Holds(c) ==
  /\ c \notin V2 =>
       /\ c \in Working => id_of[c] \in 1..(next_id - 1)
       /\ stage[c] \in Uploading \cup {"pushed"} => Draft(c) \in EntriesOf
       /\ stage[c] \in Uploading /\ disk # <<>> => Draft(c) \in OnDisk
  /\ stage[c] = "marked" =>
       Marked(c) \in EntriesOf /\ \A k \in Keys : key_index[k] # id_of[c]

Apart ==
  /\ \A c, d \in Working \ V2 : id_of[c] = id_of[d] => c = d
  /\ \A c, d \in Clients :
       stage[c] = "marked" /\ stage[d] = "marked" /\ id_of[c] = id_of[d] => c = d

Agreed == Indexed /\ Apart /\ \A c \in Clients : Holds(c)

\* What a step of c leaves to another client.
Leaves(d) ==
  /\ disk' = disk /\ stage'[d] = stage[d] /\ id_of'[d] = id_of[d]
  /\ next_id' \in Nat /\ next_id' >= next_id
  /\ d \notin V2 /\ stage[d] \in Uploading \cup {"pushed"} /\ Draft(d) \in EntriesOf
       => Draft(d) \in EntriesOf'
  /\ stage[d] = "marked" /\ Marked(d) \in EntriesOf
       => /\ Marked(d) \in EntriesOf'
          /\ \A k \in Keys : key_index'[k] = key_index[k] \/ key_index'[k] # id_of[d]

LEMMA OthersHold ==
  ASSUME Typed, Agreed, NEW d \in Clients, Leaves(d)
  PROVE  Holds(d)'
<1>1. Holds(d) /\ next_id \in Nat /\ OnDisk' = OnDisk
  BY KindsIs, KnownIs DEF Agreed, Leaves
<1>2. Marked(d)' = Marked(d) /\ Draft(d)' = Draft(d)
  BY DraftIs DEF Leaves
<1>3. d \in Working' <=> d \in Working
  BY DEF Working, Leaves
<1>4. d \notin V2 /\ d \in Working' => id_of'[d] \in 1..(next_id' - 1)
  BY <1>1, <1>3 DEF Holds, Leaves
<1>5. d \notin V2 /\ stage'[d] \in Uploading \cup {"pushed"} => Draft(d)' \in EntriesOf'
  BY <1>1, <1>2 DEF Holds, Leaves
<1>6. d \notin V2 /\ stage'[d] \in Uploading /\ disk' # <<>> => Draft(d)' \in OnDisk'
  BY <1>1, <1>2 DEF Holds, Leaves
<1>7. stage'[d] = "marked" =>
        Marked(d)' \in EntriesOf' /\ \A k \in Keys : key_index'[k] # id_of'[d]
  BY <1>1, <1>2 DEF Holds, Leaves
<1>. QED  BY <1>4, <1>5, <1>6, <1>7 DEF Holds, Uploading

\* Nobody new is at work or marked, except for a client that says so.
LEMMA StillApart ==
  ASSUME Typed, Agreed, NEW c \in Clients, NEW to, Handler(c, to),
         \A d \in Clients \ {c} : id_of'[d] = id_of[d],
         c \in V2 \/ id_of'[c] = id_of[c], c \in Working \/ to \in Ended \cup {"removed"},
         to = "marked" => \A d \in Clients \ {c} : stage[d] = "marked" => id_of[d] # id_of'[c]
  PROVE  Apart'
<1>1. /\ stage'[c] = to /\ \A d \in Clients \ {c} : stage'[d] = stage[d]
      /\ Working' \subseteq Working
  BY TypeOKIs DEF Typed, Handler, Working
<1>2. \A d \in Working \ V2 : id_of'[d] = id_of[d]
  BY DEF Working
<1>3. \A d, f \in Working' \ V2 : id_of'[d] = id_of'[f] => d = f
  BY <1>1, <1>2 DEF Agreed, Apart
<1>4. ASSUME NEW d \in Clients, NEW f \in Clients, stage'[d] = "marked",
             stage'[f] = "marked", id_of'[d] = id_of'[f], d # f
      PROVE  FALSE
  BY <1>1, <1>4 DEF Agreed, Apart
<1>. QED  BY <1>3, <1>4 DEF Apart

LEMMA RemoveAgreed ==
  ASSUME Typed, Unique, Agreed, NEW c \in Clients, RemoveOld(c)
  PROVE  Agreed'
<1>. DEFINE old == key_index[KeyOf[c]]
<1>0. /\ TypeOK /\ entries \in Seq(Entry) /\ stage \in [Clients -> Stages] /\ KeyOf[c] \in Keys
      /\ key_index \in [Keys -> Ids \cup {0}] /\ (\A i \in Ids : i # 0) /\ next_id \in Nat
  BY KindsIs, TypeOKIs, Counts DEF Typed, Keys, Ids
<1>1. /\ stage[c] = "idle" /\ Handler(c, "removed") /\ entries' = Without(entries, old)
      /\ key_index' = [key_index EXCEPT ![KeyOf[c]] = 0]
      /\ UNCHANGED <<next_id, id_of>>
  BY HandlesIs DEF RemoveOld, RemoveFor, files
<1>2. EntriesOf' = {e \in EntriesOf : e.id # old}
  BY <1>0, <1>1, Retained, EntriesOfIs
<1>3. old # 0 => \E f \in EntriesOf : f.id = old /\ f.key = KeyOf[c] /\ f.committed
  BY <1>0 DEF Agreed, Indexed
<1>4. \A e \in EntriesOf : e.id = old => e.key = KeyOf[c] /\ e.committed
  <2>1. ASSUME NEW e \in EntriesOf, e.id = old PROVE e.key = KeyOf[c] /\ e.committed
    <3>1. old # 0
      <4>1. e \in Entry
        BY <1>0 DEF EntriesOf
      <4>. QED  BY <1>0, <2>1, <4>1 DEF Entry
    <3>. QED  BY <1>3, <2>1, <3>1, SameEntry
  <2>. QED  BY <2>1
<1>5. \A k \in Keys : old # 0 \/ key_index'[k] = key_index[k] \/ key_index'[k] = 0
  BY <1>0, <1>1
<1>6. Indexed'
  <2>1. ASSUME NEW k \in Keys, key_index'[k] # 0
        PROVE  \E e \in EntriesOf' : e.id = key_index'[k] /\ e.key = k /\ e.committed
    <3>1. k # KeyOf[c] /\ key_index'[k] = key_index[k]
      BY <1>0, <1>1, <2>1
    <3>2. PICK e \in EntriesOf : e.id = key_index[k] /\ e.key = k /\ e.committed
      BY <2>1, <3>1 DEF Agreed, Indexed
    <3>3. e.id # old
      BY <1>4, <3>1, <3>2
    <3>. QED  BY <1>2, <3>1, <3>2, <3>3
  <2>. QED  BY <2>1 DEF Indexed
<1>7. Apart'
  BY <1>1, StillApart
<1>8. ASSUME NEW d \in Clients PROVE Holds(d)'
  <2>1. CASE d # c
    <3>1. stage'[d] = stage[d] /\ UNCHANGED <<disk, next_id, id_of>>
      BY <1>0, <1>1, <2>1 DEF Handler
    <3>2. ~Draft(d).committed /\ Marked(d).id = id_of[d] /\ Marked(d).committed
      BY DraftIs
    <3>3. Draft(d) \in EntriesOf => Draft(d) \in EntriesOf'
      BY <1>2, <1>4, <3>2
    <3>4. stage[d] = "marked" /\ Marked(d) \in EntriesOf
            => /\ Marked(d) \in EntriesOf'
               /\ \A k \in Keys : key_index'[k] = key_index[k] \/ key_index'[k] # id_of[d]
      <4>. SUFFICES ASSUME stage[d] = "marked", Marked(d) \in EntriesOf
                    PROVE  /\ Marked(d) \in EntriesOf'
                           /\ \A k \in Keys : key_index'[k] = key_index[k] \/ key_index'[k] # id_of[d]
        OBVIOUS
      <4>1. \A k \in Keys : key_index[k] # id_of[d]
        BY DEF Agreed, Holds
      <4>2. id_of[d] # 0
        BY <3>2, AnEntry
      <4>. QED  BY <1>0, <1>1, <1>2, <3>2, <4>1, <4>2
    <3>9. Leaves(d)
      BY <1>0, <3>1, <3>3, <3>4 DEF Leaves
    <3>. QED  BY <3>9, OthersHold
  <2>2. CASE d = c
    <3>1. stage'[c] = "removed" /\ c \notin Working'
      BY <1>0, <1>1 DEF Handler, Working
    <3>. QED  BY <2>2, <3>1 DEF Holds, Uploading
  <2>. QED  BY <2>1, <2>2
<1>. QED  BY <1>6, <1>7, <1>8 DEF Agreed

LEMMA PushAgreed ==
  ASSUME Typed, Agreed, NEW c \in Clients, PushEntry(c)
  PROVE  Agreed'
<1>. DEFINE e == Draft(c)
<1>0. /\ TypeOK /\ entries \in Seq(Entry) /\ stage \in [Clients -> Stages] /\ KeyOf[c] \in Keys
      /\ next_id \in Nat /\ id_of \in [Clients -> Ids \cup {0}]
  BY KindsIs, TypeOKIs DEF Typed, Keys
<1>1. /\ stage[c] = "allocated" /\ Handler(c, "pushed") /\ entries' = Append(entries, e)
      /\ UNCHANGED <<key_index, next_id, id_of>>
  BY HandlesIs DEF PushEntry, EntryOf, Draft, Marked, files
<1>2. e \in Entry
  <2>1. id_of[c] # 0
    BY <1>0, <1>1 DEF Typed, InHand
  <2>. QED  BY <1>0, <2>1 DEF Entry, EntryOf, Draft, Marked
<1>3. e' = e
  BY <1>1 DEF EntryOf, Draft, Marked
<1>. HIDE DEF e
<1>4. EntriesOf' = EntriesOf \cup {e}
  BY <1>0, <1>1, <1>2, Appended, EntriesOfIs
<1>5. /\ UNCHANGED disk /\ stage'[c] = "pushed"
      /\ \A d \in Clients \ {c} : stage'[d] = stage[d]
  BY <1>0, <1>1 DEF Handler
<1>6. c \in Working
  BY <1>1 DEF Working, Ended
<1>7. Indexed'
  BY <1>1, <1>4 DEF Agreed, Indexed
<1>8. Apart'
  BY <1>1, <1>6, StillApart
<1>9. ASSUME NEW d \in Clients PROVE Holds(d)'
  <2>1. CASE d # c
    <3>1. Leaves(d)
      BY <1>0, <1>1, <1>4, <1>5, <2>1 DEF Leaves
    <3>. QED  BY <3>1, OthersHold
  <2>2. CASE d = c
    <3>1. Draft(c)' \in EntriesOf'
      BY <1>3, <1>4 DEF e
    <3>2. id_of'[c] \in 1..(next_id' - 1)
      BY <1>1 DEF Typed, InHand
    <3>. QED  BY <1>5, <2>2, <3>1, <3>2 DEF Holds, Uploading
  <2>. QED  BY <2>1, <2>2
<1>. QED  BY <1>7, <1>8, <1>9 DEF Agreed

\* The entries stay as they are.
LEMMA PlainAgreed ==
  ASSUME Typed, Agreed, NEW c \in Clients, NEW to, Handler(c, to),
         UNCHANGED <<entries, key_index, next_id, id_of>>, stage[c] \in Uploading,
         to \in (Uploading \ {"reserved"}) \cup {"gone"}
  PROVE  Agreed'
<1>0. stage \in [Clients -> Stages] /\ next_id \in Nat
  BY KindsIs, TypeOKIs DEF Typed
<1>1. UNCHANGED <<disk, EntriesOf, OnDisk>> /\ stage'[c] = to
      /\ \A d \in Clients \ {c} : stage'[d] = stage[d]
  BY <1>0, KnownIs DEF Handler, EntriesOf
<1>2. c \in Working /\ to # "marked"
  BY DEF Working, Ended, Uploading
<1>3. Indexed'
  BY <1>1 DEF Agreed, Indexed
<1>4. Apart'
  BY <1>2, StillApart
<1>5. ASSUME NEW d \in Clients PROVE Holds(d)'
  <2>1. CASE d # c
    <3>1. Leaves(d)
      BY <1>0, <1>1, <2>1 DEF Leaves
    <3>. QED  BY <3>1, OthersHold
  <2>2. CASE d = c
    <3>1. Holds(c) /\ Draft(c)' = Draft(c)
      BY DEF Agreed, EntryOf, Draft, Marked
    <3>2. to \notin {"pushed", "marked"}
      BY DEF Uploading
    <3>. QED  BY <1>1, <1>2, <2>2, <3>1, <3>2 DEF Holds
  <2>. QED  BY <2>1, <2>2
<1>. QED  BY <1>3, <1>4, <1>5 DEF Agreed

LEMMA MarkAgreed ==
  ASSUME OneProtocol, Typed, Unique, Agreed, NEW c \in Clients, CommitMark(c) \/ FinalizeMark(c)
  PROVE  Agreed'
<1>0. /\ TypeOK /\ entries \in Seq(Entry) /\ stage \in [Clients -> Stages]
      /\ id_of \in [Clients -> Ids \cup {0}] /\ KeyOf[c] \in Keys /\ next_id \in Nat
  BY KindsIs, TypeOKIs DEF Typed, Keys
<1>1. PICK from \in {"unlinked", "uploaded"}, found \in {OwnFound(c), KeyFound(c)} :
           /\ \/ c \notin V2 /\ from = "unlinked" /\ found = OwnFound(c)
              \/ c \in V2 /\ from = "uploaded" /\ found = KeyFound(c)
           /\ \/ /\ stage[c] = from /\ Handler(c, "gone")
                 /\ UNCHANGED <<entries, key_index, next_id, temps, s3, id_of>>
              \/ Marks(c, from, found)
  BY <1>0, MarkSteps
<1>2. CASE /\ stage[c] = from /\ Handler(c, "gone")
           /\ UNCHANGED <<entries, key_index, next_id, temps, s3, id_of>>
  BY <1>2, PlainAgreed DEF Uploading
<1>3. CASE Marks(c, from, found)
  <2>1. PICK i \in found :
          entries' = Commit(entries, i) /\ id_of' = [id_of EXCEPT ![c] = entries[i].id]
    BY <1>3 DEF Marks
  <2>2. /\ stage[c] = from /\ Handler(c, "marked")
        /\ UNCHANGED <<key_index, next_id>>
    BY <1>3 DEF Marks
  <2>. DEFINE x == entries[i]
              e == [x EXCEPT !.committed = TRUE]
  <2>3. i \in DOMAIN entries /\ x \in EntriesOf /\ x \in Entry
    BY <1>0, <1>1, <2>1 DEF OwnFound, KeyFound, EntriesOf
  \* A v1 client marks its own entry, a v2 client one of its key.
  <2>4. /\ x.key = KeyOf[c] /\ ~x.committed
        /\ c \notin V2 => x.id = id_of[c]
    <3>1. CASE c \in V2
      BY <1>1, <2>1, <3>1 DEF KeyFound
    <3>2. CASE c \notin V2
      <4>1. x.id = id_of[c]
        BY <1>1, <2>1, <3>2 DEF OwnFound
      <4>2. Draft(c) \in EntriesOf
        BY <1>1, <2>2, <3>2 DEF Agreed, Holds, Uploading
      <4>3. x = Draft(c)
        BY <2>3, <4>1, <4>2, SameEntry, DraftIs
      <4>. QED  BY <4>1, <4>3, DraftIs
    <3>. QED  BY <3>1, <3>2
  <2>5. /\ e \in Entry /\ e.id = x.id /\ e.key = x.key /\ e.committed
        /\ EntriesOf' \subseteq EntriesOf \cup {e} /\ e \in EntriesOf'
        /\ \A y \in EntriesOf : y # x => y \in EntriesOf'
    BY <1>0, <2>1, <2>3, Committing, EntriesOfIs
  <2>6. /\ id_of'[c] = x.id /\ \A d \in Clients \ {c} : id_of'[d] = id_of[d]
    BY <1>0, <2>1
  <2>7. Marked(c)' = e
    <3>1. /\ Marked(c)'.id = x.id /\ Marked(c)'.key = KeyOf[c]
          /\ Marked(c)'.committed = TRUE /\ Marked(c)' \in Entry
      <4>1. x.id \in Ids
        BY <2>3 DEF Entry
      <4>2. Marked(c)' = [id |-> x.id, key |-> KeyOf[c], committed |-> TRUE]
        BY <2>6 DEF EntryOf, Draft, Marked
      <4>. QED  BY <1>0, <4>1, <4>2 DEF Entry
    <3>2. e.committed = TRUE
      BY <2>5 DEF Entry
    <3>. QED  BY <2>4, <2>5, <3>1, <3>2, SameFields
  <2>. HIDE DEF x, e
  <2>8. UNCHANGED disk /\ stage'[c] = "marked" /\ \A d \in Clients \ {c} : stage'[d] = stage[d]
    BY <1>0, <2>2 DEF Handler
  <2>9. c \in Working
    BY <2>2 DEF Working, Ended
  \* No other client has marked the entry, and the index does not have it.
  <2>10. \A d \in Clients \ {c} : stage[d] = "marked" =>
           Marked(d) \in EntriesOf /\ Marked(d) # x /\ id_of[d] # x.id
    <3>1. ASSUME NEW d \in Clients \ {c}, stage[d] = "marked"
          PROVE  Marked(d) \in EntriesOf /\ Marked(d) # x /\ id_of[d] # x.id
      <4>1. Marked(d) \in EntriesOf
        BY <3>1 DEF Agreed, Holds
      <4>2. Marked(d).committed /\ Marked(d).id = id_of[d]
        BY DraftIs
      <4>. QED  BY <2>3, <2>4, <4>1, <4>2, SameEntry
    <3>. QED  BY <3>1
  <2>11. \A k \in Keys : key_index[k] # x.id
    <3>1. ASSUME NEW k \in Keys, key_index[k] = x.id PROVE FALSE
      <4>1. x.id # 0
        BY <2>3, Counts DEF Entry, Ids
      <4>2. PICK y \in EntriesOf : y.id = x.id /\ y.committed
        BY <3>1, <4>1 DEF Agreed, Indexed
      <4>. QED  BY <2>3, <2>4, <4>2, SameEntry
    <3>. QED  BY <3>1
  <2>12. Indexed'
    <3>1. ASSUME NEW k \in Keys, key_index'[k] # 0
          PROVE  \E y \in EntriesOf' : y.id = key_index'[k] /\ y.key = k /\ y.committed
      <4>1. PICK y \in EntriesOf : y.id = key_index[k] /\ y.key = k /\ y.committed
        BY <2>2, <3>1 DEF Agreed, Indexed
      <4>. QED  BY <2>2, <2>4, <2>5, <4>1
    <3>. QED  BY <3>1 DEF Indexed
  <2>13. Apart'
    BY <2>2, <2>4, <2>6, <2>9, <2>10, StillApart
  <2>14. ASSUME NEW d \in Clients PROVE Holds(d)'
    <3>1. CASE d # c
      <4>1. d \notin V2 /\ stage[d] \in Uploading \cup {"pushed"} => Draft(d) # x
        <5>. SUFFICES ASSUME d \notin V2, stage[d] \in Uploading \cup {"pushed"},
                             Draft(d) = x
                      PROVE  FALSE
          OBVIOUS
        <5>1. x.id = id_of[d] /\ x.key = KeyOf[d]
          BY DraftIs
        <5>2. c \notin V2
          BY <2>4, <5>1 DEF OneProtocol
        <5>3. d \in Working
          BY DEF Working, Ended, Uploading
        <5>. QED  BY <2>4, <2>9, <3>1, <5>1, <5>2, <5>3 DEF Agreed, Apart
      <4>2. stage'[d] = stage[d] /\ id_of'[d] = id_of[d]
        BY <2>6, <2>8, <3>1
      <4>3. stage[d] = "marked" => Marked(d) # x
        BY <2>10, <3>1
      <4>9. Leaves(d)
        BY <1>0, <2>2, <2>5, <2>8, <4>1, <4>2, <4>3 DEF Leaves
      <4>. QED  BY <4>9, OthersHold
    <3>2. CASE d = c
      <4>1. c \notin V2 => id_of'[c] \in 1..(next_id' - 1)
        BY <2>2, <2>4, <2>6, <2>9 DEF Agreed, Holds
      <4>. QED  BY <2>2, <2>5, <2>6, <2>7, <2>8, <2>11, <3>2, <4>1 DEF Holds, Uploading
    <3>. QED  BY <3>1, <3>2
  <2>. QED  BY <2>12, <2>13, <2>14 DEF Agreed
<1>. QED  BY <1>1, <1>2, <1>3

LEMMA InsertAgreed ==
  ASSUME Typed, Agreed, NEW c \in Clients, InsertIndex(c)
  PROVE  Agreed'
<1>0. TypeOK /\ stage \in [Clients -> Stages] /\ KeyOf[c] \in Keys /\ next_id \in Nat
      /\ key_index \in [Keys -> Ids \cup {0}]
  BY KindsIs, TypeOKIs DEF Typed, Keys
<1>1. /\ stage[c] = "marked" /\ Handler(c, "indexed")
      /\ key_index' = [key_index EXCEPT ![KeyOf[c]] = id_of[c]]
      /\ UNCHANGED <<entries, next_id, id_of>>
  BY HandlesIs DEF InsertIndex, InsertThen, files
<1>2. UNCHANGED <<disk, EntriesOf>> /\ stage'[c] = "indexed"
      /\ \A d \in Clients \ {c} : stage'[d] = stage[d]
  BY <1>0, <1>1 DEF Handler, EntriesOf
<1>3. c \in Working
  BY <1>1 DEF Working, Ended
<1>4. Indexed'
  <2>1. Marked(c) \in EntriesOf
    BY <1>1 DEF Agreed, Holds
  <2>2. ASSUME NEW k \in Keys, key_index'[k] # 0
        PROVE  \E e \in EntriesOf : e.id = key_index'[k] /\ e.key = k /\ e.committed
    <3>1. CASE k = KeyOf[c]
      <4>. WITNESS Marked(c) \in EntriesOf
      <4>. QED  BY <1>0, <1>1, <3>1 DEF EntryOf, Draft, Marked
    <3>2. CASE k # KeyOf[c]
      BY <1>0, <1>1, <2>2, <3>2 DEF Agreed, Indexed
    <3>. QED  BY <3>1, <3>2
  <2>. QED  BY <1>2, <2>2 DEF Indexed
<1>5. Apart'
  BY <1>1, <1>3, StillApart
<1>6. ASSUME NEW d \in Clients PROVE Holds(d)'
  <2>1. CASE d # c
    <3>1. stage[d] = "marked" => id_of[d] # id_of[c]
      BY <1>1, <2>1 DEF Agreed, Apart
    <3>2. stage[d] = "marked" => \A k \in Keys :
            key_index'[k] = key_index[k] \/ key_index'[k] # id_of[d]
      BY <1>0, <1>1, <3>1
    <3>9. Leaves(d)
      BY <1>0, <1>1, <1>2, <2>1, <3>2 DEF Leaves
    <3>. QED  BY <3>9, OthersHold
  <2>2. CASE d = c
    <3>1. Holds(c)
      BY DEF Agreed
    <3>. QED  BY <1>1, <1>2, <1>3, <2>2, <3>1 DEF Holds, Uploading
  <2>. QED  BY <2>1, <2>2
<1>. QED  BY <1>4, <1>5, <1>6 DEF Agreed

LEMMA AllocateAgreed ==
  ASSUME Typed, Agreed, NEW c \in Clients, Allocate(c)
  PROVE  Agreed'
<1>0. TypeOK /\ stage \in [Clients -> Stages] /\ id_of \in [Clients -> Ids \cup {0}]
      /\ next_id \in Nat /\ next_id >= 1 /\ Ids \subseteq Nat
  BY TypeOKIs, Counts DEF Typed, Ids
<1>1. /\ stage[c] = "removed" /\ Handler(c, "allocated")
      /\ id_of' = [id_of EXCEPT ![c] = next_id] /\ next_id' = next_id + 1
      /\ UNCHANGED <<entries, key_index>>
  BY HandlesIs DEF Allocate
<1>2. /\ UNCHANGED <<disk, EntriesOf>> /\ stage'[c] = "allocated"
      /\ \A d \in Clients \ {c} : stage'[d] = stage[d] /\ id_of'[d] = id_of[d]
      /\ id_of'[c] = next_id
  BY <1>0, <1>1 DEF Handler, EntriesOf
<1>3. Indexed'
  BY <1>1, <1>2 DEF Agreed, Indexed
<1>4. \A d \in Working \ V2 : id_of[d] \in 1..(next_id - 1)
  BY DEF Agreed, Holds, Working
<1>5. Apart'
  <2>1. \A d, f \in Working' \ V2 : id_of'[d] = id_of'[f] => d = f
    <3>1. ASSUME NEW d \in Working' \ V2 PROVE d = c \/ (d \in Working \ V2 /\ id_of'[d] = id_of[d])
      BY <1>2, <3>1 DEF Working
    <3>2. \A d \in Working \ V2 : id_of[d] # next_id
      BY <1>0, <1>4
    <3>. QED  BY <1>2, <3>1, <3>2 DEF Agreed, Apart
  <2>2. \A d \in Clients : stage'[d] = "marked" => d # c /\ stage[d] = "marked"
    BY <1>2
  <2>. QED  BY <1>2, <2>1, <2>2 DEF Agreed, Apart
<1>6. ASSUME NEW d \in Clients PROVE Holds(d)'
  <2>1. CASE d # c
    <3>1. Leaves(d)
      BY <1>0, <1>1, <1>2, <2>1 DEF Leaves
    <3>. QED  BY <3>1, OthersHold
  <2>2. CASE d = c
    <3>1. id_of'[c] \in 1..(next_id' - 1)
      BY <1>0, <1>1, <1>2
    <3>. QED  BY <1>2, <2>2, <3>1 DEF Holds, Uploading
  <2>. QED  BY <2>1, <2>2
<1>. QED  BY <1>3, <1>5, <1>6 DEF Agreed

LEMMA SaveAgreed ==
  ASSUME Typed, Agreed, NEW c \in Clients, Saving(c)
  PROVE  Agreed'
<1>1. SaveStep(c) /\ TypeOK /\ stage \in [Clients -> Stages]
  BY SaveSteps, TypeOKIs DEF Typed, SavesAtEnd
<1>2. /\ Rewrites
      /\ disk' \in {<<>>, <<entries>>} => disk' = <<>> \/ Loaded' = entries
  BY <1>1, RewritesIs, TypeOKIs DEF SaveStep
<1>3. UNCHANGED <<entries, key_index, next_id, id_of, EntriesOf>>
  BY <1>1 DEF SaveStep, EntriesOf
<1>4. disk' # <<>> => (disk # <<>> /\ OnDisk' = OnDisk) \/ OnDisk' = EntriesOf
  BY <1>2, <1>3, EntriesOfIs DEF Rewrites, OnDisk
<1>5. /\ \A d \in Clients \ {c} : stage'[d] = stage[d]
      /\ \/ stage'[c] = stage[c]
         \/ stage'[c] = "failed"
         \/ /\ stage[c] \in {"pushed", "indexed"} /\ stage'[c] = Returns(c)
            /\ disk' \in {<<>>, <<entries>>}
  BY <1>1 DEF SaveStep
<1>6. Working' \subseteq Working /\ \A d \in Clients : stage'[d] = "marked" => stage[d] = "marked"
  BY <1>1, <1>5 DEF Working, Returns, Ended
<1>7. Indexed' /\ Apart'
  BY <1>3, <1>6 DEF Agreed, Indexed, Apart
<1>8. ASSUME NEW d \in Clients PROVE Holds(d)'
  <2>1. Holds(d) /\ Marked(d)' = Marked(d) /\ Draft(d)' = Draft(d)
    BY <1>3 DEF Agreed, EntryOf, Draft, Marked
  <2>2. d \notin V2 /\ d \in Working' => id_of'[d] \in 1..(next_id' - 1)
    BY <1>3, <1>6, <2>1 DEF Holds
  <2>3. stage'[d] = "marked" =>
          Marked(d)' \in EntriesOf' /\ \A k \in Keys : key_index'[k] # id_of'[d]
    BY <1>3, <1>6, <2>1 DEF Holds
  <2>4. CASE stage'[d] = stage[d]
    <3>1. d \notin V2 /\ stage[d] \in Uploading \cup {"pushed"} => Draft(d)' \in EntriesOf'
      BY <1>3, <2>1 DEF Holds
    <3>2. d \notin V2 /\ stage[d] \in Uploading /\ disk' # <<>> => Draft(d)' \in OnDisk'
      BY <1>4, <2>1 DEF Holds
    <3>. QED  BY <2>2, <2>3, <2>4, <3>1, <3>2 DEF Holds, Uploading
  <2>5. CASE stage'[d] # stage[d]
    <3>1. d = c /\ stage'[d] \in {"failed", "reserved", "saved"}
      BY <1>5, <2>5 DEF Returns
    <3>2. stage'[d] = "reserved" => stage[d] = "pushed" /\ (disk' = <<>> \/ OnDisk' = EntriesOf)
      BY <1>2, <1>3, <1>5, <2>5, <3>1, EntriesOfIs DEF Returns, OnDisk
    <3>3. stage'[d] \in Uploading \cup {"pushed"} => stage'[d] = "reserved"
      BY <3>1 DEF Uploading
    <3>4. d \notin V2 /\ stage'[d] = "reserved" => Draft(d)' \in EntriesOf'
      BY <1>3, <2>1, <3>2 DEF Holds
    <3>. QED  BY <1>3, <2>2, <2>3, <3>2, <3>3, <3>4 DEF Holds, Uploading
  <2>. QED  BY <2>4, <2>5
<1>. QED  BY <1>7, <1>8 DEF Agreed

LEMMA RestartAgreed ==
  ASSUME WholeIndex \/ V2 = Clients, Typed, Agreed, Restart
  PROVE  Agreed'
<1>0. TypeOK /\ (WholeIndex => disk # <<>>) /\ \A c \in Clients : stage[c] \in Stages
  BY TypeOKIs DEF Typed, Restart, RestartFrom
<1>1. /\ entries' = Loaded /\ next_id' = 1 + Greatest(KeptIds)
      /\ key_index' = [k \in Keys |-> LastCommitted(k)]
      /\ \A c \in Clients : stage'[c] = IF stage[c] \in Handling THEN "aborted" ELSE stage[c]
      /\ UNCHANGED <<disk, id_of>>
  BY DEF Restart, RestartFrom, index_files
<1>2. OnDisk' = OnDisk /\ EntriesOf' = OnDisk
  BY <1>1, KnownIs, EntriesOfIs DEF OnDisk, Elements
<1>3. /\ Loaded \in Seq(Entry) /\ Greatest(KeptIds) \in Nat
      /\ \A e \in OnDisk : e.id \in 1..Greatest(KeptIds)
  BY KeptIs
<1>4. \A c \in Clients : c \in Working' =>
        c \in Working /\ stage[c] \in {"reserved", "uploaded"} /\ stage'[c] = stage[c]
  BY <1>0, <1>1 DEF Working, Stages, Handling, Ended
<1>5. \A c \in Clients \ V2 : stage[c] \in {"reserved", "uploaded"} => Draft(c) \in OnDisk
  BY <1>0 DEF Agreed, Holds, Uploading
<1>6. Indexed'
  BY <1>1, <1>2, <1>3, LastIs DEF Indexed
<1>7. \A c \in Clients : stage'[c] \notin {"allocated", "pushed", "marked", "stored", "unlinked"}
  BY <1>0, <1>1 DEF Handling
<1>8. Apart'
  <2>1. Working' \subseteq Working
    BY <1>4 DEF Working
  <2>. QED  BY <1>1, <1>7, <2>1 DEF Agreed, Apart
<1>9. ASSUME NEW c \in Clients PROVE Holds(c)'
  <2>1. Draft(c)' = Draft(c) /\ Draft(c).id = id_of[c] /\ id_of'[c] = id_of[c]
    BY <1>1 DEF EntryOf, Draft, Marked
  <2>2. c \notin V2 /\ c \in Working' => id_of'[c] \in 1..(next_id' - 1)
    <3>. SUFFICES ASSUME c \notin V2, c \in Working' PROVE id_of[c] \in 1..(next_id' - 1)
      BY <2>1
    <3>1. id_of[c] \in 1..Greatest(KeptIds)
      BY <1>3, <1>4, <1>5, <2>1
    <3>2. next_id' - 1 = Greatest(KeptIds)
      BY <1>1, <1>3
    <3>. QED  BY <3>1, <3>2
  <2>3. stage'[c] \in Uploading => stage[c] \in {"reserved", "uploaded"}
    BY <1>1, <1>7 DEF Uploading, Handling
  <2>. QED  BY <1>2, <1>5, <1>7, <2>1, <2>2, <2>3 DEF Holds
<1>. QED  BY <1>6, <1>8, <1>9 DEF Agreed

LEMMA NextAgreed ==
  OneProtocol /\ (WholeIndex \/ V2 = Clients) /\ Typed /\ Unique /\ Agreed /\ [Next]_vars
    => Agreed'
<1>. SUFFICES ASSUME OneProtocol, WholeIndex \/ V2 = Clients, Typed, Unique, Agreed, [Next]_vars
              PROVE  Agreed'
  OBVIOUS
<1>1. CASE UNCHANGED vars \/ Done
  <2>1. UNCHANGED <<entries, key_index, next_id, disk, stage, id_of>>
    BY <1>1 DEF Done, vars
  <2>2. UNCHANGED <<OnDisk, EntriesOf, Working>>
    BY <2>1, KnownIs DEF EntriesOf, Working
  <2>. QED  BY <2>1, <2>2 DEF Agreed, Indexed, Apart, Holds, EntryOf, Draft, Marked
<1>2. ASSUME NEW c \in Clients, Upload(c) \/ CommitStore(c) \/ CommitUnlink(c) PROVE Agreed'
  <2>1. UNCHANGED <<entries, key_index, next_id, id_of>>
    BY <1>2 DEF Upload, CommitStore, CommitUnlink, server
  <2>2. /\ stage[c] \in Uploading
        /\ \E to \in (Uploading \ {"reserved"}) \cup {"gone"} : Handler(c, to)
    BY <1>2, HandlesIs DEF Upload, CommitStore, CommitUnlink, Uploading
  <2>. QED  BY <2>1, <2>2, PlainAgreed
<1>3. ASSUME NEW c \in Clients, HandlerStep(c) PROVE Agreed'
  BY <1>2, <1>3, RemoveAgreed, PushAgreed, MarkAgreed, InsertAgreed DEF HandlerStep
<1>4. ASSUME NEW c \in Clients, Step(c) PROVE Agreed'
  BY <1>3, <1>4, StepIs, AllocateAgreed, SaveAgreed
<1>. QED  BY <1>1, <1>4, RestartAgreed DEF Next

(* Also for saves that share their keys, as long as those of one key speak  *)
(* one protocol: the id that reserve_cache and create remove on an         *)
(* overwrite is that of a committed entry of the key, and ids are unique   *)
(* and below next_id.  Only v1 saves need the process not to die while     *)
(* index.json is half written.                                             *)
THEOREM IndexAgreement ==
  OneProtocol /\ (WholeIndex \/ V2 = Clients) => (Spec => []IndexAgrees)
<1>. SUFFICES ASSUME OneProtocol, WholeIndex \/ V2 = Clients PROVE Spec => []IndexAgrees
  OBVIOUS
<1>1. Init => Agreed
  <2>. SUFFICES ASSUME Init PROVE Agreed
    OBVIOUS
  <2>1. Indexed /\ \A c \in Clients : stage[c] = "idle"
    BY InitOwned DEF Owned, Init
  <2>. QED  BY <2>1 DEF Agreed, Apart, Holds, Working, Uploading
<1>2. Typed /\ Unique /\ Agreed /\ [Next]_vars => Agreed'
  BY NextAgreed
<1>3. IdsAreFresh /\ Agreed => IndexAgrees
  BY DEF IdsAreFresh, Agreed, Indexed, IndexAgrees
<1>. QED
  BY <1>1, <1>2, <1>3, TypedIsInvariant, UniqueIsInvariant, IdsStayFresh, PTL DEF Spec
================================================================================
