--------------------------- MODULE ProvisioningProofs ---------------------------
(***************************************************************************)
(* Theorems about Provisioning, for every set of images and of versions:   *)
(* what a start-up that comes up finds in the rootfs and the squashfs, and *)
(* what the packet filter does then.                                       *)
(***************************************************************************)
EXTENDS Provisioning, TLAPS

\* The part of TypeOK that is about the files.
FilesOK ==
  /\ config \in Config
  /\ rootfs \in Rootfs \cup {NoFile}
  /\ digest_file \in Images \cup {NoFile}
  /\ squashfs \in Rootfs \cup {NoFile}
  /\ pulled \subseteq Images

\* The stages that build a rootfs, and those that have one to work with.
Building == {"cloud_write", "convert", "extract", "contents",
             "create", "format", "agent", "record"}
HasRootfs == {"extract", "contents", "format", "agent", "record"}
Finished == {"overlay_init", "squash", "squash_write", "network", "up"}

(* Each stage of a build works on a rootfs of the image that is configured, *)
(* which has been asked for if it is an OCI image.                         *)
BuildsConfigured ==
  /\ pc \in HasRootfs => rootfs \in Rootfs /\ rootfs.of = config.source
  /\ pc \in {"cloud_write", "convert", "extract", "contents"} => config.source = Cloud
  /\ pc \in {"create", "format", "agent", "record"} => config.source \in pulled
  /\ pc = "record" => rootfs.level = "whole"
  /\ pc \in Finished => rootfs \in Rootfs

(* A digest file tells the truth as long as no second image is asked for,  *)
(* and nothing is built then.                                              *)
DigestIsTrue ==
  digest_file # NoFile =>
    /\ digest_file \in pulled
    /\ pulled = {digest_file} =>
         /\ rootfs \in Rootfs /\ rootfs.of = digest_file /\ rootfs.level = "whole"
         /\ pc \notin Building

\* OnlyImageIsWhole, from the end of ensure_golden_rootfs on.
FinishedIsWhole ==
  pc \in Finished /\ pulled = {config.source} =>
    rootfs.of = config.source /\ rootfs.level = "whole"

\* A squashfs that is not older than the rootfs is torn or a copy of it.
SquashIsCopy ==
  /\ sq_newer => /\ squashfs \in Rootfs
                 /\ squashfs.level # "torn" => squashfs = rootfs
  /\ pc = "squash_write" => config.overlay
  /\ pc \in {"network", "up"} /\ config.overlay => sq_newer

(* The inductive invariant.                                                *)
IInv == FilesOK /\ BuildsConfigured /\ DigestIsTrue /\ FinishedIsWhole /\ SquashIsCopy

LEMMA InitIInv == Init => IInv
  BY ProvisioningAssumption
  DEF Init, IInv, FilesOK, BuildsConfigured, DigestIsTrue, FinishedIsWhole, SquashIsCopy,
      Building, HasRootfs, Finished

\* Only calm, the kernel, the packet filter or nothing changes.
LEMMA SameFilesIInv ==
  ASSUME IInv, UNCHANGED <<pc, config, rootfs, digest_file, squashfs, sq_newer, pulled>>
  PROVE  IInv'
  BY DEF IInv, FilesOK, BuildsConfigured, DigestIsTrue, FinishedIsWhole, SquashIsCopy

\* The start-up moves to a stage that promises no more of the files.
LEMMA DownIInv ==
  ASSUME IInv, pc' \in {"down", "kernel", "kernel_write", "image"}, config' \in Config,
         UNCHANGED <<rootfs, digest_file, squashfs, sq_newer, pulled>>
  PROVE  IInv'
  BY DEF IInv, FilesOK, BuildsConfigured, DigestIsTrue, FinishedIsWhole, SquashIsCopy,
         Building, HasRootfs, Finished

--------------------------------------------------------------------------------
(* ensure_golden_rootfs, with a cloud image                                *)

LEMMA CloudIInv ==
  ASSUME IInv, RootfsExists \/ CloudCreate \/ CloudWritten \/ CloudCached \/ Convert
               \/ Extracted \/ ContentsBuilt \/ ContentsFail
  PROVE  IInv'
<1>. USE ProvisioningAssumption
     DEF IInv, FilesOK, BuildsConfigured, DigestIsTrue, FinishedIsWhole, SquashIsCopy,
         Building, HasRootfs, Finished, Goes, Moves, Passes, WriteRootfs, Level, files,
         Sources, Config, Rootfs
<1>1. CASE RootfsExists
  BY <1>1 DEF RootfsExists
<1>2. CASE CloudCreate
  BY <1>2 DEF CloudCreate
<1>3. CASE CloudWritten
  BY <1>3 DEF CloudWritten
<1>4. CASE CloudCached
  BY <1>4 DEF CloudCached
<1>5. CASE Convert
  BY <1>5 DEF Convert
<1>6. CASE Extracted
  BY <1>6 DEF Extracted
<1>7. CASE ContentsBuilt
  BY <1>7 DEF ContentsBuilt
<1>8. CASE ContentsFail
  BY <1>8 DEF ContentsFail
<1>. QED  BY <1>1, <1>2, <1>3, <1>4, <1>5, <1>6, <1>7, <1>8

--------------------------------------------------------------------------------
(* pull_and_convert                                                        *)

LEMMA PullIInv ==
  ASSUME IInv, PullCached \/ RemoveStale \/ CreateImage \/ Format \/ AgentInstalled
               \/ RecordDigest
  PROVE  IInv'
<1>. USE ProvisioningAssumption
     DEF IInv, FilesOK, BuildsConfigured, DigestIsTrue, FinishedIsWhole, SquashIsCopy,
         Building, HasRootfs, Finished, Goes, Moves, WriteRootfs, Level, files,
         Sources, Config, Rootfs
<1>1. CASE PullCached
  \* The digest is of an image that was asked for before.
  <2>1. pulled' = pulled
    BY <1>1 DEF PullCached, Cached, Requests
  <2>. QED  BY <1>1, <2>1 DEF PullCached, Cached, Requests
<1>2. CASE RemoveStale
  \* If this is the only image, its digest is not recorded.
  <2>1. digest_file # NoFile => pulled' # {digest_file}
    <3>. SUFFICES ASSUME digest_file # NoFile, pulled' = {digest_file} PROVE FALSE
      OBVIOUS
    <3>1. pulled' = pulled \cup {config.source}
      BY <1>2 DEF RemoveStale, Requests
    <3>2. config.source = digest_file
      BY <3>1
    <3>3. pulled = {digest_file}
      BY <3>1, <3>2
    <3>4. rootfs \in Rootfs
      BY <3>3
    <3>. QED  BY <1>2, <3>2, <3>4 DEF RemoveStale, Cached
  <2>. QED  BY <1>2, <2>1 DEF RemoveStale, Requests
<1>3. CASE CreateImage
  BY <1>3 DEF CreateImage
<1>4. CASE Format
  BY <1>4 DEF Format
<1>5. CASE AgentInstalled
  BY <1>5 DEF AgentInstalled
<1>6. CASE RecordDigest
  BY <1>6 DEF RecordDigest
<1>. QED  BY <1>1, <1>2, <1>3, <1>4, <1>5, <1>6

--------------------------------------------------------------------------------
(* The overlay-init script, the squashfs and the packet filter             *)

LEMMA FinishIInv ==
  ASSUME IInv, CannotMount \/ ScriptIsCurrent \/ InstallOverlayInit \/ OverlayOff
               \/ KernelLacks \/ SquashfsUpToDate \/ SquashfsStarts \/ SquashfsWritten
               \/ AddRule \/ NetworkReady
  PROVE  IInv'
<1>. USE ProvisioningAssumption
     DEF IInv, FilesOK, BuildsConfigured, DigestIsTrue, FinishedIsWhole, SquashIsCopy,
         Building, HasRootfs, Finished, Goes, Moves, Passes, WriteRootfs, files,
         Sources, Config, Rootfs
<1>1. CASE CannotMount
  BY <1>1 DEF CannotMount
<1>2. CASE ScriptIsCurrent
  BY <1>2 DEF ScriptIsCurrent
<1>3. CASE InstallOverlayInit
  BY <1>3 DEF InstallOverlayInit
<1>4. CASE OverlayOff
  BY <1>4 DEF OverlayOff
<1>5. CASE KernelLacks
  BY <1>5 DEF KernelLacks
<1>6. CASE SquashfsUpToDate
  BY <1>6 DEF SquashfsUpToDate, UpToDate
<1>7. CASE SquashfsStarts
  BY <1>7 DEF SquashfsStarts
<1>8. CASE SquashfsWritten
  BY <1>8 DEF SquashfsWritten
<1>9. CASE AddRule
  BY <1>9, SameFilesIInv DEF AddRule
<1>10. CASE NetworkReady
  BY <1>10 DEF NetworkReady
<1>. QED  BY <1>1, <1>2, <1>3, <1>4, <1>5, <1>6, <1>7, <1>8, <1>9, <1>10

--------------------------------------------------------------------------------

LEMMA NextIInv == IInv /\ [Next]_vars => IInv'
<1>. SUFFICES ASSUME IInv, [Next]_vars PROVE IInv'
  OBVIOUS
<1>1. CASE Start
  <2>1. config' \in Config
    BY <1>1 DEF Start
  <2>. QED  BY <1>1, <2>1, DownIInv DEF Start, Goes, files
<1>2. CASE KernelExists \/ KernelCreate \/ KernelWritten
  BY <1>2, DownIInv DEF KernelExists, KernelCreate, KernelWritten, Passes, Moves, Goes, files,
     IInv, FilesOK
<1>3. CASE ImageStep
  BY <1>3, CloudIInv, PullIInv DEF ImageStep
<1>4. CASE CannotMount \/ ScriptIsCurrent \/ InstallOverlayInit \/ OverlayOff
           \/ KernelLacks \/ SquashfsUpToDate \/ SquashfsStarts \/ SquashfsWritten
           \/ AddRule \/ NetworkReady
  BY <1>4, FinishIInv
<1>5. CASE Serve
  BY <1>5, SameFilesIInv DEF Serve, Passes, Moves, Goes, files
<1>6. CASE Fail \/ Crash \/ Stop
  BY <1>6, DownIInv DEF Fail, Crash, Stop, Passes, Moves, Goes, files, IInv, FilesOK
<1>7. CASE ContentsFail
  BY <1>7, CloudIInv
<1>8. CASE Settle
  BY <1>8, SameFilesIInv DEF Settle, files
<1>9. CASE UNCHANGED vars
  BY <1>9, SameFilesIInv DEF vars
<1>. QED
  BY <1>1, <1>2, <1>3, <1>4, <1>5, <1>6, <1>7, <1>8, <1>9 DEF Next, StartUp

LEMMA IInvIsInvariant == Spec => []IInv
  BY InitIInv, NextIInv, PTL DEF Spec

--------------------------------------------------------------------------------
(* The packet filter                                                       *)

Kinds == {"established", "any", "listed", "drop"}

\* Rules, with and without a list.
RulesFor(listed) ==
  IF listed THEN <<"established", "listed", "drop">> ELSE <<"established", "any">>

Steps == {"down", "kernel", "kernel_write", "image", "cloud_write", "convert",
          "extract", "contents", "create", "format", "agent", "record",
          "overlay_init", "squash", "squash_write", "network", "up"}

\* The part of TypeOK that FilesOK leaves.
Types ==
  /\ pc \in Steps
  /\ calm \in BOOLEAN
  /\ kernel \in Download /\ cloud_img \in Download
  /\ sq_newer \in BOOLEAN
  /\ chain \in Seq(Kinds) /\ IsInjective(chain)
  /\ filters \in Seq(BOOLEAN) /\ Len(filters) <= MaxFilters

\* Up to each of the rules that is in it, the chain s begins like the rules.
InPlace(s, rules) ==
  \A i \in DOMAIN rules : rules[i] \in ToSet(s) =>
    i <= Len(s) /\ \A k \in 1..i : s[k] = rules[k]

FilterOrder ==
  /\ filters = <<>> => chain = <<>>
  /\ filters # <<>> => chain # <<>> /\ chain[1] = "established"
  /\ Len(filters) = 1 => ToSet(chain) \subseteq ToSet(RulesFor(filters[1]))
  /\ Len(filters) \in {1, 2} => InPlace(chain, RulesFor(Last(filters)))
  /\ pc = "up" =>
       /\ Missing = {}
       /\ Len(filters) \in {1, 2} => Last(filters) = config.listed

\* The sequence t is s with e at place i, and the elements from there on moved.
IsInserted(t, s, i, e) ==
  /\ t \in Seq(Kinds) /\ Len(t) = Len(s) + 1
  /\ \A k \in 1..(Len(s) + 1) :
       t[k] = IF k < i THEN s[k] ELSE IF k = i THEN e ELSE s[k - 1]

LEMMA Inserted ==
  ASSUME NEW s \in Seq(Kinds), NEW e \in Kinds, NEW i \in 1..(Len(s) + 1)
  PROVE  IsInserted(InsertAt(s, i, e), s, i, e)
<1>. DEFINE head == SubSeq(s, 1, i - 1)
            tail == SubSeq(s, i, Len(s))
<1>0. Len(s) \in Nat
  OBVIOUS
<1>1. head \in Seq(Kinds) /\ Len(head) = i - 1 /\ \A k \in 1..(i - 1) : head[k] = s[k]
  BY <1>0
<1>2. /\ tail \in Seq(Kinds) /\ Len(tail) = Len(s) - i + 1
      /\ \A k \in 1..(Len(s) - i + 1) : tail[k] = s[i + k - 1]
  BY <1>0
<1>. HIDE DEF head, tail
<1>. DEFINE front == head \o <<e>>
<1>3. front \in Seq(Kinds) /\ Len(front) = i /\ \A k \in 1..i : front[k] = IF k < i THEN s[k] ELSE e
  BY <1>0, <1>1
<1>. HIDE DEF front
<1>4. /\ front \o tail \in Seq(Kinds)
      /\ Len(front \o tail) = Len(s) + 1
      /\ \A k \in 1..(Len(s) + 1) :
           (front \o tail)[k] = IF k <= i THEN front[k] ELSE tail[k - i]
  <2>1. /\ front \o tail \in Seq(Kinds)
        /\ Len(front \o tail) = Len(front) + Len(tail)
        /\ \A k \in 1..(Len(front) + Len(tail)) :
             (front \o tail)[k] = IF k <= Len(front) THEN front[k] ELSE tail[k - Len(front)]
    BY <1>2, <1>3
  <2>2. Len(front) = i /\ Len(front) + Len(tail) = Len(s) + 1
    BY <1>0, <1>2, <1>3
  <2>. QED  BY <2>1, <2>2
<1>5. InsertAt(s, i, e) = front \o tail
  BY DEF InsertAt, front, head, tail
<1>6. ASSUME NEW k \in 1..(Len(s) + 1)
      PROVE  (front \o tail)[k] = IF k < i THEN s[k] ELSE IF k = i THEN e ELSE s[k - 1]
  <2>1. CASE k <= i
    BY <1>0, <1>3, <1>4, <2>1
  <2>2. CASE k > i
    <3>1. k - i \in 1..(Len(s) - i + 1) /\ i + (k - i) - 1 = k - 1
      BY <1>0, <2>2
    <3>2. tail[k - i] = s[k - 1]
      BY <1>2, <3>1
    <3>. QED  BY <1>0, <1>4, <2>2, <3>2
  <2>3. k <= i \/ k > i
    BY <1>0
  <2>. QED  BY <2>1, <2>2, <2>3
<1>. QED  BY <1>4, <1>5, <1>6 DEF IsInserted

\* The first element after an insertion.
LEMMA InsertedFirst ==
  ASSUME NEW s \in Seq(Kinds), NEW e \in Kinds, NEW i \in 1..(Len(s) + 1)
  PROVE  /\ InsertAt(s, i, e) \in Seq(Kinds)
         /\ Len(InsertAt(s, i, e)) = Len(s) + 1
         /\ InsertAt(s, i, e)[1] = IF i = 1 THEN e ELSE s[1]
<1>1. 1 \in 1..(Len(s) + 1) /\ (1 < i <=> i # 1)
  OBVIOUS
<1>. QED  BY <1>1, Inserted DEF IsInserted

\* What was in the sequence stays, and nothing else comes.
LEMMA InsertedSet ==
  ASSUME NEW s \in Seq(Kinds), NEW e \in Kinds, NEW i \in 1..(Len(s) + 1)
  PROVE  ToSet(InsertAt(s, i, e)) = ToSet(s) \cup {e}
<1>. DEFINE t == InsertAt(s, i, e)
<1>0. Len(s) \in Nat /\ DOMAIN s = 1..Len(s) /\ DOMAIN t = 1..Len(t) /\ Len(t) = Len(s) + 1
  BY Inserted DEF IsInserted
<1>1. \A k \in 1..(Len(s) + 1) : t[k] = IF k < i THEN s[k] ELSE IF k = i THEN e ELSE s[k - 1]
  BY Inserted DEF IsInserted
<1>. HIDE DEF t
<1>2. ASSUME NEW x \in ToSet(t) PROVE x \in ToSet(s) \cup {e}
  <2>1. PICK k \in 1..(Len(s) + 1) : x = t[k]
    BY <1>0, <1>2 DEF ToSet
  <2>2. CASE k < i
    BY <1>0, <1>1, <2>1, <2>2 DEF ToSet
  <2>3. CASE k = i
    BY <1>0, <1>1, <2>1, <2>3
  <2>4. CASE k > i
    <3>1. k - 1 \in 1..Len(s)
      BY <1>0, <2>4
    <3>. QED  BY <1>0, <1>1, <2>1, <2>4, <3>1 DEF ToSet
  <2>. QED  BY <1>0, <2>2, <2>3, <2>4
<1>3. ASSUME NEW k \in 1..Len(s) PROVE s[k] \in ToSet(t)
  <2>1. CASE k < i
    BY <1>0, <1>1, <2>1 DEF ToSet
  <2>2. CASE k >= i
    <3>1. k + 1 \in 1..(Len(s) + 1) /\ (k + 1) - 1 = k /\ ~(k + 1 < i) /\ k + 1 # i
      BY <1>0, <2>2
    <3>2. t[k + 1] = s[k]
      BY <1>1, <3>1
    <3>. QED  BY <1>0, <3>1, <3>2 DEF ToSet
  <2>. QED  BY <1>0, <2>1, <2>2
<1>4. e \in ToSet(t)
  BY <1>0, <1>1 DEF ToSet
<1>. QED  BY <1>0, <1>2, <1>3, <1>4 DEF ToSet, t

\* Elements that are different stay different.
LEMMA InsertedInjective ==
  ASSUME NEW s \in Seq(Kinds), NEW e \in Kinds, NEW i \in 1..(Len(s) + 1),
         IsInjective(s), e \notin ToSet(s)
  PROVE  IsInjective(InsertAt(s, i, e))
<1>. DEFINE t == InsertAt(s, i, e)
            from(k) == IF k < i THEN k ELSE k - 1
<1>0. Len(s) \in Nat /\ DOMAIN s = 1..Len(s) /\ DOMAIN t = 1..Len(t) /\ Len(t) = Len(s) + 1
  BY Inserted DEF IsInserted
<1>1. \A k \in 1..(Len(s) + 1) : t[k] = IF k < i THEN s[k] ELSE IF k = i THEN e ELSE s[k - 1]
  BY Inserted DEF IsInserted
<1>. HIDE DEF t
<1>2. ASSUME NEW k \in 1..(Len(s) + 1), k # i
      PROVE  from(k) \in 1..Len(s) /\ t[k] = s[from(k)] /\ t[k] # e
  <2>1. from(k) \in 1..Len(s)
    BY <1>0, <1>2
  <2>2. t[k] = s[from(k)]
    BY <1>0, <1>1, <1>2
  <2>. QED  BY <1>0, <2>1, <2>2 DEF ToSet
<1>3. ASSUME NEW a \in 1..(Len(s) + 1), NEW b \in 1..(Len(s) + 1), t[a] = t[b], a # i, b # i
      PROVE  a = b
  <2>1. from(a) = from(b)
    <3>. HIDE DEF from
    <3>. QED  BY <1>0, <1>2, <1>3 DEF IsInjective
  <2>. QED  BY <1>0, <1>3, <2>1
<1>4. t[i] = e
  BY <1>0, <1>1
<1>. QED  BY <1>0, <1>2, <1>3, <1>4 DEF IsInjective, t

--------------------------------------------------------------------------------

LEMMA RulesAre ==
  ASSUME NEW listed \in BOOLEAN
  PROVE  /\ RulesFor(listed) \in Seq(Kinds)
         /\ Len(RulesFor(listed)) \in {2, 3}
         /\ RulesFor(listed)[1] = "established"
         /\ RulesFor(listed)[2] = IF listed THEN "listed" ELSE "any"
         /\ Len(RulesFor(listed)) = 3 => listed /\ RulesFor(listed)[3] = "drop"
         /\ listed => Len(RulesFor(listed)) = 3
         /\ IsInjective(RulesFor(listed))
<1>1. CASE listed
  <2>1. RulesFor(listed) = <<"established", "listed", "drop">>
    BY <1>1 DEF RulesFor
  <2>2. /\ RulesFor(listed) \in Seq(Kinds)
        /\ DOMAIN RulesFor(listed) = 1..3
        /\ Len(RulesFor(listed)) = 3
    BY <2>1 DEF Kinds
  <2>3. /\ RulesFor(listed)[1] = "established"
        /\ RulesFor(listed)[2] = "listed"
        /\ RulesFor(listed)[3] = "drop"
    BY <2>1
  <2>4. IsInjective(RulesFor(listed))
    BY <2>2, <2>3 DEF IsInjective
  <2>. QED  BY <1>1, <2>2, <2>3, <2>4
<1>2. CASE ~listed
  <2>1. RulesFor(listed) = <<"established", "any">>
    BY <1>2 DEF RulesFor
  <2>. QED  BY <1>2, <2>1 DEF Kinds, IsInjective
<1>. QED  BY <1>1, <1>2

\* With and without a list have only the first rule in common.
LEMMA OthersAreNew ==
  ASSUME NEW l \in BOOLEAN, NEW m \in BOOLEAN, l # m,
         NEW k \in DOMAIN RulesFor(l), RulesFor(l)[k] \in ToSet(RulesFor(m))
  PROVE  k = 1
<1>1. CASE l
  <2>1. RulesFor(l) = <<"established", "listed", "drop">> /\ RulesFor(m) = <<"established", "any">>
    BY <1>1 DEF RulesFor
  <2>. QED  BY <2>1 DEF ToSet
<1>2. CASE ~l
  <2>1. RulesFor(m) = <<"established", "listed", "drop">> /\ RulesFor(l) = <<"established", "any">>
    BY <1>2 DEF RulesFor
  <2>. QED  BY <2>1 DEF ToSet
<1>. QED  BY <1>1, <1>2

LEMMA InPlaceKept ==
  ASSUME NEW s \in Seq(Kinds), NEW rules \in Seq(Kinds), IsInjective(rules),
         NEW i \in DOMAIN rules, NEW e \in Kinds, rules[i] = e, e \notin ToSet(s),
         \A k \in 1..(i - 1) : rules[k] \in ToSet(s),
         InPlace(s, rules)
  PROVE  InPlace(InsertAt(s, i, e), rules)
<1>. DEFINE t == InsertAt(s, i, e)
<1>0. Len(s) \in Nat /\ Len(rules) \in Nat /\ DOMAIN rules = 1..Len(rules) /\ DOMAIN s = 1..Len(s)
  OBVIOUS
<1>1. i <= Len(s) + 1 /\ \A k \in 1..(i - 1) : s[k] = rules[k]
  <2>1. CASE i = 1
    BY <1>0, <2>1
  <2>2. CASE i > 1
    <3>1. i - 1 \in DOMAIN rules /\ rules[i - 1] \in ToSet(s)
      BY <1>0, <2>2
    <3>. QED  BY <1>0, <3>1 DEF InPlace
  <2>3. i = 1 \/ i > 1
    BY <1>0
  <2>. QED  BY <2>1, <2>2, <2>3
<1>2. i \in 1..(Len(s) + 1)
  BY <1>0, <1>1
<1>3. /\ Len(t) = Len(s) + 1
      /\ \A k \in 1..(Len(s) + 1) :
           t[k] = IF k < i THEN s[k] ELSE IF k = i THEN e ELSE s[k - 1]
  <2>1. IsInserted(t, s, i, e)
    BY <1>2, Inserted
  <2>. QED  BY <2>1 DEF IsInserted
<1>4. ToSet(t) = ToSet(s) \cup {e}
  BY <1>2, InsertedSet
<1>. HIDE DEF t
<1>5. \A k \in 1..i : t[k] = rules[k]
  BY <1>0, <1>1, <1>2, <1>3
<1>6. ASSUME NEW j \in DOMAIN rules, rules[j] \in ToSet(t)
      PROVE  j <= i
  <2>1. CASE rules[j] = e
    BY <1>0, <2>1 DEF IsInjective
  <2>2. CASE rules[j] \in ToSet(s)
    <3>1. j <= Len(s) /\ \A k \in 1..j : s[k] = rules[k]
      BY <2>2 DEF InPlace
    <3>2. j > i => s[i] = rules[i] /\ i \in DOMAIN s
      BY <1>0, <3>1
    <3>3. ~(j > i)
      BY <3>2 DEF ToSet
    <3>. QED  BY <1>0, <3>3
  <2>. QED  BY <1>4, <1>6, <2>1, <2>2
<1>7. ASSUME NEW j \in DOMAIN rules, rules[j] \in ToSet(t)
      PROVE  j <= Len(t) /\ \A k \in 1..j : t[k] = rules[k]
  BY <1>0, <1>2, <1>3, <1>5, <1>6, <1>7
<1>. QED  BY <1>7 DEF InPlace, t

\* What AddRule inserts, and where.
LEMMA FirstMissing ==
  ASSUME Types, config.listed \in BOOLEAN,
         NEW i \in Missing, \A k \in Missing : i <= k
  PROVE  /\ i \in DOMAIN Rules /\ Rules[i] \in Kinds /\ Rules[i] \notin ToSet(chain)
         /\ \A k \in 1..(i - 1) : Rules[k] \in ToSet(chain)
         /\ i \in 1..(Len(chain) + 1)
<1>. DEFINE rules == RulesFor(config.listed)
<1>1. Rules = rules
  BY DEF Rules, RulesFor
<1>2. rules \in Seq(Kinds) /\ Len(rules) \in {2, 3} /\ IsInjective(rules)
  BY RulesAre
<1>. HIDE DEF rules
<1>3. DOMAIN rules = 1..Len(rules)
  BY <1>2
<1>4. i \in DOMAIN rules /\ rules[i] \notin ToSet(chain)
  BY <1>1 DEF Missing
<1>5. ASSUME NEW k \in 1..(i - 1) PROVE rules[k] \in ToSet(chain)
  <2>1. k \in DOMAIN rules /\ k < i
    BY <1>2, <1>3, <1>4
  <2>2. k \notin Missing
    BY <1>2, <1>3, <1>4, <2>1
  <2>. QED  BY <1>1, <2>1, <2>2 DEF Missing
<1>6. chain \in Seq(Kinds) /\ Len(chain) \in Nat /\ DOMAIN chain = 1..Len(chain)
  BY DEF Types
<1>7. i <= Len(chain) + 1
  <2>1. CASE i = 1
    BY <1>6, <2>1
  <2>2. CASE i = 2
    <3>1. rules[1] \in ToSet(chain)
      BY <1>5, <2>2
    <3>2. PICK a \in 1..Len(chain) : chain[a] = rules[1]
      BY <1>6, <3>1 DEF ToSet
    <3>. QED  BY <1>6, <2>2, <3>2
  <2>3. CASE i = 3
    <3>1. rules[1] \in ToSet(chain) /\ rules[2] \in ToSet(chain)
      BY <1>5, <2>3
    <3>2. PICK a \in 1..Len(chain) : chain[a] = rules[1]
      BY <1>6, <3>1 DEF ToSet
    <3>3. PICK b \in 1..Len(chain) : chain[b] = rules[2]
      BY <1>6, <3>1 DEF ToSet
    <3>4. rules[1] # rules[2]
      BY <1>2, <1>3 DEF IsInjective
    <3>5. a # b
      BY <3>2, <3>3, <3>4
    <3>. QED  BY <1>6, <2>3, <3>5
  <2>. QED  BY <1>2, <1>3, <1>4, <2>1, <2>2, <2>3
<1>. QED  BY <1>1, <1>2, <1>3, <1>4, <1>5, <1>6, <1>7

\* The position of the first rule of the kinds.
LEMMA FirstDecides ==
  ASSUME NEW kinds, NEW p \in 1..Len(chain), Len(chain) \in Nat, chain[p] \in kinds,
         \A k \in 1..Len(chain) : chain[k] \in kinds => p <= k
  PROVE  Decides(kinds) = p
<1>. DEFINE I == {k \in 1..Len(chain) : chain[k] \in kinds}
<1>1. p \in I /\ \A k \in I : p <= k
  OBVIOUS
<1>2. \A q \in I : (\A k \in I : q <= k) => q = p
  <2>. SUFFICES ASSUME NEW q \in I, \A k \in I : q <= k PROVE q = p
    OBVIOUS
  <2>1. q <= p /\ p <= q /\ q \in Nat /\ p \in Nat
    BY <1>1
  <2>. QED  BY <2>1
<1>3. Decides(kinds) = IF I # {} THEN Min(I) ELSE 0
  BY DEF Decides, SelectInSeq
<1>4. Min(I) = p
  <2>. HIDE DEF I
  <2>. QED  BY <1>1, <1>2, Zenon DEF Min
<1>. QED  BY <1>1, <1>3, <1>4

--------------------------------------------------------------------------------

\* The length of the history is one of four.
LEMMA HistoryIsShort ==
  ASSUME Types
  PROVE  /\ filters \in Seq(BOOLEAN)
         /\ Len(filters) \in {0, 1, 2, 3}
         /\ filters = <<>> <=> Len(filters) = 0
<1>1. filters \in Seq(BOOLEAN) /\ Len(filters) <= 3
  BY DEF Types, MaxFilters
<1>2. Len(filters) \in Nat
  BY <1>1
<1>3. \A n \in Nat : n <= 3 => n \in {0, 1, 2, 3}
  OBVIOUS
<1>4. Len(filters) \in {0, 1, 2, 3}
  BY <1>1, <1>2, <1>3, Zenon
<1>5. filters = <<>> <=> Len(filters) = 0
  BY <1>1
<1>. QED  BY <1>1, <1>4, <1>5

\* The history of the allow-list with the configuration of this start.
LEMMA SwitchesTo ==
  ASSUME Types, config.listed \in BOOLEAN
  PROVE  /\ Switches \in Seq(BOOLEAN) /\ Len(Switches) \in {1, 2, 3}
         /\ \/ Len(Switches) = 3 /\ Switches = filters
            \/ filters # <<>> /\ Last(filters) = config.listed /\ Switches = filters
            \/ /\ \/ filters = <<>> /\ Len(Switches) = 1
                  \/ /\ Len(filters) = 1 /\ Len(Switches) = 2
                     /\ filters[1] \in BOOLEAN /\ filters[1] # config.listed
                  \/ Len(filters) = 2 /\ Len(Switches) = 3
               /\ Last(Switches) = config.listed
<1>. DEFINE n == Len(filters)
<1>1. /\ filters \in Seq(BOOLEAN) /\ n \in {0, 1, 2, 3}
      /\ filters = <<>> <=> n = 0
  BY HistoryIsShort
<1>2. CASE n = 3
  <2>1. Switches = filters
    BY <1>2 DEF Switches, MaxFilters
  <2>. QED  BY <1>1, <1>2, <2>1
<1>3. CASE filters # <<>> /\ Last(filters) = config.listed
  <2>1. Switches = filters
    BY <1>3 DEF Switches
  <2>. QED  BY <1>1, <1>3, <2>1
<1>4. CASE n # 3 /\ (filters = <<>> \/ Last(filters) # config.listed)
  <2>1. Switches = Append(filters, config.listed)
    BY <1>4 DEF Switches, MaxFilters
  <2>2. /\ Append(filters, config.listed) \in Seq(BOOLEAN)
        /\ Len(Append(filters, config.listed)) = n + 1
        /\ Append(filters, config.listed)[n + 1] = config.listed
    BY <1>1
  <2>3. n = 1 => filters[1] \in BOOLEAN /\ filters[1] # config.listed
    BY <1>1, <1>4 DEF Last
  <2>4. Switches \in Seq(BOOLEAN) /\ Len(Switches) = n + 1 /\ Last(Switches) = config.listed
    BY <2>1, <2>2 DEF Last
  <2>. HIDE DEF n
  <2>5. \/ n = 0 /\ n + 1 = 1
        \/ n = 1 /\ n + 1 = 2
        \/ n = 2 /\ n + 1 = 3
    BY <1>1, <1>4
  <2>6. Len(Switches) \in {1, 2, 3}
    BY <2>4, <2>5
  <2>. QED  BY <1>1, <2>3, <2>4, <2>5, <2>6 DEF n
<1>. QED  BY <1>2, <1>3, <1>4

LEMMA SwitchesAreFew ==
  ASSUME Types, config.listed \in BOOLEAN
  PROVE  Len(Switches) <= MaxFilters /\ Switches # <<>>
<1>1. Len(Switches) \in {1, 2, 3}
  BY SwitchesTo
<1>2. \A n \in {1, 2, 3} : n <= MaxFilters
  BY DEF MaxFilters
<1>3. Len(Switches) <= MaxFilters
  BY <1>1, <1>2, Zenon
<1>4. Switches # <<>>
  <2>1. Len(<<>>) = 0
    OBVIOUS
  <2>. QED  BY <1>1, <2>1
<1>. QED  BY <1>3, <1>4

(* Unless it has changed three times, the history ends with the present    *)
(* configuration, and the chain begins with the rules of it that are there *)
(* already, also when those of another configuration follow.               *)
LEMMA BeginsConfigured ==
  ASSUME Types, FilterOrder, config.listed \in BOOLEAN, Len(Switches) \in {1, 2}
  PROVE  /\ Last(Switches) = config.listed
         /\ InPlace(chain, Rules)
         /\ Len(Switches) = 1 => /\ ToSet(chain) \subseteq ToSet(Rules)
                                 /\ Switches[1] = config.listed
<1>1. Len(Switches) # 3
  OBVIOUS
<1>2. Rules = RulesFor(config.listed)
  BY DEF Rules, RulesFor
<1>3. Last(Switches) = config.listed
  BY <1>1, SwitchesTo
<1>4. Len(Switches) = 1 => Switches[1] = config.listed
  BY <1>3 DEF Last
<1>5. CASE filters # <<>> /\ Last(filters) = config.listed /\ Switches = filters
  <2>1. InPlace(chain, Rules)
    BY <1>2, <1>5 DEF FilterOrder
  <2>. QED  BY <1>2, <1>3, <1>4, <1>5, <2>1 DEF FilterOrder
<1>6. CASE filters = <<>>
  <2>1. ToSet(chain) = {}
    BY <1>6 DEF FilterOrder, ToSet
  <2>. QED  BY <1>3, <1>4, <2>1 DEF InPlace
<1>7. CASE /\ Len(filters) = 1 /\ filters[1] \in BOOLEAN /\ filters[1] # config.listed
           /\ Len(Switches) = 2
  <2>1. ToSet(chain) \subseteq ToSet(RulesFor(filters[1])) /\ chain # <<>>
        /\ chain[1] = "established"
    BY <1>7 DEF FilterOrder
  <2>2. Len(chain) \in Nat /\ 1 <= Len(chain)
    BY <2>1 DEF Types
  <2>3. ASSUME NEW k \in DOMAIN Rules, Rules[k] \in ToSet(chain)
        PROVE  k <= Len(chain) /\ \A j \in 1..k : chain[j] = Rules[j]
    <3>1. k = 1
      BY <1>2, <1>7, <2>1, <2>3, OthersAreNew
    <3>2. Rules[1] = "established"
      BY <1>2, RulesAre
    <3>. QED  BY <2>1, <2>2, <3>1, <3>2
  <2>. QED  BY <1>3, <1>7, <2>3 DEF InPlace
<1>8. \/ filters # <<>> /\ Last(filters) = config.listed /\ Switches = filters
      \/ filters = <<>>
      \/ /\ Len(filters) = 1 /\ filters[1] \in BOOLEAN /\ filters[1] # config.listed
         /\ Len(Switches) = 2
  BY <1>1, SwitchesTo
<1>. QED  BY <1>5, <1>6, <1>7, <1>8

LEMMA AddRuleFilter ==
  ASSUME Types, FilterOrder, config.listed \in BOOLEAN, AddRule
  PROVE  Types' /\ FilterOrder'
<1>1. PICK i \in Missing : (\A k \in Missing : i <= k) /\ chain' = InsertAt(chain, i, Rules[i])
  BY DEF AddRule, Placed
<1>2. /\ i \in DOMAIN Rules /\ Rules[i] \in Kinds /\ Rules[i] \notin ToSet(chain)
      /\ \A k \in 1..(i - 1) : Rules[k] \in ToSet(chain)
      /\ i \in 1..(Len(chain) + 1)
  BY <1>1, FirstMissing
<1>3. /\ chain \in Seq(Kinds) /\ Len(chain) \in Nat /\ DOMAIN chain = 1..Len(chain)
      /\ IsInjective(chain)
  BY DEF Types
<1>4. /\ chain' \in Seq(Kinds)
      /\ Len(chain') = Len(chain) + 1
      /\ chain'[1] = IF i = 1 THEN Rules[1] ELSE chain[1]
  BY <1>1, <1>2, <1>3, InsertedFirst
<1>5. ToSet(chain') = ToSet(chain) \cup {Rules[i]}
  BY <1>1, <1>2, <1>3, InsertedSet
<1>6. IsInjective(chain')
  BY <1>1, <1>2, <1>3, InsertedInjective
<1>7. filters' = Switches /\ UNCHANGED <<config, calm, files>> /\ pc' = "network"
  BY DEF AddRule, Goes
<1>8. Types'
  <2>1. Switches \in Seq(BOOLEAN) /\ Len(Switches) <= MaxFilters
    BY SwitchesTo, SwitchesAreFew
  <2>. QED  BY <1>4, <1>6, <1>7, <2>1 DEF Types, Steps, files
<1>9. Rules = RulesFor(config.listed)
  BY DEF Rules, RulesFor
<1>10. Switches # <<>>
  BY SwitchesAreFew
<1>11. chain' # <<>>
  BY <1>3, <1>4
<1>12. chain'[1] = "established"
  <2>1. Rules[1] = "established"
    BY <1>9, RulesAre
  <2>2. CASE i = 1
    BY <1>4, <2>1, <2>2
  <2>3. CASE i # 1
    <3>1. 1 \in 1..(i - 1)
      BY <1>2, <1>3, <2>3
    <3>2. Rules[1] \in ToSet(chain)
      BY <1>2, <3>1
    <3>3. chain # <<>>
      BY <3>2 DEF ToSet
    <3>4. chain[1] = "established"
      BY <3>3 DEF FilterOrder
    <3>. QED  BY <1>4, <2>3, <3>4
  <2>. QED  BY <2>2, <2>3
<1>13. ASSUME Len(Switches) \in {1, 2}
       PROVE  InPlace(chain', RulesFor(Last(Switches)))
  <2>1. Last(Switches) = config.listed /\ InPlace(chain, Rules)
    BY <1>13, BeginsConfigured
  <2>2. Rules \in Seq(Kinds) /\ IsInjective(Rules)
    BY <1>9, RulesAre
  <2>3. InPlace(InsertAt(chain, i, Rules[i]), Rules)
    BY <1>2, <1>3, <2>1, <2>2, InPlaceKept
  <2>. QED  BY <1>1, <1>9, <2>1, <2>3
<1>14. ASSUME Len(Switches) = 1
       PROVE  ToSet(chain') \subseteq ToSet(RulesFor(Switches[1]))
  <2>1. ToSet(chain) \subseteq ToSet(Rules) /\ Switches[1] = config.listed
    BY <1>14, BeginsConfigured
  <2>2. Rules[i] \in ToSet(Rules)
    BY <1>2 DEF ToSet
  <2>. QED  BY <1>5, <1>9, <2>1, <2>2
<1>15. FilterOrder'
  BY <1>7, <1>10, <1>11, <1>12, <1>13, <1>14 DEF FilterOrder
<1>. QED  BY <1>8, <1>15

LEMMA NetworkReadyFilter ==
  ASSUME Types, FilterOrder, config.listed \in BOOLEAN, NetworkReady
  PROVE  Types' /\ FilterOrder'
<1>1. /\ filters' = Switches /\ UNCHANGED <<config, calm, files, chain>> /\ pc' = "up"
      /\ Missing = {}
  BY DEF NetworkReady, Goes
<1>2. Missing' = {}
  BY <1>1 DEF Missing, Rules
<1>3. Types'
  <2>1. Switches \in Seq(BOOLEAN) /\ Len(Switches) <= MaxFilters
    BY SwitchesTo, SwitchesAreFew
  <2>. QED  BY <1>1, <2>1 DEF Types, Steps, files
<1>4. Rules = RulesFor(config.listed)
  BY DEF Rules, RulesFor
<1>5. Switches # <<>>
  BY SwitchesAreFew
<1>6. chain # <<>>
  <2>1. 1 \in DOMAIN Rules
    BY <1>4, RulesAre
  <2>2. Rules[1] \in ToSet(chain)
    BY <1>1, <2>1 DEF Missing
  <2>. QED  BY <2>2 DEF ToSet
<1>7. chain[1] = "established"
  BY <1>6 DEF FilterOrder
<1>. QED  BY <1>1, <1>2, <1>3, <1>4, <1>5, <1>6, <1>7, BeginsConfigured DEF FilterOrder

\* Steps that leave the packet filter alone.
LEMMA SameFilter ==
  ASSUME Types, FilterOrder, UNCHANGED <<chain, filters>>,
         pc' = "up" => pc = "up" /\ config' = config,
         pc' \in Steps, calm' \in BOOLEAN,
         kernel' \in Download, cloud_img' \in Download, sq_newer' \in BOOLEAN
  PROVE  Types' /\ FilterOrder'
<1>1. Types'
  BY DEF Types
<1>2. pc' = "up" => Missing' = {}
  BY DEF FilterOrder, Missing, Rules
<1>3. FilterOrder'
  BY <1>2 DEF FilterOrder
<1>. QED  BY <1>1, <1>3

(* The rules of the configuration are the first of the chain, so the first *)
(* that decides on a packet of a VM is one of them.                        *)
LEMMA FilterDecides ==
  ASSUME Types, FilterOrder, config.listed \in BOOLEAN
  PROVE  FilterIsConfigured
<1>. SUFFICES ASSUME Up, Len(filters) <= 2
             PROVE  /\ chain[Decides({"any", "drop"})] = "any" <=> ~config.listed
                    /\ chain[Decides({"any", "listed", "drop"})] # "drop"
  BY DEF FilterIsConfigured
<1>. DEFINE rules == RulesFor(config.listed)
<1>1. /\ chain \in Seq(Kinds) /\ Len(chain) \in Nat /\ DOMAIN chain = 1..Len(chain)
  BY DEF Types
<1>2. Rules = rules
  BY DEF Rules, RulesFor
<1>3. rules \in Seq(Kinds) /\ Len(rules) \in {2, 3} /\ DOMAIN rules = 1..Len(rules)
  BY RulesAre
<1>4. /\ rules[1] = "established"
      /\ rules[2] = IF config.listed THEN "listed" ELSE "any"
      /\ config.listed => Len(rules) = 3 /\ rules[3] = "drop"
  BY RulesAre
<1>. HIDE DEF rules
<1>5. \A k \in DOMAIN rules : rules[k] \in ToSet(chain)
  BY <1>2 DEF FilterOrder, Missing, Up
<1>6. Last(filters) = config.listed /\ Len(filters) \in {1, 2}
  <2>1. chain # <<>>
    BY <1>3, <1>5 DEF ToSet
  <2>2. filters # <<>>
    BY <2>1 DEF FilterOrder
  <2>3. Len(filters) \in {1, 2}
    BY <2>2, HistoryIsShort
  <2>. QED  BY <2>3 DEF FilterOrder, Up
<1>7. InPlace(chain, rules)
  BY <1>6 DEF FilterOrder, rules
<1>8. Len(rules) <= Len(chain) /\ \A k \in DOMAIN rules : chain[k] = rules[k]
  <2>1. Len(rules) \in DOMAIN rules
    BY <1>3
  <2>2. Len(rules) <= Len(chain) /\ \A k \in 1..Len(rules) : chain[k] = rules[k]
    BY <1>5, <1>7, <2>1 DEF InPlace
  <2>. QED  BY <1>3, <2>2
<1>9. /\ chain[1] = "established"
      /\ chain[2] = IF config.listed THEN "listed" ELSE "any"
      /\ config.listed => chain[3] = "drop" /\ 3 <= Len(chain)
      /\ 2 <= Len(chain)
  BY <1>1, <1>3, <1>4, <1>8
<1>10. CASE config.listed
  <2>1. Decides({"any", "drop"}) = 3
    <3>1. 3 \in 1..Len(chain) /\ chain[3] \in {"any", "drop"}
      BY <1>1, <1>9, <1>10
    <3>2. \A k \in 1..Len(chain) : chain[k] \in {"any", "drop"} => 3 <= k
      BY <1>1, <1>9, <1>10
    <3>. QED  BY <1>1, <3>1, <3>2, FirstDecides
  <2>2. Decides({"any", "listed", "drop"}) = 2
    <3>1. 2 \in 1..Len(chain) /\ chain[2] \in {"any", "listed", "drop"}
      BY <1>1, <1>9, <1>10
    <3>2. \A k \in 1..Len(chain) : chain[k] \in {"any", "listed", "drop"} => 2 <= k
      BY <1>1, <1>9, <1>10
    <3>. QED  BY <1>1, <3>1, <3>2, FirstDecides
  <2>. QED  BY <1>9, <1>10, <2>1, <2>2
<1>11. CASE ~config.listed
  <2>1. Decides({"any", "drop"}) = 2
    <3>1. 2 \in 1..Len(chain) /\ chain[2] \in {"any", "drop"}
      BY <1>1, <1>9, <1>11
    <3>2. \A k \in 1..Len(chain) : chain[k] \in {"any", "drop"} => 2 <= k
      BY <1>1, <1>9, <1>11
    <3>. QED  BY <1>1, <3>1, <3>2, FirstDecides
  <2>2. Decides({"any", "listed", "drop"}) = 2
    <3>1. 2 \in 1..Len(chain) /\ chain[2] \in {"any", "listed", "drop"}
      BY <1>1, <1>9, <1>11
    <3>2. \A k \in 1..Len(chain) : chain[k] \in {"any", "listed", "drop"} => 2 <= k
      BY <1>1, <1>9, <1>11
    <3>. QED  BY <1>1, <3>1, <3>2, FirstDecides
  <2>. QED  BY <1>9, <1>11, <2>1, <2>2
<1>. QED  BY <1>10, <1>11

LEMMA InitFilter == Init => Types /\ FilterOrder
<1>. SUFFICES ASSUME Init PROVE Types /\ FilterOrder
  OBVIOUS
<1>1. chain = <<>> /\ filters = <<>> /\ pc = "down"
  BY DEF Init
<1>2. IsInjective(chain)
  <2>1. DOMAIN chain = {}
    BY <1>1
  <2>. QED  BY <2>1 DEF IsInjective
<1>3. chain \in Seq(Kinds) /\ filters \in Seq(BOOLEAN) /\ Len(filters) = 0
  BY <1>1
<1>4. Types
  <2>1. Len(filters) <= MaxFilters
    BY <1>3 DEF MaxFilters
  <2>. QED  BY <1>2, <1>3, <2>1 DEF Init, Types, Steps, Download
<1>5. FilterOrder
  BY <1>1, <1>3 DEF FilterOrder
<1>. QED  BY <1>4, <1>5

LEMMA NextFilter == IInv /\ Types /\ FilterOrder /\ [Next]_vars => Types' /\ FilterOrder'
<1>. SUFFICES ASSUME IInv, Types, FilterOrder, [Next]_vars PROVE Types' /\ FilterOrder'
  OBVIOUS
<1>0. /\ pc \in Steps /\ calm \in BOOLEAN /\ kernel \in Download
      /\ cloud_img \in Download /\ sq_newer \in BOOLEAN
  BY DEF Types
<1>1. config.listed \in BOOLEAN
  BY DEF IInv, FilesOK, Config
<1>2. CASE AddRule
  BY <1>1, <1>2, AddRuleFilter
<1>3. CASE NetworkReady
  BY <1>1, <1>3, NetworkReadyFilter
<1>4. CASE Crash
  <2>1. chain' = <<>> /\ filters' = <<>> /\ pc' = "down"
    BY <1>4 DEF Crash, Goes
  <2>2. IsInjective(chain')
    <3>1. DOMAIN chain' = {}
      BY <2>1
    <3>. QED  BY <3>1 DEF IsInjective
  <2>3. chain' \in Seq(Kinds) /\ filters' \in Seq(BOOLEAN) /\ Len(filters') = 0
    BY <2>1
  <2>4. Types'
    BY <1>0, <1>4, <2>1, <2>2, <2>3 DEF Crash, Goes, files, Types, Steps, MaxFilters
  <2>5. FilterOrder'
    BY <2>1, <2>3 DEF FilterOrder
  <2>. QED  BY <2>4, <2>5
\* All other steps leave the packet filter alone.
<1>5. CASE Start \/ KernelExists \/ KernelCreate \/ KernelWritten
  BY <1>0, <1>5, SameFilter
  DEF Start, KernelExists, KernelCreate, KernelWritten, Creates, Passes, Moves, Goes, files,
      Steps, Download
<1>6. CASE RootfsExists \/ CloudCreate \/ CloudWritten \/ CloudCached
  BY <1>0, <1>6, SameFilter
  DEF RootfsExists, CloudCreate, CloudWritten, CloudCached, Creates, Passes, Moves, Goes,
      files, Steps, Download
<1>7. CASE Convert \/ Extracted \/ ContentsBuilt \/ ContentsFail
  BY <1>0, <1>7, SameFilter
  DEF Convert, Extracted, ContentsBuilt, ContentsFail, WriteRootfs, Level, Passes, Moves, Goes,
      files, Steps
<1>8. CASE PullCached \/ RemoveStale \/ CreateImage \/ Format \/ AgentInstalled \/ RecordDigest
  BY <1>0, <1>8, SameFilter
  DEF PullCached, RemoveStale, CreateImage, Format, AgentInstalled, RecordDigest,
      WriteRootfs, Level, Passes, Moves, Goes, files, Steps
<1>9. CASE CannotMount \/ ScriptIsCurrent \/ InstallOverlayInit \/ OverlayOff \/ KernelLacks
  BY <1>0, <1>9, SameFilter
  DEF CannotMount, ScriptIsCurrent, InstallOverlayInit, OverlayOff, KernelLacks,
      WriteRootfs, Passes, Moves, Goes, files, Steps
<1>10. CASE SquashfsUpToDate \/ SquashfsStarts \/ SquashfsWritten
  BY <1>0, <1>10, SameFilter
  DEF SquashfsUpToDate, SquashfsStarts, SquashfsWritten, Passes, Moves, Goes, files, Steps
<1>11. CASE Serve \/ Fail \/ Stop \/ Settle \/ UNCHANGED vars
  BY <1>0, <1>11, SameFilter
  DEF Serve, Fail, Stop, Settle, Passes, Moves, Goes, files, Steps, vars
<1>. QED
  BY <1>2, <1>3, <1>4, <1>5, <1>6, <1>7, <1>8, <1>9, <1>10, <1>11 DEF Next, StartUp, ImageStep

LEMMA FilterInvariant == Spec => [](IInv /\ Types /\ FilterOrder)
<1>1. Init => IInv /\ Types /\ FilterOrder
  BY InitIInv, InitFilter
<1>2. (IInv /\ Types /\ FilterOrder) /\ [Next]_vars => (IInv /\ Types /\ FilterOrder)'
  BY NextIInv, NextFilter
<1>. QED  BY <1>1, <1>2, PTL DEF Spec

--------------------------------------------------------------------------------

(* Every variable of Provisioning keeps its type; in particular no rule of *)
(* fc-runner is ever twice in the chain, and each is inserted at a position *)
(* that exists.                                                            *)
THEOREM TypeCorrect == Spec => []TypeOK
<1>1. IInv /\ Types => TypeOK
  BY DEF IInv, FilesOK, Types, Steps, Kinds, TypeOK
<1>. QED  BY <1>1, FilterInvariant, PTL

(* For at most one change of the allow-list since the host booted, however *)
(* many start-ups were cut short between two rules, the first rule that    *)
(* decides on a packet of a VM is the one that the configuration means.    *)
THEOREM FilterAsConfigured == Spec => []FilterIsConfigured
<1>1. IInv /\ Types /\ FilterOrder => FilterIsConfigured
  <2>1. IInv => config.listed \in BOOLEAN
    BY DEF IInv, FilesOK, Config
  <2>. QED  BY <2>1, FilterDecides
<1>. QED  BY <1>1, FilterInvariant, PTL

(* With one image, the server starts VMs from it, complete: however many   *)
(* start-ups were cut short, the digest is recorded last.                  *)
THEOREM OnlyImageWhole == Spec => []OnlyImageIsWhole
<1>1. IInv => OnlyImageIsWhole
  BY DEF IInv, FinishedIsWhole, OnlyImageIsWhole, Up, Finished
<1>. QED  BY <1>1, IInvIsInvariant, PTL

(* In overlay mode the VMs boot from a copy of the rootfs that the host    *)
(* has, unless mksquashfs was cut short.                                   *)
THEOREM SquashFollows == Spec => []SquashFollowsRootfs
<1>1. IInv => SquashFollowsRootfs
  BY DEF IInv, SquashIsCopy, SquashFollowsRootfs, Up
<1>. QED  BY <1>1, IInvIsInvariant, PTL
================================================================================
