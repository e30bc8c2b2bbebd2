----------------------------- MODULE MicroVmProofs -----------------------------
(***************************************************************************)
(* Theorems about MicroVm, for every number of slots and every set of VMs. *)
(***************************************************************************)
EXTENDS MicroVm, TLAPS

Mode == [mmds : BOOLEAN, jailer : BOOLEAN, early : BOOLEAN]
VmRecord ==
  [stage : Stages, slot : Slots \cup {NoSlot}, leased : BOOLEAN,
   child : {"none", "done", "failed", "stolen"},
   files : SUBSET Files, mounted : BOOLEAN,
   proc : {"none", "running", "dying", "zombie", "reaped"},
   listener : BOOLEAN,
   cause : {"none", "write", "stolen", "timeout"}]

\* What v does or waits for while the device must be there.
NeedsTap == {"launch", "configure", "wait"}

(* What the record of a VM may say: besides what TypeOK says of it, a VM    *)
(* that execute is at work on has its slot, unless slots are returned early. *)
Sound(r) ==
  /\ r \in VmRecord
  /\ r.stage = "idle" <=> r.slot = NoSlot
  /\ r.child # "none" => r.stage \in ToolStages
  /\ r.stage \in {"configure", "killed"} \/ r.proc = "dying" => mode.mmds
  /\ r.leased => r.stage # "idle"
  /\ ~mode.early /\ r.stage \notin {"idle", "gone"} => r.leased

\* Two VMs never have one slot at a time.
Exclusive ==
  \A v, w \in Vms : vm[v].leased /\ vm[w].leased /\ vm[v].slot = vm[w].slot => v = w

\* With its slot a VM has the device.
HasTap ==
  \A v \in Vms : ~mode.early /\ vm[v].stage \in NeedsTap => tap[vm[v].slot] = v

(* The inductive invariant.                                                *)
IInv ==
  /\ mode \in Mode /\ cancelled \in BOOLEAN
  /\ tap \in [Slots -> Vms \cup {NoVm}]
  /\ cache \in [Slots -> {"absent", "blank", "ext4"}]
  /\ vm \in [Vms -> VmRecord]
  /\ \A v \in Vms : Sound(vm[v])
  /\ Exclusive
  /\ HasTap

LEMMA FreshSound == Sound(Fresh)
  BY MicroVmAssumption DEF Sound, Fresh, VmRecord, Stages, ToolStages, Files

LEMMA InitIInv == Init => IInv
<1>. SUFFICES ASSUME Init PROVE IInv
  OBVIOUS
<1>1. mode \in Mode /\ cancelled \in BOOLEAN
  BY DEF Init, Mode
<1>2. tap \in [Slots -> Vms \cup {NoVm}] /\ cache \in [Slots -> {"absent", "blank", "ext4"}]
  BY DEF Init
<1>3. Fresh \in VmRecord /\ ~Fresh.leased /\ Fresh.stage \notin NeedsTap
  BY FreshSound DEF Sound, Fresh, NeedsTap
<1>4. \A v \in Vms : vm[v] = Fresh
  BY DEF Init
<1>5. vm \in [Vms -> VmRecord]
  BY <1>3 DEF Init
<1>6. Exclusive /\ HasTap
  BY <1>3, <1>4 DEF Exclusive, HasTap
<1>7. \A v \in Vms : Sound(vm[v])
  BY <1>4, FreshSound
<1>. QED  BY <1>1, <1>2, <1>5, <1>6, <1>7 DEF IInv

\* The VM of a step may give up its slot and takes no other.
Keeps(v, to) == to.leased => vm[v].leased /\ to.slot = vm[v].slot

(* What a step of v after its begin may do to the slots: give its own up,  *)
(* and nothing else.                                                       *)
Retains(v) ==
  /\ \A w \in Vms \ {v} : vm'[w].leased = vm[w].leased /\ vm'[w].slot = vm[w].slot
  /\ Keeps(v, vm'[v])

\* A step of one VM that leaves the devices and the cache images alone.
LEMMA StepIInv ==
  ASSUME IInv, NEW v \in Vms, NEW to, Sound(to), Keeps(v, to),
         vm' = [vm EXCEPT ![v] = to], UNCHANGED <<mode, tap, cache>>, cancelled' \in BOOLEAN,
         ~mode.early /\ to.stage \in NeedsTap =>
           vm[v].stage \in NeedsTap /\ to.slot = vm[v].slot
  PROVE  IInv' /\ Retains(v)
<1>1. vm' \in [Vms -> VmRecord]
  BY DEF IInv, Sound
<1>2. vm'[v] = to /\ \A w \in Vms \ {v} : vm'[w] = vm[w]
  BY DEF IInv
<1>3. (\A w \in Vms : Sound(vm[w]))'
  BY <1>2 DEF IInv, Sound
<1>4. Exclusive'
  BY <1>2 DEF IInv, Exclusive, Keeps
<1>5. HasTap'
  BY <1>2 DEF IInv, HasTap
<1>6. Retains(v)
  BY <1>2 DEF Retains
<1>. QED  BY <1>6, <1>1, <1>3, <1>4, <1>5 DEF IInv

\* The same, with the cache image or the device of the slot.
LEMMA DeviceStepIInv ==
  ASSUME IInv, NEW v \in Vms, NEW to, NEW device \in Vms \cup {NoVm},
         vm[v].stage \notin {"idle", "gone"}, Sound(to), Keeps(v, to),
         vm' = [vm EXCEPT ![v] = to], UNCHANGED <<mode, cancelled>>,
         tap' = [tap EXCEPT ![vm[v].slot] = device],
         cache' \in [Slots -> {"absent", "blank", "ext4"}],
         to.stage \in NeedsTap => device = v /\ to.slot = vm[v].slot
  PROVE  IInv' /\ Retains(v)
<1>0. vm[v].slot \in Slots
  <2>1. Sound(vm[v]) /\ vm[v].slot # NoSlot
    BY DEF IInv, Sound
  <2>. QED  BY <2>1 DEF Sound, VmRecord
<1>1. vm' \in [Vms -> VmRecord]
  BY DEF IInv, Sound
<1>2. vm'[v] = to /\ \A w \in Vms \ {v} : vm'[w] = vm[w]
  BY DEF IInv
<1>3. (\A w \in Vms : Sound(vm[w]))'
  BY <1>2 DEF IInv, Sound
<1>4. Exclusive'
  BY <1>2 DEF IInv, Exclusive, Keeps
<1>5. tap' \in [Slots -> Vms \cup {NoVm}]
  BY <1>0 DEF IInv
<1>6. ASSUME NEW w \in Vms, ~mode'.early, vm'[w].stage \in NeedsTap
      PROVE  tap'[vm'[w].slot] = w
  <2>1. CASE w = v
    BY <1>0, <1>2, <1>6, <2>1 DEF IInv
  <2>2. CASE w # v
    <3>1. Sound(vm[v]) /\ Sound(vm[w]) /\ vm'[w] = vm[w] /\ ~mode.early
      BY <1>2, <1>6, <2>2 DEF IInv
    <3>2. vm[v].leased /\ vm[w].leased
      BY <1>6, <3>1 DEF Sound, NeedsTap
    <3>3. vm[w].slot # vm[v].slot
      BY <2>2, <3>2 DEF IInv, Exclusive
    <3>4. vm[w].slot \in Slots
      <4>1. vm[w].slot # NoSlot /\ vm[w] \in VmRecord
        BY <1>6, <3>1 DEF Sound, NeedsTap
      <4>. QED  BY <4>1 DEF VmRecord
    <3>5. tap[vm[w].slot] = w
      BY <1>6, <3>1 DEF IInv, HasTap
    <3>. QED  BY <1>0, <3>1, <3>3, <3>4, <3>5 DEF IInv
  <2>. QED  BY <2>1, <2>2
<1>7. Retains(v)
  BY <1>2 DEF Retains
<1>. QED  BY <1>7, <1>1, <1>3, <1>4, <1>5, <1>6 DEF IInv, HasTap

LEMMA VmSound == ASSUME IInv, NEW v \in Vms PROVE Sound(vm[v]) /\ vm[v] \in VmRecord
  BY DEF IInv, Sound

--------------------------------------------------------------------------------
(* The records that the steps make                                         *)

LEMMA AbortedSound ==
  ASSUME IInv, NEW v \in Vms, vm[v].stage \notin {"idle", "gone"},
         NEW cause \in {"none", "write", "stolen", "timeout"}
  PROVE  Sound(Aborted(v, cause)) /\ Keeps(v, Aborted(v, cause))
         /\ Aborted(v, cause).stage = "cleanup"
<1>. DEFINE r == Aborted(v, cause)
<1>0. Sound(vm[v]) /\ vm[v] \in VmRecord
  BY VmSound
<1>1. r \in VmRecord
  BY <1>0 DEF Aborted, VmRecord, Stages
<1>2. /\ r.stage = "cleanup" /\ r.child = "none" /\ r.slot = vm[v].slot
      /\ r.leased = vm[v].leased /\ r.proc = vm[v].proc
  BY <1>0 DEF Aborted, VmRecord
<1>. HIDE DEF r
<1>3. Sound(r)
  BY <1>0, <1>1, <1>2 DEF Sound
<1>4. Keeps(v, r)
  BY <1>2 DEF Keeps
<1>. QED  BY <1>2, <1>3, <1>4 DEF r

\* A step of execute that does not concern the slot or the process.
LEMMA OnwardsSound ==
  ASSUME IInv, NEW v \in Vms, vm[v].stage \notin {"idle", "gone"},
         NEW to \in VmRecord, to.stage \notin {"idle", "gone", "configure", "killed"},
         to.child = "none", to.slot = vm[v].slot, to.leased = vm[v].leased,
         to.proc = vm[v].proc
  PROVE  Sound(to) /\ Keeps(v, to)
<1>1. Sound(vm[v])
  BY VmSound
<1>. QED  BY <1>1 DEF Sound, Keeps

LEMMA RunEndsRecord ==
  ASSUME NEW v, vm[v] \in VmRecord,
         NEW proc \in {"none", "running", "dying", "zombie", "reaped"},
         NEW cause \in {"none", "write", "stolen", "timeout"}
  PROVE  RunEnds(v, proc, cause) \in VmRecord
<1>. DEFINE files == vm[v].files \cup {"mount_point"}
<1>1. "dump" \in Stages
  BY DEF Stages, ToolStages
<1>2. files \in SUBSET Files
  BY DEF VmRecord, Files
<1>3. RunEnds(v, proc, cause) =
        [vm[v] EXCEPT !.stage = "dump", !.proc = proc, !.cause = cause, !.listener = FALSE,
                      !.files = files]
  BY DEF RunEnds
<1>. HIDE DEF files
<1>. DEFINE half == [vm[v] EXCEPT !.stage = "dump", !.listener = FALSE]
<1>4. half \in VmRecord
  BY <1>1 DEF VmRecord
<1>5. RunEnds(v, proc, cause) = [half EXCEPT !.proc = proc, !.cause = cause, !.files = files]
  BY <1>3 DEF VmRecord
<1>. HIDE DEF half
<1>. QED  BY <1>2, <1>4, <1>5 DEF VmRecord

LEMMA RunEndsSound ==
  ASSUME IInv, NEW v \in Vms, vm[v].stage \in {"launch", "configure", "wait", "killed"},
         NEW proc \in {"none", "running", "dying", "zombie", "reaped"},
         proc = "dying" => mode.mmds,
         NEW cause \in {"none", "write", "stolen", "timeout"}
  PROVE  Sound(RunEnds(v, proc, cause)) /\ Keeps(v, RunEnds(v, proc, cause))
         /\ RunEnds(v, proc, cause).stage = "dump"
<1>. DEFINE r == RunEnds(v, proc, cause)
<1>0. Sound(vm[v]) /\ vm[v] \in VmRecord
  BY VmSound
<1>1. r \in VmRecord
  BY <1>0, RunEndsRecord
<1>2. /\ r.stage = "dump" /\ r.child = vm[v].child /\ r.slot = vm[v].slot
      /\ r.leased = vm[v].leased /\ r.proc = proc
  BY <1>0 DEF RunEnds, VmRecord
<1>. HIDE DEF r
<1>3. "dump" \in ToolStages
  BY DEF ToolStages
<1>4. Sound(r)
  BY <1>0, <1>1, <1>2, <1>3 DEF Sound
<1>5. Keeps(v, r)
  BY <1>2 DEF Keeps
<1>. QED  BY <1>2, <1>4, <1>5 DEF r

--------------------------------------------------------------------------------
(* The caller and the tools                                                *)

LEMMA BeginIInv ==
  ASSUME IInv, NEW v \in Vms, NEW s \in Slots, Begin(v, s)
  PROVE  IInv'
<1>. DEFINE to == [Fresh EXCEPT !.stage = "disk", !.slot = s, !.leased = TRUE]
<1>1. /\ vm[v].stage = "idle" /\ vm' = [vm EXCEPT ![v] = to]
      /\ UNCHANGED <<mode, cancelled, tap, cache>>
      /\ \A w \in Vms : vm[w].leased => vm[w].slot # s
  BY DEF Begin, Steps, Goes, At
<1>2. Sound(to)
  BY FreshSound, MicroVmAssumption DEF Sound, Fresh, VmRecord, Stages, ToolStages, Files
<1>3. to.slot = s /\ to.stage = "disk"
  BY DEF Fresh
<1>4. vm'[v] = to /\ \A w \in Vms \ {v} : vm'[w] = vm[w]
  BY <1>1 DEF IInv
<1>5. vm' \in [Vms -> VmRecord]
  BY <1>1, <1>2 DEF IInv, Sound
<1>6. (\A w \in Vms : Sound(vm[w]))'
  BY <1>1, <1>2, <1>4 DEF IInv, Sound
<1>7. Exclusive'
  BY <1>1, <1>3, <1>4 DEF IInv, Exclusive
<1>8. HasTap'
  BY <1>1, <1>3, <1>4 DEF IInv, HasTap, NeedsTap
<1>. QED  BY <1>1, <1>5, <1>6, <1>7, <1>8 DEF IInv

LEMMA GiveBackIInv ==
  ASSUME IInv, NEW v \in Vms, GiveBack(v)
  PROVE  IInv' /\ Retains(v)
<1>. DEFINE to == [vm[v] EXCEPT !.leased = FALSE]
<1>1. /\ mode.early /\ vm[v].stage = "wait"
      /\ vm' = [vm EXCEPT ![v] = to] /\ UNCHANGED <<mode, cancelled, tap, cache>>
  BY DEF GiveBack, Steps, Goes, At
<1>2. Sound(to) /\ Keeps(v, to)
  <2>1. Sound(vm[v]) /\ vm[v] \in VmRecord
    BY VmSound
  <2>2. to \in VmRecord
    BY <2>1 DEF VmRecord
  <2>3. /\ to.stage = "wait" /\ to.slot = vm[v].slot /\ ~to.leased
        /\ to.child = vm[v].child /\ to.proc = vm[v].proc
    BY <1>1, <2>1 DEF VmRecord
  <2>. HIDE DEF to
  <2>. QED  BY <1>1, <2>1, <2>2, <2>3 DEF Sound, Keeps
<1>. QED  BY <1>1, <1>2, StepIInv DEF IInv

(* A tool of stage s has exited: the record only takes files, the mount    *)
(* and the status of the child.                                            *)
ToolRecord(v, to, s) ==
  /\ Sound(to) /\ Keeps(v, to)
  /\ to.stage = s

LEMMA ExitRecord ==
  ASSUME IInv, NEW v \in Vms, vm[v].stage \in ToolStages,
         NEW r \in VmRecord, r.stage = vm[v].stage, r.slot = vm[v].slot,
         r.leased = vm[v].leased, r.proc = vm[v].proc,
         NEW child \in {"done", "failed"}
  PROVE  ToolRecord(v, [r EXCEPT !.child = child], vm[v].stage)
<1>. DEFINE to == [r EXCEPT !.child = child]
<1>0. Sound(vm[v])
  BY VmSound
<1>1. to \in VmRecord
  BY DEF VmRecord
<1>2. /\ to.stage = vm[v].stage /\ to.slot = vm[v].slot
      /\ to.leased = vm[v].leased /\ to.proc = vm[v].proc
  BY DEF VmRecord
<1>. HIDE DEF to
<1>3. Sound(to) /\ Keeps(v, to)
  BY <1>0, <1>1, <1>2 DEF Sound, Keeps
<1>. QED  BY <1>2, <1>3 DEF ToolRecord, to

LEMMA ToolExitsIInv ==
  ASSUME IInv, NEW v \in Vms, ToolExits(v)
  PROVE  IInv' /\ Retains(v)
<1>. USE DEF Exit, Goes, At
<1>0. vm[v] \in VmRecord
  BY VmSound
<1>1. CASE CopyExits(v)
  <2>1. PICK ok \in BOOLEAN :
          Exit(v, "disk", ok, [vm[v] EXCEPT !.files = @ \cup {"disk"}])
    BY <1>1 DEF CopyExits
  <2>. DEFINE r == [vm[v] EXCEPT !.files = @ \cup {"disk"}]
              child == IF ok THEN "done" ELSE "failed"
              to == [r EXCEPT !.child = child]
  <2>2. ToolRecord(v, to, "disk")
    <3>1. /\ r \in VmRecord /\ r.stage = vm[v].stage /\ r.slot = vm[v].slot
          /\ r.leased = vm[v].leased /\ r.proc = vm[v].proc
      BY <1>0 DEF VmRecord, Files
    <3>2. vm[v].stage = "disk" /\ child \in {"done", "failed"} /\ "disk" \in ToolStages
      BY <2>1 DEF ToolStages
    <3>. HIDE DEF r, child
    <3>. QED  BY <3>1, <3>2, ExitRecord
  <2>3. vm' = [vm EXCEPT ![v] = to] /\ UNCHANGED <<mode, cancelled, tap, cache>>
    BY <1>1, <2>1 DEF CopyExits
  <2>. QED  BY <2>2, <2>3, StepIInv DEF ToolRecord, NeedsTap, IInv
<1>2. CASE MkfsExits(v)
  <2>1. PICK ok \in BOOLEAN :
          /\ Exit(v, "mkfs", ok, vm[v])
          /\ cache' = IF ok THEN [cache EXCEPT ![vm[v].slot] = "ext4"] ELSE cache
    BY <1>2 DEF MkfsExits
  <2>. DEFINE child == IF ok THEN "done" ELSE "failed"
              to == [vm[v] EXCEPT !.child = child]
  <2>2. ToolRecord(v, to, "mkfs")
    <3>1. vm[v].stage = "mkfs" /\ child \in {"done", "failed"} /\ "mkfs" \in ToolStages
      BY <2>1 DEF ToolStages
    <3>. HIDE DEF child
    <3>. QED  BY <1>0, <3>1, ExitRecord
  <2>3. vm' = [vm EXCEPT ![v] = to] /\ UNCHANGED <<mode, cancelled, tap>>
    BY <2>1
  <2>4. vm[v].slot \in Slots
    BY <2>1, VmSound DEF Sound, VmRecord
  <2>5. cache' \in [Slots -> {"absent", "blank", "ext4"}]
    BY <2>1, <2>4 DEF IInv
  <2>6. tap[vm[v].slot] \in Vms \cup {NoVm} /\ tap' = [tap EXCEPT ![vm[v].slot] = tap[vm[v].slot]]
    BY <2>3, <2>4 DEF IInv
  <2>. QED  BY <2>1, <2>2, <2>3, <2>5, <2>6, DeviceStepIInv DEF ToolRecord, NeedsTap
<1>3. CASE MountExits(v)
  <2>1. PICK ok \in BOOLEAN, stage \in {"mount", "dump"} :
          Exit(v, stage, ok, [vm[v] EXCEPT !.mounted = ok])
    BY <1>3 DEF MountExits
  <2>. DEFINE r == [vm[v] EXCEPT !.mounted = ok]
              child == IF ok THEN "done" ELSE "failed"
              to == [r EXCEPT !.child = child]
  <2>2. ToolRecord(v, to, stage)
    <3>1. /\ r \in VmRecord /\ r.stage = vm[v].stage /\ r.slot = vm[v].slot
          /\ r.leased = vm[v].leased /\ r.proc = vm[v].proc
      BY <1>0 DEF VmRecord
    <3>2. vm[v].stage = stage /\ child \in {"done", "failed"} /\ stage \in ToolStages
      BY <2>1 DEF ToolStages
    <3>. HIDE DEF r, child
    <3>. QED  BY <3>1, <3>2, ExitRecord
  <2>3. vm' = [vm EXCEPT ![v] = to] /\ UNCHANGED <<mode, cancelled, tap, cache>>
    BY <1>3, <2>1 DEF MountExits
  <2>. QED  BY <2>2, <2>3, StepIInv DEF ToolRecord, NeedsTap, IInv
<1>. QED  BY <1>1, <1>2, <1>3 DEF ToolExits

--------------------------------------------------------------------------------
(* prepare_and_run, up to the process                                      *)

LEMMA InjectingSound ==
  ASSUME IInv, NEW v \in Vms, vm[v].stage \in {"disk", "mkfs"}
  PROVE  /\ Sound(Injecting(v)) /\ Keeps(v, Injecting(v))
         /\ Injecting(v).stage = "mount"
<1>. DEFINE to == Injecting(v)
            files == vm[v].files \cup {"mount_point"}
<1>0. vm[v] \in VmRecord
  BY VmSound
<1>1. "mount" \in Stages /\ files \in SUBSET Files
  BY <1>0 DEF VmRecord, Stages, ToolStages, Files
<1>2. to = [vm[v] EXCEPT !.stage = "mount", !.child = "none", !.files = files]
  BY DEF Injecting
<1>. HIDE DEF files, to
<1>3. to \in VmRecord
  BY <1>0, <1>1, <1>2 DEF VmRecord
<1>4. /\ to.stage = "mount" /\ to.child = "none" /\ to.slot = vm[v].slot
      /\ to.leased = vm[v].leased /\ to.proc = vm[v].proc
  BY <1>0, <1>2 DEF VmRecord
<1>5. Sound(to) /\ Keeps(v, to)
  BY <1>3, <1>4, OnwardsSound
<1>. QED  BY <1>4, <1>5 DEF to

LEMMA PrepareIInv ==
  ASSUME IInv, NEW v \in Vms, Prepare(v)
  PROVE  IInv' /\ Retains(v)
<1>0. Sound(vm[v]) /\ vm[v] \in VmRecord
  BY VmSound
<1>. USE DEF Steps, Goes, At
<1>1. ASSUME NEW stage \in {"disk", "mkfs", "mount"}, ToolFails(v, stage)
      PROVE  IInv' /\ Retains(v)
  <2>. DEFINE cause == IF vm[v].child = "stolen" THEN "stolen" ELSE "none"
  <2>1. /\ vm[v].stage = stage /\ vm' = [vm EXCEPT ![v] = Aborted(v, cause)]
        /\ UNCHANGED <<mode, cancelled, tap, cache>>
    BY <1>1 DEF ToolFails
  <2>2. cause \in {"none", "write", "stolen", "timeout"}
    OBVIOUS
  <2>. HIDE DEF cause
  <2>. QED  BY <2>1, <2>2, AbortedSound, StepIInv DEF NeedsTap, IInv
<1>2. CASE CacheExists(v)
  <2>1. Sound(Injecting(v)) /\ Keeps(v, Injecting(v)) /\ Injecting(v).stage = "mount"
    BY <1>2, InjectingSound DEF CacheExists
  <2>. QED  BY <1>2, <2>1, StepIInv DEF CacheExists, NeedsTap, IInv
<1>3. CASE CacheCreate(v)
  <2>. DEFINE to == [vm[v] EXCEPT !.stage = "mkfs", !.child = "none"]
  <2>1. Sound(to) /\ Keeps(v, to) /\ to.stage = "mkfs"
    BY <1>0, <1>3 DEF CacheCreate, Sound, Keeps, VmRecord, Stages, ToolStages
  <2>2. vm[v].slot \in Slots
    BY <1>0, <1>3 DEF CacheCreate, Sound, VmRecord
  <2>3. cache' \in [Slots -> {"absent", "blank", "ext4"}]
    BY <1>3, <2>2 DEF CacheCreate, IInv
  <2>4. tap[vm[v].slot] \in Vms \cup {NoVm} /\ tap' = [tap EXCEPT ![vm[v].slot] = tap[vm[v].slot]]
    BY <1>3, <2>2 DEF CacheCreate, IInv
  <2>5. vm' = [vm EXCEPT ![v] = to] /\ UNCHANGED <<mode, cancelled>> /\ vm[v].stage = "disk"
    BY <1>3 DEF CacheCreate
  <2>. QED  BY <2>1, <2>3, <2>4, <2>5, DeviceStepIInv DEF NeedsTap
<1>4. CASE CacheReady(v)
  <2>1. Sound(Injecting(v)) /\ Keeps(v, Injecting(v)) /\ Injecting(v).stage = "mount"
    BY <1>4, InjectingSound DEF CacheReady
  <2>. QED  BY <1>4, <2>1, StepIInv DEF CacheReady, NeedsTap, IInv
<1>5. CASE WriteFails(v)
  BY <1>5, AbortedSound, StepIInv DEF WriteFails, NeedsTap, IInv
<1>6. CASE Written(v)
  <2>. DEFINE to == [vm[v] EXCEPT !.stage = "tap", !.child = "none",
                                  !.mounted = FALSE, !.files = @ \ {"mount_point"}]
  <2>1. Sound(to) /\ Keeps(v, to) /\ to.stage = "tap"
    <3>1. to \in VmRecord
      BY <1>0 DEF VmRecord, Stages
    <3>2. /\ to.stage = "tap" /\ to.child = "none" /\ to.slot = vm[v].slot
          /\ to.leased = vm[v].leased /\ to.proc = vm[v].proc
      BY <1>0 DEF VmRecord
    <3>3. vm[v].stage = "mount"
      BY <1>6 DEF Written
    <3>. HIDE DEF to
    <3>. QED  BY <3>1, <3>2, <3>3, OnwardsSound
  <2>2. vm' = [vm EXCEPT ![v] = to] /\ UNCHANGED <<mode, cancelled, tap, cache>>
    BY <1>6 DEF Written
  <2>. QED  BY <2>1, <2>2, StepIInv DEF NeedsTap, IInv
<1>7. CASE CreateTap(v)
  <2>. DEFINE to == [vm[v] EXCEPT !.stage = "launch", !.listener = TRUE,
                                  !.files = @ \cup {"vsock"}]
  <2>1. Sound(to) /\ Keeps(v, to) /\ to.stage = "launch" /\ to.slot = vm[v].slot
    BY <1>0, <1>7 DEF CreateTap, Sound, Keeps, VmRecord, Stages, ToolStages, Files
  <2>2. vm' = [vm EXCEPT ![v] = to] /\ UNCHANGED <<mode, cancelled>> /\ vm[v].stage = "tap"
    BY <1>7 DEF CreateTap
  <2>3. tap' = [tap EXCEPT ![vm[v].slot] = v] /\ cache' \in [Slots -> {"absent", "blank", "ext4"}]
    BY <1>7 DEF CreateTap, IInv
  <2>. QED  BY <2>1, <2>2, <2>3, DeviceStepIInv
<1>8. CASE TapFails(v)
  <2>1. PICK left \in {NoVm, v} : tap' = [tap EXCEPT ![vm[v].slot] = left]
    BY <1>8 DEF TapFails
  <2>2. /\ vm' = [vm EXCEPT ![v] = Aborted(v, "none")] /\ vm[v].stage = "tap"
        /\ UNCHANGED <<mode, cancelled>> /\ cache' \in [Slots -> {"absent", "blank", "ext4"}]
    BY <1>8 DEF TapFails, IInv
  <2>. QED  BY <2>1, <2>2, AbortedSound, DeviceStepIInv DEF NeedsTap
<1>. QED  BY <1>1, <1>2, <1>3, <1>4, <1>5, <1>6, <1>7, <1>8 DEF Prepare

--------------------------------------------------------------------------------
(* The process, and the wait for it                                        *)

(* A step of one VM and then a reap, which only changes the status of       *)
(* children and of processes.                                              *)
LEMMA ReapAfterIInv ==
  ASSUME IInv, NEW v \in Vms, NEW to, Sound(to), Keeps(v, to), to.stage \notin NeedsTap,
         ReapAfter(v, to)
  PROVE  IInv' /\ Retains(v)
<1>. DEFINE step == [vm EXCEPT ![v] = to]
<1>1. vm' = Reap(step) /\ UNCHANGED <<mode, cancelled, tap, cache>>
  BY DEF ReapAfter
<1>2. step \in [Vms -> VmRecord] /\ \A w \in Vms : Sound(step[w])
  BY DEF IInv, Sound
<1>3. \A w \in Vms : step[w].stage \in NeedsTap => w # v /\ step[w] = vm[w]
  BY DEF IInv
<1>4. \A w, u \in Vms : step[w].leased /\ step[u].leased /\ step[w].slot = step[u].slot => w = u
  BY DEF IInv, Exclusive, Keeps
<1>10. step[v] = to /\ \A w \in Vms \ {v} : step[w] = vm[w]
  BY DEF IInv
<1>. HIDE DEF step
<1>5. ASSUME NEW w \in Vms
      PROVE  /\ vm'[w] \in VmRecord
             /\ vm'[w].stage = step[w].stage /\ vm'[w].slot = step[w].slot
             /\ vm'[w].leased = step[w].leased
             /\ vm'[w].child # "none" => step[w].child # "none"
             /\ vm'[w].proc = "dying" => step[w].proc = "dying"
  <2>1. vm'[w] = [step[w] EXCEPT
                    !.proc = IF @ = "zombie" THEN "reaped" ELSE @,
                    !.child = IF @ \in {"done", "failed"} THEN "stolen" ELSE @]
    BY <1>1 DEF Reap
  <2>2. step[w] \in VmRecord
    BY <1>2
  <2>. QED  BY <2>1, <2>2 DEF VmRecord
<1>6. vm' \in [Vms -> VmRecord]
  BY <1>1, <1>5 DEF Reap
<1>7. (\A w \in Vms : Sound(vm[w]))'
  BY <1>1, <1>2, <1>5 DEF Sound
<1>8. Exclusive'
  BY <1>4, <1>5 DEF Exclusive
<1>9. HasTap'
  BY <1>1, <1>3, <1>5 DEF IInv, HasTap
<1>11. Retains(v)
  BY <1>5, <1>10 DEF Retains, Keeps
<1>. QED  BY <1>11, <1>1, <1>6, <1>7, <1>8, <1>9 DEF IInv

LEMMA RunIInv ==
  ASSUME IInv, NEW v \in Vms, Run(v)
  PROVE  IInv' /\ Retains(v)
<1>0. Sound(vm[v]) /\ vm[v] \in VmRecord /\ mode \in Mode
  BY VmSound DEF IInv
<1>. USE DEF Steps, Goes, At
<1>1. CASE DocumentsFail(v)
  <2>1. PICK some \in SUBSET Documents :
          Steps(v, "launch", [Aborted(v, "none") EXCEPT !.files = @ \cup some,
                                                         !.listener = FALSE])
    BY <1>1 DEF DocumentsFail
  <2>. DEFINE to == [Aborted(v, "none") EXCEPT !.files = @ \cup some, !.listener = FALSE]
  <2>2. some \subseteq Files
    BY DEF Documents, Files
  <2>3. Sound(to) /\ Keeps(v, to) /\ to.stage = "cleanup"
    BY <1>0, <2>1, <2>2
    DEF Aborted, Sound, Keeps, VmRecord, Stages, ToolStages
  <2>. QED  BY <2>1, <2>3, StepIInv DEF NeedsTap, IInv
<1>2. CASE Spawn(v)
  <2>1. /\ Sound(Spawned(v)) /\ Keeps(v, Spawned(v))
        /\ Spawned(v).slot = vm[v].slot
    BY <1>0, <1>2
    DEF Spawn, Spawned, Documents, Sound, Keeps, VmRecord, Stages, ToolStages, Files
  <2>. QED  BY <1>2, <2>1, StepIInv DEF Spawn, NeedsTap, IInv
<1>3. CASE SpawnFails(v)
  <2>. DEFINE to == [RunEnds(v, "none", "none") EXCEPT !.files = @ \cup Spawned(v).files]
  <2>0. vm[v].stage = "launch" /\ vm' = [vm EXCEPT ![v] = to]
        /\ UNCHANGED <<mode, cancelled, tap, cache>>
    BY <1>3 DEF SpawnFails
  <2>1. Spawned(v).files \subseteq Files
    BY <1>0 DEF Spawned, Documents, VmRecord, Files
  <2>2. /\ Sound(RunEnds(v, "none", "none")) /\ Keeps(v, RunEnds(v, "none", "none"))
        /\ RunEnds(v, "none", "none").stage = "dump"
    BY <2>0, RunEndsSound
  <2>3. Sound(to) /\ Keeps(v, to) /\ to.stage = "dump"
    BY <2>1, <2>2 DEF Sound, Keeps, VmRecord
  <2>. QED  BY <2>0, <2>3, StepIInv DEF NeedsTap, IInv
<1>4. CASE Configured(v)
  <2>. DEFINE to == [vm[v] EXCEPT !.stage = "wait"]
  <2>1. Sound(to) /\ Keeps(v, to) /\ to.slot = vm[v].slot
    BY <1>0, <1>4 DEF Configured, Sound, Keeps, VmRecord, Stages, ToolStages
  <2>2. vm[v].stage = "configure" /\ vm' = [vm EXCEPT ![v] = to]
        /\ UNCHANGED <<mode, cancelled, tap, cache>>
    BY <1>4 DEF Configured
  <2>. QED  BY <2>1, <2>2, StepIInv DEF NeedsTap, IInv
<1>5. CASE ConfigureFails(v)
  <2>1. PICK proc \in {"none", "running", "dying", "zombie", "reaped"} : proc = Stopped(v)
    BY <1>0 DEF Stopped, VmRecord
  \* Only a process of the SDK is configured.
  <2>2. mode.mmds
    BY <1>0, <1>5 DEF ConfigureFails, Sound
  <2>. DEFINE to == RunEnds(v, proc, "none")
  <2>3. vm[v].stage = "configure" /\ vm' = [vm EXCEPT ![v] = to]
        /\ UNCHANGED <<mode, cancelled, tap, cache>>
    BY <1>5, <2>1 DEF ConfigureFails
  <2>4. Sound(to) /\ Keeps(v, to) /\ to.stage = "dump"
    BY <2>2, <2>3, RunEndsSound
  <2>. HIDE DEF to
  <2>. QED  BY <2>3, <2>4, StepIInv DEF NeedsTap, IInv
<1>6. CASE WaitReturns(v)
  BY <1>6, RunEndsSound, StepIInv DEF WaitReturns, NeedsTap, IInv
<1>7. CASE Noticed(v)
  BY <1>7, RunEndsSound, ReapAfterIInv DEF Noticed, NeedsTap
<1>8. CASE KillAndWait(v)
  BY <1>8, RunEndsSound, StepIInv DEF KillAndWait, NeedsTap, IInv
<1>9. CASE Kill(v)
  <2>. DEFINE to == [vm[v] EXCEPT !.stage = "killed", !.proc = Stopped(v)]
  <2>1. vm[v].stage = "wait" /\ mode.mmds /\ vm' = [vm EXCEPT ![v] = to]
        /\ UNCHANGED <<mode, cancelled, tap, cache>>
    BY <1>9 DEF Kill
  <2>2. Sound(to) /\ Keeps(v, to) /\ to.stage = "killed"
    BY <1>0, <2>1 DEF Stopped, Sound, Keeps, VmRecord, Stages, ToolStages
  <2>. QED  BY <2>1, <2>2, StepIInv DEF NeedsTap, IInv
<1>10. CASE KillReaps(v)
  <2>1. PICK proc \in {"none", "running", "dying", "zombie", "reaped"} :
          proc = vm[v].proc /\ (proc = "dying" => mode.mmds)
    BY <1>0 DEF VmRecord, Sound
  <2>. QED  BY <1>10, <2>1, RunEndsSound, ReapAfterIInv DEF KillReaps, NeedsTap
<1>. QED  BY <1>1, <1>2, <1>3, <1>4, <1>5, <1>6, <1>7, <1>8, <1>9, <1>10 DEF Run

\* The process changes without execute.
LEMMA ProcIInv ==
  ASSUME IInv, NEW v \in Vms, ProcExits(v) \/ TimesOut(v)
  PROVE  IInv' /\ Retains(v)
<1>0. Sound(vm[v]) /\ vm[v] \in VmRecord
  BY VmSound
<1>1. CASE ProcExits(v)
  <2>. DEFINE to == [vm[v] EXCEPT !.proc = IF mode.mmds \/ At(v, "wait") THEN "zombie"
                                            ELSE "reaped"]
  <2>1. vm' = [vm EXCEPT ![v] = to] /\ UNCHANGED <<mode, cancelled, tap, cache>>
    BY <1>1 DEF ProcExits
  <2>2. Sound(to) /\ Keeps(v, to) /\ to.stage = vm[v].stage /\ to.slot = vm[v].slot
    BY <1>0 DEF Sound, Keeps, VmRecord
  <2>. QED  BY <2>1, <2>2, StepIInv DEF IInv
<1>2. CASE TimesOut(v)
  <2>. DEFINE last == IF mode.mmds THEN Stopped(v) ELSE vm[v].proc
  <2>1. PICK proc \in {"none", "running", "dying", "zombie", "reaped"} :
          proc = last /\ (proc = "dying" => mode.mmds)
    BY <1>0 DEF Stopped, VmRecord, Sound
  <2>2. vm[v].stage = "wait" /\ vm' = [vm EXCEPT ![v] = RunEnds(v, proc, "timeout")]
        /\ UNCHANGED <<mode, cancelled, tap, cache>>
    BY <1>2, <2>1 DEF TimesOut, Steps, Goes, At
  <2>. DEFINE to == RunEnds(v, proc, "timeout")
  <2>3. Sound(to) /\ Keeps(v, to) /\ to.stage = "dump"
    BY <2>1, <2>2, RunEndsSound
  <2>. HIDE DEF to
  <2>. QED  BY <2>2, <2>3, StepIInv DEF NeedsTap, IInv, to
<1>. QED  BY <1>1, <1>2

--------------------------------------------------------------------------------
(* dump_guest_log and cleanup                                              *)

LEMMA CleanUpIInv ==
  ASSUME IInv, NEW v \in Vms, CleanUp(v)
  PROVE  IInv' /\ Retains(v)
<1>0. Sound(vm[v]) /\ vm[v] \in VmRecord
  BY VmSound
<1>. USE DEF Steps, Goes, At
<1>1. CASE Dumped(v)
  <2>. DEFINE to == [vm[v] EXCEPT !.stage = "cleanup", !.child = "none",
                                  !.mounted = FALSE, !.files = @ \ {"mount_point"}]
  <2>1. vm[v].stage = "dump" /\ vm' = [vm EXCEPT ![v] = to]
        /\ UNCHANGED <<mode, cancelled, tap, cache>>
    BY <1>1 DEF Dumped
  <2>2. Sound(to) /\ Keeps(v, to) /\ to.stage = "cleanup"
    <3>1. to \in VmRecord
      BY <1>0 DEF VmRecord, Stages
    <3>2. /\ to.stage = "cleanup" /\ to.child = "none" /\ to.slot = vm[v].slot
          /\ to.leased = vm[v].leased /\ to.proc = vm[v].proc
      BY <1>0 DEF VmRecord
    <3>. HIDE DEF to
    <3>. QED  BY <2>1, <3>1, <3>2, OnwardsSound
  <2>. QED  BY <2>1, <2>2, StepIInv DEF NeedsTap, IInv
<1>2. CASE DumpFails(v)
  <2>. DEFINE cause == IF vm[v].child = "stolen" THEN "stolen" ELSE vm[v].cause
              to == [vm[v] EXCEPT !.stage = "cleanup", !.child = "none",
                                  !.files = Unused(v, @), !.cause = cause]
  <2>1. vm[v].stage = "dump" /\ vm' = [vm EXCEPT ![v] = to]
        /\ UNCHANGED <<mode, cancelled, tap, cache>>
    BY <1>0, <1>2 DEF DumpFails, VmRecord
  <2>2. Unused(v, vm[v].files) \subseteq Files
    BY <1>0 DEF Unused, VmRecord
  <2>3. Sound(to) /\ Keeps(v, to) /\ to.stage = "cleanup"
    <3>1. cause \in {"none", "write", "stolen", "timeout"} /\ "cleanup" \in Stages
      BY <1>0 DEF VmRecord, Stages
    <3>. HIDE DEF cause
    <3>2. to \in VmRecord
      BY <1>0, <2>2, <3>1 DEF VmRecord
    <3>3. /\ to.stage = "cleanup" /\ to.child = "none" /\ to.slot = vm[v].slot
          /\ to.leased = vm[v].leased /\ to.proc = vm[v].proc
      BY <1>0 DEF VmRecord
    <3>. HIDE DEF to
    <3>. QED  BY <2>1, <3>2, <3>3, OnwardsSound
  <2>. QED  BY <2>1, <2>3, StepIInv DEF NeedsTap, IInv
<1>3. CASE DestroyTap(v)
  <2>. DEFINE to == [vm[v] EXCEPT !.stage = "remove"]
  <2>1. /\ vm[v].stage = "cleanup" /\ vm' = [vm EXCEPT ![v] = to]
        /\ tap' = [tap EXCEPT ![vm[v].slot] = NoVm]
        /\ UNCHANGED <<mode, cancelled>> /\ cache' \in [Slots -> {"absent", "blank", "ext4"}]
    BY <1>3 DEF DestroyTap, IInv
  <2>2. Sound(to) /\ Keeps(v, to) /\ to.stage = "remove"
    BY <1>0, <2>1 DEF Sound, Keeps, VmRecord, Stages, ToolStages
  <2>. QED  BY <2>1, <2>2, DeviceStepIInv DEF NeedsTap
<1>4. CASE Remove(v)
  <2>. DEFINE left == Unused(v, vm[v].files \cap {"mount_point"})
              to == [vm[v] EXCEPT !.stage = "gone", !.leased = FALSE, !.files = left]
  <2>1. vm[v].stage = "remove" /\ vm' = [vm EXCEPT ![v] = to]
        /\ UNCHANGED <<mode, cancelled, tap, cache>>
    BY <1>0, <1>4 DEF Remove, VmRecord
  <2>2. left \subseteq Files
    BY <1>0 DEF Unused, VmRecord
  <2>. HIDE DEF left
  <2>3. Sound(to) /\ Keeps(v, to) /\ to.stage = "gone"
    BY <1>0, <2>1, <2>2 DEF Sound, Keeps, VmRecord, Stages, ToolStages
  <2>. QED  BY <2>1, <2>3, StepIInv DEF NeedsTap, IInv
<1>. QED  BY <1>1, <1>2, <1>3, <1>4 DEF CleanUp

--------------------------------------------------------------------------------

LEMMA NextIInv == IInv /\ [Next]_vars => IInv'
<1>. SUFFICES ASSUME IInv, [Next]_vars PROVE IInv'
  OBVIOUS
<1>1. CASE UNCHANGED vars \/ ProcessGone
  BY <1>1 DEF ProcessGone, vars, IInv, Sound, Exclusive, HasTap
<1>2. CASE Signal
  BY <1>2 DEF Signal, IInv, Sound, Exclusive, HasTap
<1>3. ASSUME NEW v \in Vms, NEW s \in Slots, Begin(v, s) PROVE IInv'
  BY <1>3, BeginIInv
<1>4. ASSUME NEW v \in Vms,
             GiveBack(v) \/ ToolExits(v) \/ execute(v) \/ ProcExits(v) \/ TimesOut(v)
      PROVE  IInv'
  BY <1>4, GiveBackIInv, ToolExitsIInv, PrepareIInv, RunIInv, CleanUpIInv, ProcIInv
  DEF execute
<1>. QED  BY <1>1, <1>2, <1>3, <1>4 DEF Next

LEMMA IInvIsInvariant == Spec => []IInv
  BY InitIInv, NextIInv, PTL DEF Spec

(* The types, and what TypeOK says of slots, tools and signals: a process   *)
(* is only left to end by itself under the SDK.                            *)
THEOREM TypeCorrect == Spec => []TypeOK
<1>1. IInv => TypeOK
  BY DEF IInv, Sound, TypeOK, VmRecord, Mode, At
<1>. QED  BY <1>1, IInvIsInvariant, PTL

(* For every number of slots: DestroyTap and CreateTap, which go by the     *)
(* name of the slot, never take the device of another VM that runs, as     *)
(* long as slots are not returned early.                                   *)
THEOREM TapStaysMine == Spec => []TapIsMine
<1>1. IInv => TapIsMine
  BY DEF IInv, HasTap, TapIsMine, TapOf, At, NeedsTap
<1>. QED  BY <1>1, IInvIsInvariant, PTL
--------------------------------------------------------------------------------
(* execute keeps the slots apart that its callers lease                    *)

(* The slot a VM runs on, from before its images are made until execute     *)
(* returns or the caller gives the slot back early.                        *)
slotHeld == [v \in Vms |-> IF vm[v].leased THEN vm[v].slot ELSE NoSlot]

Lease == INSTANCE SlotLeaseProofs WITH Holders <- Vms, held <- slotHeld
LeaseSpec == Lease!Spec

LEMMA BeginIsLease ==
  ASSUME IInv, NEW v \in Vms, NEW s \in Slots, Begin(v, s)
  PROVE  Lease!Lease(v, s)
<1>. DEFINE to == [Fresh EXCEPT !.stage = "disk", !.slot = s, !.leased = TRUE]
<1>1. /\ vm[v].stage = "idle" /\ vm' = [vm EXCEPT ![v] = to]
      /\ \A w \in Vms : vm[w].leased => vm[w].slot # s
  BY DEF Begin, Steps, Goes, At
<1>2. to.slot = s /\ to.leased
  BY DEF Fresh
<1>3. vm'[v] = to /\ \A w \in Vms \ {v} : vm'[w] = vm[w]
  BY <1>1 DEF IInv
<1>. HIDE DEF to
<1>4. ~vm[v].leased
  BY <1>1, VmSound DEF Sound
<1>5. slotHeld[v] = NoSlot /\ \A w \in Vms : slotHeld[w] # s
  BY <1>1, <1>4, MicroVmAssumption DEF slotHeld
<1>6. slotHeld' = [slotHeld EXCEPT ![v] = s]
  BY <1>2, <1>3 DEF slotHeld
<1>. QED  BY <1>5, <1>6 DEF Lease!Lease, Lease!Unleased

\* A VM that gives its slot up returns it; else nobody's slot changes.
LEMMA RetainsIsReturn ==
  ASSUME IInv, NEW v \in Vms, Retains(v)
  PROVE  Lease!Return(v) \/ UNCHANGED slotHeld
<1>1. \A w \in Vms \ {v} : slotHeld'[w] = slotHeld[w]
  BY DEF Retains, slotHeld
<1>2. CASE vm'[v].leased \/ ~vm[v].leased
  <2>1. slotHeld'[v] = slotHeld[v]
    BY <1>2 DEF Retains, Keeps, slotHeld
  <2>. QED  BY <1>1, <2>1 DEF slotHeld
<1>3. CASE ~vm'[v].leased /\ vm[v].leased
  <2>1. vm[v].slot # NoSlot
    BY <1>3, VmSound DEF Sound
  <2>2. slotHeld[v] # NoSlot /\ slotHeld'[v] = NoSlot
    BY <1>3, <2>1 DEF slotHeld
  <2>3. slotHeld' = [slotHeld EXCEPT ![v] = NoSlot]
    BY <1>1, <2>2 DEF slotHeld
  <2>. QED  BY <2>2, <2>3 DEF Lease!Return
<1>. QED  BY <1>2, <1>3

LEMMA LeaseStep == IInv /\ [Next]_vars => [Lease!Next]_slotHeld
<1>. SUFFICES ASSUME IInv, [Next]_vars PROVE Lease!Next \/ UNCHANGED slotHeld
  BY Zenon
<1>1. CASE Signal \/ ProcessGone \/ UNCHANGED vars
  BY <1>1 DEF Signal, ProcessGone, vars, slotHeld
<1>2. ASSUME NEW v \in Vms, NEW s \in Slots, Begin(v, s) PROVE Lease!Next
  BY <1>2, BeginIsLease DEF Lease!Next
<1>3. ASSUME NEW v \in Vms,
             GiveBack(v) \/ ToolExits(v) \/ execute(v) \/ ProcExits(v) \/ TimesOut(v)
      PROVE  Lease!Next \/ UNCHANGED slotHeld
  <2>1. Retains(v)
    BY <1>3, GiveBackIInv, ToolExitsIInv, PrepareIInv, RunIInv, CleanUpIInv, ProcIInv
    DEF execute
  <2>. QED  BY <2>1, RetainsIsReturn DEF Lease!Next
<1>. QED  BY <1>1, <1>2, <1>3 DEF Next

(* MicroVm uses slots as SlotLease says: whatever fails, times out or is    *)
(* killed, execute goes on with the slot it was called with, and its       *)
(* return is the only end of the lease besides the early one.              *)
THEOREM ImplementsLease == Spec => LeaseSpec
<1>1. Init => Lease!Init
  BY DEF Init, Lease!Init, slotHeld, Fresh
<1>. QED  BY <1>1, LeaseStep, IInvIsInvariant, PTL DEF Spec, LeaseSpec, Lease!Spec

(* No two VMs are at work with one slot.                                   *)
THEOREM SlotsNeverShared == Spec => []Lease!Exclusive
  BY ImplementsLease, Lease!NeverShared, PTL DEF LeaseSpec

--------------------------------------------------------------------------------
(* What is left behind                                                     *)

Running == {"configure", "wait"}
Ending == {"dump", "cleanup", "remove", "gone"}

(* What is there of a VM is still going to be removed, or has a cause that  *)
(* NothingIsLeft names.                                                    *)
Tidy(r) ==
  /\ r.mounted \/ r.stage \in {"mount", "dump"} => "mount_point" \in r.files
  /\ r.mounted => \/ r.stage \in {"mount", "dump"} /\ r.child \in {"done", "stolen"}
                  \/ r.stage \in Ending \ {"dump"} /\ r.cause \in {"write", "stolen"}
  /\ r.child = "stolen" => mode.mmds
  /\ r.listener => r.stage \in {"launch", "configure", "wait", "killed"}
  /\ r.proc = "running" =>
       \/ r.stage \in Running
       \/ r.stage \in Ending /\ r.cause = "timeout" /\ ~mode.mmds
  /\ r.stage = "gone" => r.files = IF r.mounted THEN {"mount_point"} ELSE {}

\* Who has created a device is yet to destroy that of its slot.
Owing == {"launch", "configure", "wait", "killed", "dump", "cleanup"}
Owned ==
  \A s \in Slots, v \in Vms : tap[s] = v => vm[v].slot = s /\ vm[v].stage \in Owing

Left == Owned /\ \A v \in Vms : Tidy(vm[v])

LEMMA InitLeft == Init => Left
<1>. SUFFICES ASSUME Init PROVE Left
  OBVIOUS
<1>1. \A v \in Vms : vm[v] = Fresh
  BY DEF Init
<1>2. Tidy(Fresh)
  BY DEF Tidy, Fresh, Running, Ending
<1>3. Owned
  BY MicroVmAssumption DEF Owned, Init
<1>. QED  BY <1>1, <1>2, <1>3 DEF Left

\* A step of one VM that leaves the devices alone.
LEMMA StepLeft ==
  ASSUME IInv, Left, NEW v \in Vms, NEW to, Tidy(to),
         vm' = [vm EXCEPT ![v] = to], UNCHANGED <<mode, tap>>,
         vm[v].stage \in Owing => to.slot = vm[v].slot /\ to.stage \in Owing
  PROVE  Left'
<1>1. vm'[v] = to /\ \A w \in Vms \ {v} : vm'[w] = vm[w]
  BY DEF IInv
<1>2. (\A w \in Vms : Tidy(vm[w]))'
  BY <1>1 DEF Left, Tidy
<1>3. Owned'
  BY <1>1 DEF Left, Owned
<1>. QED  BY <1>2, <1>3 DEF Left

\* The same, with the device of the slot, which becomes v's or goes.
LEMMA DeviceLeft ==
  ASSUME IInv, Left, NEW v \in Vms, NEW to, Tidy(to), NEW device \in {NoVm, v},
         vm[v].slot \in Slots, vm' = [vm EXCEPT ![v] = to], UNCHANGED mode,
         tap' = [tap EXCEPT ![vm[v].slot] = device],
         device = v => to.slot = vm[v].slot /\ to.stage \in Owing
  PROVE  Left'
<1>1. vm'[v] = to /\ \A w \in Vms \ {v} : vm'[w] = vm[w]
  BY DEF IInv
<1>2. (\A w \in Vms : Tidy(vm[w]))'
  BY <1>1 DEF Left, Tidy
<1>3. ASSUME NEW s \in Slots, NEW w \in Vms, tap'[s] = w
      PROVE  vm'[w].slot = s /\ vm'[w].stage \in Owing
  <2>1. CASE s = vm[v].slot
    BY <1>1, <1>3, <2>1, MicroVmAssumption DEF IInv
  <2>2. CASE s # vm[v].slot
    <3>1. tap[s] = w
      BY <1>3, <2>2 DEF IInv
    <3>2. vm[w].slot = s /\ vm[w].stage \in Owing /\ w # v
      BY <2>2, <3>1 DEF Left, Owned
    <3>. QED  BY <1>1, <3>2
  <2>. QED  BY <2>1, <2>2
<1>. QED  BY <1>2, <1>3 DEF Left, Owned

\* reap_zombies takes statuses in MMDS mode only.
LEMMA ReapLeft ==
  ASSUME IInv, Left, NEW v \in Vms, NEW to, to \in VmRecord, Tidy(to), mode.mmds,
         ReapAfter(v, to),
         vm[v].stage \in Owing => to.slot = vm[v].slot /\ to.stage \in Owing
  PROVE  Left'
<1>. DEFINE step == [vm EXCEPT ![v] = to]
<1>1. vm' = Reap(step) /\ UNCHANGED <<mode, tap>>
  BY DEF ReapAfter
<1>2. \A w \in Vms : step[w] \in VmRecord /\ Tidy(step[w])
  BY DEF IInv, Left
<1>3. \A s \in Slots, w \in Vms : tap[s] = w => step[w].slot = s /\ step[w].stage \in Owing
  BY DEF IInv, Left, Owned
<1>. HIDE DEF step
<1>4. ASSUME NEW w \in Vms
      PROVE  /\ vm'[w].stage = step[w].stage /\ vm'[w].slot = step[w].slot
             /\ Tidy(vm'[w])
  <2>1. vm'[w] = [step[w] EXCEPT
                    !.proc = IF @ = "zombie" THEN "reaped" ELSE @,
                    !.child = IF @ \in {"done", "failed"} THEN "stolen" ELSE @]
    BY <1>1 DEF Reap
  <2>. DEFINE r == step[w]  s == vm'[w]
  <2>2. /\ s.stage = r.stage /\ s.slot = r.slot /\ s.mounted = r.mounted
        /\ s.files = r.files /\ s.cause = r.cause /\ s.listener = r.listener
        /\ s.child = (IF r.child \in {"done", "failed"} THEN "stolen" ELSE r.child)
        /\ s.proc = (IF r.proc = "zombie" THEN "reaped" ELSE r.proc)
    BY <2>1, <1>2 DEF VmRecord
  <2>3. Tidy(r)
    BY <1>2
  <2>. HIDE DEF r, s
  <2>4. Tidy(s)
    BY <2>2, <2>3 DEF Tidy
  <2>. QED  BY <2>2, <2>4 DEF r, s
<1>5. Owned'
  BY <1>1, <1>3, <1>4 DEF Owned
<1>6. (\A w \in Vms : Tidy(vm[w]))'
  BY <1>1, <1>4 DEF Tidy
<1>. QED  BY <1>5, <1>6 DEF Left

\* What the lemmas below know of the VM of a step.
LEMMA VmTidy ==
  ASSUME IInv, Left, NEW v \in Vms
  PROVE  Sound(vm[v]) /\ vm[v] \in VmRecord /\ Tidy(vm[v]) /\ mode \in Mode
  BY VmSound DEF IInv, Left

LEMMA CallerLeft ==
  ASSUME IInv, Left, NEW v \in Vms,
         (\E s \in Slots : Begin(v, s)) \/ GiveBack(v) \/ ProcExits(v) \/ TimesOut(v)
  PROVE  Left'
<1>0. Sound(vm[v]) /\ vm[v] \in VmRecord /\ Tidy(vm[v]) /\ mode \in Mode
  BY VmTidy
<1>. USE DEF Steps, Goes, At
<1>1. ASSUME NEW s \in Slots, Begin(v, s) PROVE Left'
  <2>. DEFINE to == [Fresh EXCEPT !.stage = "disk", !.slot = s, !.leased = TRUE]
  <2>1. Tidy(to)
    BY DEF Tidy, Fresh, Running, Ending
  <2>2. vm[v].stage = "idle" /\ vm' = [vm EXCEPT ![v] = to] /\ UNCHANGED <<mode, tap>>
    BY <1>1 DEF Begin
  <2>. QED  BY <2>1, <2>2, StepLeft DEF Owing
<1>2. CASE GiveBack(v)
  <2>. DEFINE to == [vm[v] EXCEPT !.leased = FALSE]
  <2>1. Tidy(to) /\ to.slot = vm[v].slot /\ to.stage = vm[v].stage
    BY <1>0 DEF Tidy, VmRecord
  <2>2. vm' = [vm EXCEPT ![v] = to] /\ UNCHANGED <<mode, tap>>
    BY <1>2 DEF GiveBack
  <2>. QED  BY <2>1, <2>2, StepLeft
<1>3. CASE ProcExits(v)
  <2>1. PICK proc \in {"zombie", "reaped"} : vm' = [vm EXCEPT ![v].proc = proc]
    BY <1>3 DEF ProcExits
  <2>. DEFINE to == [vm[v] EXCEPT !.proc = proc]
  <2>2. Tidy(to) /\ to.slot = vm[v].slot /\ to.stage = vm[v].stage
    BY <1>0 DEF Tidy, VmRecord
  <2>3. vm' = [vm EXCEPT ![v] = to] /\ UNCHANGED <<mode, tap>>
    BY <1>3, <2>1 DEF ProcExits
  <2>. QED  BY <2>2, <2>3, StepLeft
<1>4. CASE TimesOut(v)
  <2>. DEFINE last == IF mode.mmds THEN Stopped(v) ELSE vm[v].proc
              to == RunEnds(v, last, "timeout")
  <2>1. /\ vm[v].stage = "wait" /\ vm' = [vm EXCEPT ![v] = to]
        /\ UNCHANGED <<mode, tap>>
    BY <1>4 DEF TimesOut
  <2>2. last = "running" => ~mode.mmds
    BY <1>0 DEF Stopped, Mode
  <2>. HIDE DEF last
  <2>3. Tidy(to) /\ to.slot = vm[v].slot /\ to.stage = "dump"
    BY <1>0, <2>1, <2>2
    DEF Tidy, RunEnds, VmRecord, Running, Ending, Sound, ToolStages
  <2>. QED  BY <2>1, <2>3, StepLeft DEF Owing
<1>. QED  BY <1>1, <1>2, <1>3, <1>4

LEMMA ToolExitsLeft ==
  ASSUME IInv, Left, NEW v \in Vms, ToolExits(v)
  PROVE  Left'
<1>0. Sound(vm[v]) /\ vm[v] \in VmRecord /\ Tidy(vm[v])
  BY VmTidy
<1>. USE DEF Exit, Goes, At
<1>2. CASE CopyExits(v)
  <2>1. PICK ok \in BOOLEAN : Exit(v, "disk", ok, [vm[v] EXCEPT !.files = @ \cup {"disk"}])
    BY <1>2 DEF CopyExits
  <2>. DEFINE to == [[vm[v] EXCEPT !.files = @ \cup {"disk"}]
                       EXCEPT !.child = IF ok THEN "done" ELSE "failed"]
  <2>2. Tidy(to)
    BY <1>0, <2>1 DEF Tidy, VmRecord, Running, Ending
  <2>3. /\ vm[v].stage = "disk" /\ vm' = [vm EXCEPT ![v] = to]
        /\ UNCHANGED <<mode, tap>>
    BY <2>1
  <2>. QED  BY <2>2, <2>3, StepLeft DEF Owing
<1>3. CASE MkfsExits(v)
  <2>1. PICK ok \in BOOLEAN : Exit(v, "mkfs", ok, vm[v])
    BY <1>3 DEF MkfsExits
  <2>. DEFINE to == [vm[v] EXCEPT !.child = IF ok THEN "done" ELSE "failed"]
  <2>2. Tidy(to)
    BY <1>0, <2>1 DEF Tidy, VmRecord, Running, Ending
  <2>3. /\ vm[v].stage = "mkfs" /\ vm' = [vm EXCEPT ![v] = to]
        /\ UNCHANGED <<mode, tap>>
    BY <2>1
  <2>. QED  BY <2>2, <2>3, StepLeft DEF Owing
<1>4. CASE MountExits(v)
  <2>1. PICK ok \in BOOLEAN, stage \in {"mount", "dump"} :
          Exit(v, stage, ok, [vm[v] EXCEPT !.mounted = ok])
    BY <1>4 DEF MountExits
  <2>. DEFINE to == [[vm[v] EXCEPT !.mounted = ok]
                       EXCEPT !.child = IF ok THEN "done" ELSE "failed"]
  <2>2. Tidy(to) /\ to.slot = vm[v].slot /\ to.stage = vm[v].stage
    BY <1>0, <2>1 DEF Tidy, VmRecord, Running, Ending
  <2>3. vm' = [vm EXCEPT ![v] = to] /\ UNCHANGED <<mode, tap>>
    BY <2>1
  <2>. QED  BY <2>2, <2>3, StepLeft
<1>. QED  BY <1>2, <1>3, <1>4 DEF ToolExits

LEMMA AbortedTidy ==
  ASSUME NEW v, vm[v] \in VmRecord, Sound(vm[v]), Tidy(vm[v]),
         NEW cause \in {"none", "write", "stolen", "timeout"},
         vm[v].stage \in ToolStages \cup {"tap"}, vm[v].stage # "dump",
         vm[v].mounted => cause \in {"write", "stolen"}
  PROVE  Tidy(Aborted(v, cause)) /\ Aborted(v, cause).stage = "cleanup"
  BY DEF Tidy, Aborted, VmRecord, Running, Ending, ToolStages

LEMMA RunEndsTidy ==
  ASSUME NEW v, vm[v] \in VmRecord, Sound(vm[v]), Tidy(vm[v]),
         NEW proc \in {"none", "running", "dying", "zombie", "reaped"}, proc # "running",
         vm[v].stage \in {"launch", "configure", "wait", "killed"}
  PROVE  LET to == RunEnds(v, proc, "none")
         IN  to \in VmRecord /\ Tidy(to) /\ to.slot = vm[v].slot /\ to.stage = "dump"
<1>. DEFINE to == RunEnds(v, proc, "none")
<1>1. to \in VmRecord
  BY RunEndsRecord
<1>2. /\ to.stage = "dump" /\ to.slot = vm[v].slot /\ to.proc = proc /\ ~to.listener
      /\ to.mounted = vm[v].mounted /\ to.child = vm[v].child /\ "mount_point" \in to.files
  BY DEF RunEnds, VmRecord
<1>3. ~vm[v].mounted /\ vm[v].child = "none"
  BY DEF Tidy, Sound, Ending, ToolStages
<1>. HIDE DEF to
<1>4. Tidy(to)
  BY <1>2, <1>3 DEF Tidy
<1>. QED  BY <1>1, <1>2, <1>4 DEF to

LEMMA PrepareLeft ==
  ASSUME IInv, Left, NEW v \in Vms, Prepare(v)
  PROVE  Left'
<1>0. Sound(vm[v]) /\ vm[v] \in VmRecord /\ Tidy(vm[v])
  BY VmTidy
<1>. USE DEF Steps, Goes, At, Succeeded
<1>1. ASSUME NEW stage \in {"disk", "mkfs", "mount"}, ToolFails(v, stage) PROVE Left'
  <2>. DEFINE cause == IF vm[v].child = "stolen" THEN "stolen" ELSE "none"
  <2>1. /\ vm[v].stage = stage /\ vm' = [vm EXCEPT ![v] = Aborted(v, cause)]
        /\ UNCHANGED <<mode, tap>> /\ vm[v].child \in {"failed", "stolen"}
    BY <1>1 DEF ToolFails, Missed
  \* A mount that has failed has mounted nothing.
  <2>2. /\ cause \in {"none", "write", "stolen", "timeout"}
        /\ vm[v].mounted => cause = "stolen"
    BY <1>0, <2>1 DEF Tidy, Ending
  <2>. HIDE DEF cause
  <2>3. Tidy(Aborted(v, cause))
    BY <1>0, <2>1, <2>2, AbortedTidy DEF ToolStages
  <2>. QED  BY <2>1, <2>3, StepLeft DEF Owing
<1>2. CASE CacheExists(v) \/ CacheReady(v)
  <2>1. Tidy(Injecting(v)) /\ vm[v].stage \in {"disk", "mkfs"}
    BY <1>0, <1>2
    DEF CacheExists, CacheReady, Injecting, Tidy, VmRecord, Running, Ending
  <2>2. vm' = [vm EXCEPT ![v] = Injecting(v)] /\ UNCHANGED <<mode, tap>>
    BY <1>2 DEF CacheExists, CacheReady
  <2>. QED  BY <2>1, <2>2, StepLeft DEF Owing
<1>3. CASE CacheCreate(v)
  <2>. DEFINE to == [vm[v] EXCEPT !.stage = "mkfs", !.child = "none"]
  <2>1. vm[v].stage = "disk" /\ vm' = [vm EXCEPT ![v] = to] /\ UNCHANGED <<mode, tap>>
    BY <1>3 DEF CacheCreate
  <2>2. Tidy(to)
    BY <1>0, <2>1 DEF Tidy, VmRecord, Running, Ending
  <2>. QED  BY <2>1, <2>2, StepLeft DEF Owing
<1>4. CASE WriteFails(v)
  <2>1. /\ vm[v].stage = "mount" /\ vm' = [vm EXCEPT ![v] = Aborted(v, "write")]
        /\ UNCHANGED <<mode, tap>>
    BY <1>4 DEF WriteFails
  <2>2. Tidy(Aborted(v, "write"))
    BY <1>0, <2>1, AbortedTidy DEF ToolStages
  <2>. QED  BY <2>1, <2>2, StepLeft DEF Owing
<1>5. CASE Written(v)
  <2>. DEFINE to == [vm[v] EXCEPT !.stage = "tap", !.child = "none",
                                  !.mounted = FALSE, !.files = @ \ {"mount_point"}]
  <2>1. vm[v].stage = "mount" /\ vm' = [vm EXCEPT ![v] = to] /\ UNCHANGED <<mode, tap>>
    BY <1>5 DEF Written
  <2>2. Tidy(to)
    BY <1>0, <2>1 DEF Tidy, VmRecord, Running, Ending
  <2>. QED  BY <2>1, <2>2, StepLeft DEF Owing
<1>6. vm[v].stage = "tap" => vm[v].slot \in Slots
  BY <1>0 DEF Sound, VmRecord
<1>7. CASE CreateTap(v)
  <2>. DEFINE to == [vm[v] EXCEPT !.stage = "launch", !.listener = TRUE,
                                  !.files = @ \cup {"vsock"}]
  <2>1. /\ vm[v].stage = "tap" /\ vm' = [vm EXCEPT ![v] = to] /\ UNCHANGED mode
        /\ tap' = [tap EXCEPT ![vm[v].slot] = v]
    BY <1>7 DEF CreateTap
  <2>2. Tidy(to) /\ to.slot = vm[v].slot /\ to.stage \in Owing
    BY <1>0, <2>1 DEF Tidy, VmRecord, Running, Ending, Owing
  <2>. QED  BY <1>6, <2>1, <2>2, DeviceLeft
<1>8. CASE TapFails(v)
  <2>. DEFINE to == Aborted(v, "none")
  <2>1. /\ vm[v].stage = "tap" /\ vm' = [vm EXCEPT ![v] = to] /\ UNCHANGED mode
    BY <1>8 DEF TapFails
  <2>2. PICK left \in {NoVm, v} : tap' = [tap EXCEPT ![vm[v].slot] = left]
    BY <1>8 DEF TapFails
  <2>3. ~vm[v].mounted
    BY <1>0, <2>1 DEF Tidy, Ending
  <2>4. Tidy(to) /\ to.stage = "cleanup"
    BY <1>0, <2>1, <2>3, AbortedTidy
  <2>5. to.slot = vm[v].slot
    BY <1>0 DEF Aborted, VmRecord
  <2>. QED  BY <1>6, <2>1, <2>2, <2>4, <2>5, DeviceLeft DEF Owing
<1>. QED  BY <1>1, <1>2, <1>3, <1>4, <1>5, <1>7, <1>8 DEF Prepare

LEMMA RunLeft ==
  ASSUME IInv, Left, NEW v \in Vms, Run(v)
  PROVE  Left'
<1>0. Sound(vm[v]) /\ vm[v] \in VmRecord /\ Tidy(vm[v]) /\ mode \in Mode
  BY VmTidy
<1>. USE DEF Steps, Goes, At
\* The stages of Run are all between the two steps of the device.
<1>1. ASSUME NEW proc \in {"none", "dying", "zombie", "reaped"},
             vm[v].stage \in {"launch", "configure", "wait", "killed"},
             vm' = [vm EXCEPT ![v] = RunEnds(v, proc, "none")], UNCHANGED <<mode, tap>>
      PROVE  Left'
  BY <1>0, <1>1, RunEndsTidy, StepLeft DEF Owing
<1>2. CASE DocumentsFail(v)
  <2>1. PICK some \in SUBSET Documents :
          Steps(v, "launch", [Aborted(v, "none") EXCEPT !.files = @ \cup some,
                                                         !.listener = FALSE])
    BY <1>2 DEF DocumentsFail
  <2>. DEFINE to == [Aborted(v, "none") EXCEPT !.files = @ \cup some, !.listener = FALSE]
  <2>2. /\ vm[v].stage = "launch" /\ vm' = [vm EXCEPT ![v] = to]
        /\ UNCHANGED <<mode, tap>>
    BY <2>1
  <2>3. Tidy(to) /\ to.slot = vm[v].slot /\ to.stage = "cleanup"
    BY <1>0, <2>2 DEF Aborted, Tidy, VmRecord, Running, Ending
  <2>. QED  BY <2>2, <2>3, StepLeft DEF Owing
<1>3. CASE Spawn(v)
  <2>1. /\ vm[v].stage = "launch" /\ vm' = [vm EXCEPT ![v] = Spawned(v)]
        /\ UNCHANGED <<mode, tap>>
    BY <1>3 DEF Spawn
  <2>2. Tidy(Spawned(v)) /\ Spawned(v).slot = vm[v].slot /\ Spawned(v).stage \in Owing
    BY <1>0, <2>1 DEF Spawned, Tidy, VmRecord, Running, Ending, Owing
  <2>. QED  BY <2>1, <2>2, StepLeft
<1>4. CASE SpawnFails(v)
  <2>. DEFINE ended == RunEnds(v, "none", "none")
              to == [ended EXCEPT !.files = @ \cup Spawned(v).files]
  <2>1. /\ vm[v].stage = "launch" /\ vm' = [vm EXCEPT ![v] = to]
        /\ UNCHANGED <<mode, tap>>
    BY <1>4 DEF SpawnFails
  <2>2. /\ ended \in VmRecord /\ Tidy(ended)
        /\ ended.slot = vm[v].slot /\ ended.stage = "dump"
    BY <1>0, <2>1, RunEndsTidy
  <2>. HIDE DEF ended
  <2>3. Tidy(to) /\ to.slot = vm[v].slot /\ to.stage = "dump"
    BY <2>2 DEF Tidy, VmRecord
  <2>. QED  BY <2>1, <2>3, StepLeft DEF Owing
<1>5. CASE Configured(v)
  <2>. DEFINE to == [vm[v] EXCEPT !.stage = "wait"]
  <2>1. /\ vm[v].stage = "configure" /\ vm' = [vm EXCEPT ![v] = to]
        /\ UNCHANGED <<mode, tap>>
    BY <1>5 DEF Configured
  <2>2. Tidy(to) /\ to.slot = vm[v].slot /\ to.stage \in Owing
    BY <1>0, <2>1 DEF Tidy, VmRecord, Running, Ending, Owing
  <2>. QED  BY <2>1, <2>2, StepLeft
<1>6. PICK stopped \in {"none", "dying", "zombie", "reaped"} : stopped = Stopped(v)
  BY <1>0 DEF Stopped, VmRecord
<1>7. CASE ConfigureFails(v)
  BY <1>1, <1>6, <1>7 DEF ConfigureFails
<1>8. CASE WaitReturns(v) \/ KillAndWait(v)
  BY <1>1, <1>8 DEF WaitReturns, KillAndWait
<1>9. CASE Noticed(v)
  <2>1. vm[v].stage = "wait" /\ mode.mmds /\ ReapAfter(v, RunEnds(v, "reaped", "none"))
    BY <1>9 DEF Noticed
  <2>. QED  BY <1>0, <2>1, RunEndsTidy, ReapLeft DEF Owing
<1>10. CASE Kill(v)
  <2>. DEFINE to == [vm[v] EXCEPT !.stage = "killed", !.proc = stopped]
  <2>1. /\ vm[v].stage = "wait" /\ vm' = [vm EXCEPT ![v] = to]
        /\ UNCHANGED <<mode, tap>>
    BY <1>6, <1>10 DEF Kill
  <2>2. Tidy(to) /\ to.slot = vm[v].slot /\ to.stage \in Owing
    BY <1>0, <2>1 DEF Tidy, VmRecord, Running, Ending, Owing
  <2>. QED  BY <2>1, <2>2, StepLeft
<1>11. CASE KillReaps(v)
  <2>1. vm[v].stage = "killed" /\ ReapAfter(v, RunEnds(v, vm[v].proc, "none"))
    BY <1>11 DEF KillReaps
  <2>2. mode.mmds /\ vm[v].proc # "running"
    BY <1>0, <2>1 DEF Sound, Tidy, Running, Ending
  <2>3. vm[v].proc \in {"none", "running", "dying", "zombie", "reaped"}
    BY <1>0 DEF VmRecord
  <2>. QED  BY <1>0, <2>1, <2>2, <2>3, RunEndsTidy, ReapLeft DEF Owing
<1>. QED  BY <1>2, <1>3, <1>4, <1>5, <1>7, <1>8, <1>9, <1>10, <1>11 DEF Run

LEMMA CleanUpLeft ==
  ASSUME IInv, Left, NEW v \in Vms, CleanUp(v)
  PROVE  Left'
<1>0. Sound(vm[v]) /\ vm[v] \in VmRecord /\ Tidy(vm[v])
  BY VmTidy
<1>. USE DEF Steps, Goes, At
<1>1. CASE Dumped(v)
  <2>. DEFINE to == [vm[v] EXCEPT !.stage = "cleanup", !.child = "none",
                                  !.mounted = FALSE, !.files = @ \ {"mount_point"}]
  <2>1. vm[v].stage = "dump" /\ vm' = [vm EXCEPT ![v] = to] /\ UNCHANGED <<mode, tap>>
    BY <1>1 DEF Dumped
  <2>2. Tidy(to) /\ to.slot = vm[v].slot /\ to.stage = "cleanup"
    BY <1>0, <2>1 DEF Tidy, VmRecord, Running, Ending
  <2>. QED  BY <2>1, <2>2, StepLeft DEF Owing
<1>2. CASE DumpFails(v)
  <2>. DEFINE cause == IF vm[v].child = "stolen" THEN "stolen" ELSE vm[v].cause
              files == Unused(v, vm[v].files)
              to == [vm[v] EXCEPT !.stage = "cleanup", !.child = "none",
                                  !.files = files, !.cause = cause]
  <2>1. /\ vm[v].stage = "dump" /\ vm' = [vm EXCEPT ![v] = to] /\ UNCHANGED <<mode, tap>>
        /\ vm[v].child \in {"failed", "stolen"}
    BY <1>0, <1>2 DEF DumpFails, VmRecord, Missed
  <2>2. vm[v].mounted => cause = "stolen" /\ "mount_point" \in files
    BY <1>0, <2>1 DEF Tidy, Ending, Unused
  \* Statuses are only stolen in MMDS mode, where no process is left running.
  <2>3. vm[v].proc = "running" => cause = "timeout" /\ ~mode.mmds
    BY <1>0, <2>1 DEF Tidy, Running, Ending
  <2>. HIDE DEF cause, files
  <2>4. Tidy(to) /\ to.slot = vm[v].slot /\ to.stage = "cleanup"
    BY <1>0, <2>1, <2>2, <2>3 DEF Tidy, VmRecord, Running, Ending
  <2>. QED  BY <2>1, <2>4, StepLeft DEF Owing
<1>3. CASE DestroyTap(v)
  <2>. DEFINE to == [vm[v] EXCEPT !.stage = "remove"]
  <2>1. /\ vm[v].stage = "cleanup" /\ vm' = [vm EXCEPT ![v] = to] /\ UNCHANGED mode
        /\ tap' = [tap EXCEPT ![vm[v].slot] = NoVm]
    BY <1>3 DEF DestroyTap
  <2>2. Tidy(to)
    BY <1>0, <2>1 DEF Tidy, VmRecord, Running, Ending
  <2>3. vm[v].slot \in Slots /\ NoVm # v
    BY <1>0, <2>1, MicroVmAssumption DEF Sound, VmRecord
  <2>4. Owned'
    BY <2>1, <2>3, MicroVmAssumption DEF IInv, Left, Owned
  <2>5. (\A w \in Vms : Tidy(vm[w]))'
    BY <2>1, <2>2 DEF IInv, Left, Tidy
  <2>. QED  BY <2>4, <2>5 DEF Left
<1>4. CASE Remove(v)
  <2>. DEFINE left == Unused(v, vm[v].files \cap {"mount_point"})
              to == [vm[v] EXCEPT !.stage = "gone", !.leased = FALSE, !.files = left]
  <2>1. vm[v].stage = "remove" /\ vm' = [vm EXCEPT ![v] = to] /\ UNCHANGED <<mode, tap>>
    BY <1>0, <1>4 DEF Remove, VmRecord
  <2>2. left = IF vm[v].mounted THEN {"mount_point"} ELSE {}
    BY <1>0 DEF Tidy, Unused
  <2>. HIDE DEF left
  <2>3. Tidy(to)
    BY <1>0, <2>1, <2>2 DEF Tidy, VmRecord, Running, Ending
  <2>. QED  BY <2>1, <2>3, StepLeft DEF Owing
<1>. QED  BY <1>1, <1>2, <1>3, <1>4 DEF CleanUp

LEMMA NextLeft == IInv /\ Left /\ [Next]_vars => Left'
<1>. SUFFICES ASSUME IInv, Left, [Next]_vars PROVE Left'
  OBVIOUS
<1>1. CASE UNCHANGED vars \/ ProcessGone \/ Signal
  BY <1>1 DEF ProcessGone, Signal, vars, Left, Owned, Tidy
<1>2. ASSUME NEW v \in Vms,
             \/ \E s \in Slots : Begin(v, s)
             \/ GiveBack(v) \/ ToolExits(v) \/ execute(v) \/ ProcExits(v) \/ TimesOut(v)
      PROVE  Left'
  BY <1>2, CallerLeft, ToolExitsLeft, PrepareLeft, RunLeft, CleanUpLeft DEF execute
<1>. QED  BY <1>1, <1>2 DEF Next

(* For every number of slots and set of VMs, in both injection modes: once  *)
(* execute returns, on any path, its TAP device, files, listener and process *)
(* are gone, except for the causes that NothingIsLeft names.               *)
THEOREM NothingStays == Spec => []NothingIsLeft
<1>1. Left => NothingIsLeft
  BY DEF Left, Owned, Tidy, NothingIsLeft, Running, Ending, Owing
<1>. QED  BY <1>1, InitLeft, NextLeft, IInvIsInvariant, PTL DEF Spec
================================================================================
