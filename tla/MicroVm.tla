--------------------------------- MODULE MicroVm ---------------------------------
(***************************************************************************)
(* MicroVm::execute of src/vm/firecracker: a VM from its images and its    *)
(* TAP device to the end of its process and the clean-up, for the VMs that *)
(* the schedulers run side by side and one after the other on their slots. *)
(*                                                                         *)
(* External tools (cp, mkfs.ext4, mount) are children of fc-runner, as are *)
(* the firecracker processes; waitpid(-1) of reap_zombies may take the     *)
(* exit status of any of them.  The copy of the rootfs and the overlay     *)
(* image are both "the disk", the documents with the log file "config".    *)
(* The chroot of a jailer started by the SDK is the SDK's.  cache_enabled  *)
(* and vsock_enabled are on: without them there is less to go wrong.       *)
(* Definitions named Wrong_... are mutants, as in JitDispatch.             *)
(***************************************************************************)
EXTENDS Naturals, FiniteSets

CONSTANTS
  MaxJobs,  \* the number of slots
  Vms,      \* the VMs that are run, each once (a bound on the model)
  NoVm,     \* no VM
  NoSlot    \* no slot

Slots == 0..(MaxJobs - 1)

ASSUME MicroVmAssumption ==
  /\ MaxJobs \in Nat \ {0}
  /\ NoVm \notin Vms /\ NoSlot \notin Slots

VARIABLES
  mode,       \* secret_injection = "mmds", jailer; slots are returned early
  cancelled,  \* the cancellation token
  vm,         \* what there is of each VM
  tap,        \* tap-fc<slot>: the VM that created the device
  cache       \* <cache_dir>/slot-<slot>.ext4 ("absent": or of another size)

vars == <<mode, cancelled, vm, tap, cache>>

ToolStages == {"disk", "mkfs", "mount", "dump"}
Stages == ToolStages \cup
  {"idle", "tap", "launch", "configure", "wait", "killed",
   "cleanup", "remove", "gone"}
Files == {"disk", "mount_point", "vsock", "config", "chroot", "socket"}

Fresh == [stage |-> "idle", slot |-> NoSlot, leased |-> FALSE, child |-> "none",
          files |-> {}, mounted |-> FALSE, proc |-> "none", listener |-> FALSE,
          cause |-> "none"]

TypeOK ==
  /\ mode \in [mmds : BOOLEAN, jailer : BOOLEAN, early : BOOLEAN]
  /\ cancelled \in BOOLEAN
  /\ vm \in [Vms -> [stage : Stages, slot : Slots \cup {NoSlot}, leased : BOOLEAN,
                     child : {"none", "done", "failed", "stolen"},
                     files : SUBSET Files, mounted : BOOLEAN,
                     proc : {"none", "running", "dying", "zombie", "reaped"},
                     listener : BOOLEAN,
                     cause : {"none", "write", "stolen", "timeout"}]]
  /\ \A v \in Vms : /\ vm[v].stage = "idle" <=> vm[v].slot = NoSlot
                    /\ vm[v].child # "none" => vm[v].stage \in ToolStages
                    /\ vm[v].proc = "dying" => mode.mmds
  /\ tap \in [Slots -> Vms \cup {NoVm}]
  /\ cache \in [Slots -> {"absent", "blank", "ext4"}]

Init ==
  /\ mode \in [mmds : BOOLEAN, jailer : BOOLEAN, early : BOOLEAN]
  /\ mode.mmds => ~mode.jailer
  /\ cancelled = FALSE
  /\ vm = [v \in Vms |-> Fresh]
  /\ tap = [s \in Slots |-> NoVm]
  /\ \E c \in {"absent", "blank", "ext4"} : cache = [s \in Slots |-> c]

Signal == ~cancelled /\ cancelled' = TRUE /\ UNCHANGED <<mode, vm, tap, cache>>

--------------------------------------------------------------------------------

At(v, stage) == vm[v].stage = stage

Goes(v, from, to) ==
  /\ At(v, from)
  /\ vm' = [vm EXCEPT ![v] = to]
  /\ UNCHANGED <<mode, cancelled>>

\* A step that leaves the host's devices and cache images alone.
Steps(v, from, to) == Goes(v, from, to) /\ UNCHANGED <<tap, cache>>

\* `?` in prepare_and_run: execute goes on with cleanup.
Aborted(v, cause) ==
  [vm[v] EXCEPT !.stage = "cleanup", !.child = "none", !.cause = cause]

\* abort_vsock, and on to dump_guest_log, which makes the mount point again.
RunEnds(v, proc, cause) ==
  [vm[v] EXCEPT !.stage = "dump", !.proc = proc, !.cause = cause, !.listener = FALSE,
                !.files = @ \cup {"mount_point"}]

--------------------------------------------------------------------------------
(* The caller: a VM task of a scheduler                                    *)

Begin(v, s) ==
  /\ ~cancelled
  /\ \A w \in Vms : vm[w].leased => vm[w].slot # s
  /\ Steps(v, "idle", [Fresh EXCEPT !.stage = "disk", !.slot = s, !.leased = TRUE])

\* The warm pool's early report: the guest is done and has not rebooted yet.
GiveBack(v) ==
  /\ mode.early /\ vm[v].leased /\ vm[v].proc = "running"
  /\ Steps(v, "wait", [vm[v] EXCEPT !.leased = FALSE])

--------------------------------------------------------------------------------
(* Tools: what they leave behind, whether they succeed or not              *)

Exit(v, stage, ok, to) ==
  /\ vm[v].child = "none"
  /\ Goes(v, stage, [to EXCEPT !.child = IF ok THEN "done" ELSE "failed"])
  /\ UNCHANGED tap

CopyExits(v) ==
  /\ \E ok \in BOOLEAN : Exit(v, "disk", ok, [vm[v] EXCEPT !.files = @ \cup {"disk"}])
  /\ UNCHANGED cache

MkfsExits(v) ==
  \E ok \in BOOLEAN :
    /\ Exit(v, "mkfs", ok, vm[v])
    /\ cache' = IF ok THEN [cache EXCEPT ![vm[v].slot] = "ext4"] ELSE cache

MountExits(v) ==
  /\ \E ok \in BOOLEAN, stage \in {"mount", "dump"} :
       Exit(v, stage, ok, [vm[v] EXCEPT !.mounted = ok])
  /\ UNCHANGED cache

ToolExits(v) == CopyExits(v) \/ MkfsExits(v) \/ MountExits(v)

Succeeded(v) == vm[v].child = "done"
Missed(v) == vm[v].child \in {"failed", "stolen"}

\* The tool failed, or its status is gone (ECHILD).
ToolFails(v, stage) ==
  /\ Missed(v)
  /\ Steps(v, stage, Aborted(v, IF vm[v].child = "stolen" THEN "stolen" ELSE "none"))

--------------------------------------------------------------------------------
(* prepare_and_run, up to the process                                      *)

\* create_dir_all(mount_point), and mount starts.
Injecting(v) ==
  [vm[v] EXCEPT !.stage = "mount", !.child = "none", !.files = @ \cup {"mount_point"}]

\* ensure_cache_image: a file of the right size is not looked into.
CacheExists(v) ==
  /\ At(v, "disk") /\ Succeeded(v) /\ cache[vm[v].slot] # "absent"
  /\ Steps(v, "disk", Injecting(v))

CacheCreate(v) ==
  /\ At(v, "disk") /\ Succeeded(v) /\ cache[vm[v].slot] = "absent"
  /\ Goes(v, "disk", [vm[v] EXCEPT !.stage = "mkfs", !.child = "none"])
  /\ cache' = [cache EXCEPT ![vm[v].slot] = "blank"]
  /\ UNCHANGED tap

CacheReady(v) == Succeeded(v) /\ Steps(v, "mkfs", Injecting(v))

\* A file cannot be written: the image stays mounted.
WriteFails(v) == Succeeded(v) /\ Steps(v, "mount", Aborted(v, "write"))

\* umount_with_retry ends with a lazy unmount.
Written(v) ==
  /\ Succeeded(v)
  /\ Steps(v, "mount", [vm[v] EXCEPT !.stage = "tap", !.child = "none",
                                     !.mounted = FALSE, !.files = @ \ {"mount_point"}])

(* Whatever device has the name is deleted; with the new one comes the     *)
(* listener.                                                               *)
CreateTap(v) ==
  /\ Goes(v, "tap", [vm[v] EXCEPT !.stage = "launch", !.listener = TRUE,
                                  !.files = @ \cup {"vsock"}])
  /\ tap' = [tap EXCEPT ![vm[v].slot] = v]
  /\ UNCHANGED cache

\* The retry fails, too, or the address cannot be assigned.
TapFails(v) ==
  /\ Goes(v, "tap", Aborted(v, "none"))
  /\ \E left \in {NoVm, v} : tap' = [tap EXCEPT ![vm[v].slot] = left]
  /\ UNCHANGED cache

\* setup_jailer_chroot, or write_vm_config and the log file.
Documents == IF mode.jailer THEN {"chroot"} ELSE {"config"}

\* The listener is not aborted on the early return.
Wrong_DocumentsFail(v) ==
  /\ ~mode.mmds
  /\ \E some \in SUBSET Documents :
       Steps(v, "launch", [Aborted(v, "none") EXCEPT !.files = @ \cup some])

DocumentsFail(v) ==
  /\ ~mode.mmds
  /\ \E some \in SUBSET Documents :
       Steps(v, "launch", [Aborted(v, "none") EXCEPT !.files = @ \cup some,
                                                      !.listener = FALSE])

\* run_no_api: spawn; run_with_sdk: start_vmm.
Spawned(v) ==
  IF mode.mmds
  THEN [vm[v] EXCEPT !.stage = "configure", !.proc = "running",
                     !.files = @ \cup {"config", "socket"}]
  ELSE [vm[v] EXCEPT !.stage = "wait", !.proc = "running", !.files = @ \cup Documents]

Spawn(v) == Steps(v, "launch", Spawned(v))

SpawnFails(v) ==
  Steps(v, "launch", [RunEnds(v, "none", "none") EXCEPT !.files = @ \cup Spawned(v).files])

Configured(v) == Steps(v, "configure", [vm[v] EXCEPT !.stage = "wait"])

\* Without a process there is nothing for SIGTERM to end.
Stopped(v) == IF vm[v].proc = "running" THEN "dying" ELSE vm[v].proc

\* Configuration or boot fails: stop, or the drop of the Instance.
ConfigureFails(v) == Steps(v, "configure", RunEnds(v, Stopped(v), "none"))

--------------------------------------------------------------------------------
(* The process and the wait for it                                         *)

\* Tokio reaps a child that nobody waits for any more.
ProcExits(v) ==
  /\ vm[v].proc \in {"running", "dying"}
  /\ vm' = [vm EXCEPT ![v].proc = IF mode.mmds \/ At(v, "wait") THEN "zombie" ELSE "reaped"]
  /\ UNCHANGED <<mode, cancelled, tap, cache>>

\* run_no_api: child.wait() returns.
WaitReturns(v) ==
  /\ ~mode.mmds /\ vm[v].proc = "zombie"
  /\ Steps(v, "wait", RunEnds(v, "reaped", "none"))

(* reap_zombies: processes that have exited, and tools that have exited    *)
(* and not been waited for.                                                *)
Reap(of) ==
  [w \in Vms |-> [of[w] EXCEPT
     !.proc = IF @ = "zombie" THEN "reaped" ELSE @,
     !.child = IF @ \in {"done", "failed"} THEN "stolen" ELSE @]]

ReapAfter(v, to) ==
  /\ vm' = Reap([vm EXCEPT ![v] = to])
  /\ UNCHANGED <<mode, cancelled, tap, cache>>

\* kill(pid, 0) succeeds for a zombie.
Wrong_has_exited(v) == vm[v].proc = "reaped"

\* !is_process_alive: waitpid, or ECHILD and no such process.
has_exited(v) == vm[v].proc \in {"zombie", "reaped"}

Noticed(v) ==
  /\ mode.mmds /\ At(v, "wait") /\ has_exited(v)
  /\ ReapAfter(v, RunEnds(v, "reaped", "none"))

(* vm_timeout_secs have passed.  In MMDS mode the Instance is dropped,      *)
(* which sends SIGTERM; a dropped Child is left alone.                     *)
TimesOut(v) ==
  Steps(v, "wait", RunEnds(v, IF mode.mmds THEN Stopped(v) ELSE vm[v].proc, "timeout"))

\* start_kill: the signal is sent and the exit not waited for.
Wrong_KillAndWait(v) ==
  /\ cancelled /\ ~mode.mmds
  /\ Steps(v, "wait", RunEnds(v, Stopped(v), "none"))

\* run_no_api: child.kill() and wait.
KillAndWait(v) ==
  /\ cancelled /\ ~mode.mmds
  /\ Steps(v, "wait", RunEnds(v, "reaped", "none"))

\* wait_for_exit: SIGKILL, and reap_zombies 200 ms later.
Kill(v) ==
  /\ cancelled /\ mode.mmds
  /\ Steps(v, "wait", [vm[v] EXCEPT !.stage = "killed", !.proc = Stopped(v)])

KillReaps(v) == At(v, "killed") /\ ReapAfter(v, RunEnds(v, vm[v].proc, "none"))

--------------------------------------------------------------------------------
(* dump_guest_log and cleanup                                              *)

Dumped(v) ==
  /\ Succeeded(v)
  /\ Steps(v, "dump", [vm[v] EXCEPT !.stage = "cleanup", !.child = "none",
                                    !.mounted = FALSE, !.files = @ \ {"mount_point"}])

\* remove_dir fails on a mount point that is in use.
Unused(v, files) == IF vm[v].mounted THEN files ELSE files \ {"mount_point"}

DumpFails(v) ==
  /\ Missed(v)
  /\ Steps(v, "dump", [vm[v] EXCEPT !.stage = "cleanup", !.child = "none",
       !.files = Unused(v, @),
       !.cause = IF vm[v].child = "stolen" THEN "stolen" ELSE @])

\* The device of the next slot is deleted.
Wrong_DestroyTap(v) ==
  /\ Goes(v, "cleanup", [vm[v] EXCEPT !.stage = "remove"])
  /\ tap' = [tap EXCEPT ![(vm[v].slot + 1) % MaxJobs] = NoVm]
  /\ UNCHANGED cache

\* By name: whoever has created the device.
DestroyTap(v) ==
  /\ Goes(v, "cleanup", [vm[v] EXCEPT !.stage = "remove"])
  /\ tap' = [tap EXCEPT ![vm[v].slot] = NoVm]
  /\ UNCHANGED cache

\* A mounted image is not unmounted; execute returns and with it the slot.
Remove(v) ==
  Steps(v, "remove", [vm[v] EXCEPT !.stage = "gone", !.leased = FALSE,
                                   !.files = Unused(v, @ \cap {"mount_point"})])

--------------------------------------------------------------------------------

Prepare(v) ==
  \/ \E stage \in {"disk", "mkfs", "mount"} : ToolFails(v, stage)
  \/ CacheExists(v) \/ CacheCreate(v) \/ CacheReady(v)
  \/ WriteFails(v) \/ Written(v) \/ CreateTap(v) \/ TapFails(v)

Run(v) ==
  \/ DocumentsFail(v) \/ Spawn(v) \/ SpawnFails(v)
  \/ Configured(v) \/ ConfigureFails(v)
  \/ WaitReturns(v) \/ Noticed(v) \/ KillAndWait(v) \/ Kill(v) \/ KillReaps(v)

CleanUp(v) == Dumped(v) \/ DumpFails(v) \/ DestroyTap(v) \/ Remove(v)

execute(v) == Prepare(v) \/ Run(v) \/ CleanUp(v)

ProcessGone == cancelled /\ (\A v \in Vms : ~vm[v].leased) /\ UNCHANGED vars

Next ==
  \/ Signal \/ ProcessGone
  \/ \E v \in Vms :
       \/ \E s \in Slots : Begin(v, s)
       \/ GiveBack(v)
       \/ ToolExits(v) \/ execute(v) \/ ProcExits(v) \/ TimesOut(v)

Spec == Init /\ [][Next]_vars

(* Tokio runs every ready task, tools end, and a timer fires on a VM that  *)
(* does not end by itself.  A VM need not ever exit.                       *)
FairSpec ==
  /\ Spec
  /\ \A v \in Vms :
       /\ WF_vars(execute(v)) /\ WF_vars(ToolExits(v))
       /\ WF_vars(vm[v].proc = "dying" /\ ProcExits(v))
       /\ WF_vars(vm[v].proc = "running" /\ TimesOut(v))

--------------------------------------------------------------------------------
(* Properties                                                              *)

(* "Cleanup runs unconditionally, even on failure": once execute returns,  *)
(* on any path, nothing of the VM is left, except a mount point that is    *)
(* still mounted after a failed write or a stolen exit status, and, in     *)
(* no-API mode, the process of a VM that has timed out.                    *)
NothingIsLeft ==
  \A v \in Vms : vm[v].stage = "gone" =>
    /\ \A s \in Slots : tap[s] # v
    /\ vm[v].files = IF vm[v].mounted THEN {"mount_point"} ELSE {}
    /\ vm[v].mounted => vm[v].cause \in {"write", "stolen"}
    /\ ~vm[v].listener
    /\ vm[v].proc = "running" => vm[v].cause = "timeout" /\ ~mode.mmds

TapOf(v) == At(v, "wait") /\ vm[v].proc = "running" => tap[vm[v].slot] = v

(* Whatever other VMs do, time out and clean up, a running VM keeps the    *)
(* TAP device it was started with, as long as slots are returned when      *)
(* execute returns.                                                        *)
TapIsMine == mode.early \/ \A v \in Vms : TapOf(v)

(* "Each VM gets its own TAP device and unique subnet", also in the warm   *)
(* pool, which returns slots early.  It does not hold (see the findings).  *)
TapIsAlwaysMine == \A v \in Vms : TapOf(v)

(* execute returns: no tool, no process that hangs or that another VM's    *)
(* task has reaped, and no cancellation keeps a VM task waiting.           *)
ExecuteReturns == \A v \in Vms : At(v, "disk") ~> At(v, "gone")

================================================================================
