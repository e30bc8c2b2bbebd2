------------------------------ MODULE Provisioning ------------------------------
(***************************************************************************)
(* ensure_vm_assets of src/vm/setup.rs with src/image.rs: what each start  *)
(* of fc-runner finds on the disk, builds and takes over from an earlier   *)
(* start, and the rules it adds to the packet filter.                      *)
(*                                                                         *)
(* A start goes through its steps in order; it may fail at any of them     *)
(* (the files stay as the step left them, unless the code removes them) or *)
(* the host may go down, which also clears the packet filter.  The next    *)
(* start may have another configuration: another image or none, overlay    *)
(* mode, an allow-list, a newer fc-runner.  Files are abstracted to how    *)
(* much of them is there and which image they come from.                   *)
(* Definitions named Wrong_... are mutants, as in JitDispatch.             *)
(***************************************************************************)
EXTENDS Naturals, Sequences, SequencesExt

CONSTANTS
  Images,    \* digests that an OCI reference may resolve to
  Versions,  \* versions of fc-runner, each with its own overlay-init script
  Cloud,     \* the image source "Ubuntu cloud image" (no `image` configured)
  NoFile     \* a file that does not exist, or no script, or no digest

Sources == Images \cup {Cloud}
Download == {NoFile, "partial", "whole"}

(* A rootfs that is "torn" has no file system that can be mounted; a "bare" *)
(* one can be mounted and lacks something (layers, the runner, the agent).  *)
(* init is the version whose overlay_init_script it has, if any.            *)
Rootfs == [of : Sources, level : {"torn", "bare", "whole"}, init : Versions \cup {NoFile}]
Config == [source : Sources, overlay : BOOLEAN, listed : BOOLEAN, version : Versions]

MaxFilters == 3

ASSUME ProvisioningAssumption ==
  /\ Cloud \notin Images
  /\ NoFile \notin Sources \cup Versions \cup Rootfs

VARIABLES
  calm,         \* faults and changes of the configuration have stopped
  pc,           \* the step the start-up is at; "down" and "up"
  config,       \* image source, overlay_rootfs, resolved allow-list, version
  kernel,       \* kernel_path
  cloud_img,    \* cloud-base.img beside the golden rootfs
  rootfs,       \* rootfs_golden
  digest_file,  \* <rootfs_golden>.digest
  squashfs,     \* the squashfs beside the rootfs
  sq_newer,     \* its mtime is not older than that of the rootfs
  chain,        \* the rules of fc-runner in FORWARD, first to last
  pulled,       \* digests ever requested for this path (history)
  filters       \* allow-list on or off, its changes since boot (history)

files == <<kernel, cloud_img, rootfs, digest_file, squashfs, sq_newer>>
vars == <<calm, pc, config, kernel, cloud_img, rootfs, digest_file, squashfs,
          sq_newer, chain, pulled, filters>>

TypeOK ==
  /\ calm \in BOOLEAN
  /\ pc \in {"down", "kernel", "kernel_write", "image", "cloud_write", "convert",
             "extract", "contents", "create", "format", "agent", "record",
             "overlay_init", "squash", "squash_write", "network", "up"}
  /\ config \in Config
  /\ kernel \in Download /\ cloud_img \in Download
  /\ rootfs \in Rootfs \cup {NoFile}
  /\ digest_file \in Images \cup {NoFile}
  /\ squashfs \in Rootfs \cup {NoFile}
  /\ sq_newer \in BOOLEAN
  /\ chain \in Seq({"established", "any", "listed", "drop"}) /\ IsInjective(chain)
  /\ pulled \subseteq Images
  /\ filters \in Seq(BOOLEAN) /\ Len(filters) <= MaxFilters

Init ==
  /\ calm = FALSE
  /\ pc = "down"
  /\ config \in Config
  /\ kernel = NoFile /\ cloud_img = NoFile
  /\ rootfs = NoFile /\ digest_file = NoFile
  /\ squashfs = NoFile /\ sq_newer = FALSE
  /\ chain = <<>>
  /\ pulled = {} /\ filters = <<>>

--------------------------------------------------------------------------------
(* Steps                                                                   *)

Goes(from, to) == pc = from /\ pc' = to /\ UNCHANGED calm

\* A step of the start-up that changes none of the named files.
Moves(from, to) == Goes(from, to) /\ UNCHANGED <<config, chain, pulled, filters>>
Passes(from, to) == Moves(from, to) /\ UNCHANGED files

(* A start, with whatever configuration the operator has written meanwhile. *)
(* The allow-list counts as resolved: a failed request of the GitHub ranges *)
(* turns it off for this start.  After MaxFilters changes it stays.         *)
Start ==
  /\ Goes("down", "kernel")
  /\ config' \in Config
  /\ IF calm THEN config' = config
     ELSE Len(filters) = MaxFilters => config'.listed = Last(filters)
  /\ UNCHANGED <<files, chain, pulled, filters>>

(* The step that is under way fails: `?` ends the process with the files    *)
(* as they are.  Failures inside build_rootfs_contents are ContentsFail.    *)
Fail == ~calm /\ pc \notin {"down", "up"} /\ Passes(pc, "down")

\* The host goes down, or the service is stopped.
Crash ==
  /\ ~calm /\ pc # "down"
  /\ Goes(pc, "down")
  /\ chain' = <<>> /\ filters' = <<>>
  /\ UNCHANGED <<config, files, pulled>>

Stop == ~calm /\ Passes("up", "down")

\* download_file: File::create, and then the body is written.
Creates(file, old) == old = NoFile /\ file = "partial"

KernelExists == kernel # NoFile /\ Passes("kernel", "image")

KernelCreate ==
  /\ Moves("kernel", "kernel_write")
  /\ Creates(kernel', kernel)
  /\ UNCHANGED <<cloud_img, rootfs, digest_file, squashfs, sq_newer>>

KernelWritten ==
  /\ Moves("kernel_write", "image")
  /\ kernel' = "whole"
  /\ UNCHANGED <<cloud_img, rootfs, digest_file, squashfs, sq_newer>>

--------------------------------------------------------------------------------
(* ensure_golden_rootfs                                                    *)

\* A write to the rootfs makes it newer than the squashfs.
WriteRootfs(new) ==
  /\ rootfs' = new
  /\ sq_newer' = FALSE
  /\ UNCHANGED <<kernel, cloud_img, squashfs>>

Level(level) == WriteRootfs([rootfs EXCEPT !.level = level]) /\ UNCHANGED digest_file

RootfsExists ==
  /\ config.source = Cloud /\ rootfs # NoFile
  /\ Passes("image", "overlay_init")

CloudCreate ==
  /\ config.source = Cloud /\ rootfs = NoFile
  /\ Moves("image", "cloud_write")
  /\ Creates(cloud_img', cloud_img)
  /\ UNCHANGED <<kernel, rootfs, digest_file, squashfs, sq_newer>>

CloudWritten ==
  /\ Moves("cloud_write", "convert")
  /\ cloud_img' = "whole"
  /\ UNCHANGED <<kernel, rootfs, digest_file, squashfs, sq_newer>>

CloudCached ==
  /\ config.source = Cloud /\ rootfs = NoFile /\ cloud_img # NoFile
  /\ Passes("image", "convert")

(* The qcow2 image is converted and its ext4 partition copied to the place *)
(* of the rootfs; a truncated qcow2 image has no partition to be found.    *)
Convert ==
  \/ /\ cloud_img = "whole"
     /\ Moves("convert", "extract")
     /\ WriteRootfs([of |-> Cloud, level |-> "torn", init |-> NoFile])
     /\ UNCHANGED digest_file
  \/ cloud_img = "partial" /\ Passes("convert", "down")

Extracted == Moves("extract", "contents") /\ Level("bare")

ContentsBuilt ==
  /\ Moves("contents", "overlay_init")
  /\ WriteRootfs([rootfs EXCEPT !.level = "whole", !.init = config.version])
  /\ UNCHANGED digest_file

\* An error of build_rootfs_contents: unmount, and remove the file.
ContentsFail ==
  /\ ~calm
  /\ Moves("contents", "down")
  /\ WriteRootfs(NoFile)
  /\ UNCHANGED digest_file

--------------------------------------------------------------------------------
(* pull_and_convert                                                        *)

Requests == config.source \in Images /\ pulled' = pulled \cup {config.source}

\* The digest is not compared.
Wrong_Cached == rootfs # NoFile

Cached == rootfs # NoFile /\ digest_file = config.source

PullCached ==
  /\ Cached /\ Requests
  /\ Goes("image", "overlay_init")
  /\ UNCHANGED <<config, chain, filters, files>>

\* The stale rootfs is removed; its digest file stays.
RemoveStale ==
  /\ ~Cached /\ Requests
  /\ Goes("image", "create")
  /\ WriteRootfs(NoFile)
  /\ UNCHANGED <<config, chain, filters, digest_file>>

\* The digest is saved with the blank image, before the layers.
Wrong_CreateImage ==
  /\ Moves("create", "format")
  /\ WriteRootfs([of |-> config.source, level |-> "torn", init |-> NoFile])
  /\ digest_file' = config.source

CreateImage ==
  /\ Moves("create", "format")
  /\ WriteRootfs([of |-> config.source, level |-> "torn", init |-> NoFile])
  /\ UNCHANGED digest_file

Format == Moves("format", "agent") /\ Level("bare")

(* All layers are extracted and install_agent_if_missing is done, which     *)
(* writes an overlay-init script that is not the one of setup.rs.           *)
AgentInstalled == Moves("agent", "record") /\ Level("whole")

RecordDigest ==
  /\ Moves("record", "overlay_init")
  /\ digest_file' = config.source
  /\ UNCHANGED <<kernel, cloud_img, rootfs, squashfs, sq_newer>>

--------------------------------------------------------------------------------
(* ensure_overlay_init_installed and convert_to_squashfs                   *)

CannotMount ==
  /\ Passes("overlay_init", "down")
  /\ rootfs.level = "torn"

ScriptIsCurrent ==
  /\ Passes("overlay_init", "squash")
  /\ rootfs.level # "torn" /\ rootfs.init = config.version

InstallOverlayInit ==
  /\ Moves("overlay_init", "squash")
  /\ rootfs.level # "torn" /\ rootfs.init # config.version
  /\ WriteRootfs([rootfs EXCEPT !.init = config.version])
  /\ UNCHANGED digest_file

OverlayOff == ~config.overlay /\ Passes("squash", "network")

\* verify_kernel_overlay_support: a truncated kernel may lack the markers.
KernelLacks == config.overlay /\ kernel = "partial" /\ Passes("squash", "down")

\* Any squashfs beside the rootfs counts, however old.
Wrong_UpToDate == squashfs # NoFile

UpToDate == squashfs # NoFile /\ sq_newer

SquashfsUpToDate == config.overlay /\ UpToDate /\ Passes("squash", "network")

SquashfsStarts ==
  /\ config.overlay /\ ~UpToDate
  /\ Moves("squash", "squash_write")
  /\ squashfs' = [rootfs EXCEPT !.level = "torn"] /\ sq_newer' = TRUE
  /\ UNCHANGED <<kernel, cloud_img, rootfs, digest_file>>

SquashfsWritten ==
  /\ Moves("squash_write", "network")
  /\ squashfs' = rootfs /\ sq_newer' = TRUE
  /\ UNCHANGED <<kernel, cloud_img, rootfs, digest_file>>

--------------------------------------------------------------------------------
(* ensure_nat_rules: the rules of FORWARD, for traffic to the VMs           *)
(* ("established") and from them: to anywhere, to the listed networks, and  *)
(* to nowhere.  A rule that is not in the chain yet is inserted at a fixed  *)
(* position; a rule that another configuration left is not removed.        *)

Rules ==
  IF config.listed THEN <<"established", "listed", "drop">> ELSE <<"established", "any">>

\* The drop rule is appended to the chain (-A).
Wrong_Placed(i) ==
  IF Rules[i] = "drop" THEN Append(chain, "drop") ELSE InsertAt(chain, i, Rules[i])

Placed(i) == InsertAt(chain, i, Rules[i])

\* A rule counts as present only at its own position.
Wrong_Missing == {i \in DOMAIN Rules : i > Len(chain) \/ chain[i] # Rules[i]}

Missing == {i \in DOMAIN Rules : Rules[i] \notin ToSet(chain)}

\* The history of the allow-list, as far as MaxFilters changes.
Switches ==
  IF Len(filters) = MaxFilters \/ (filters # <<>> /\ Last(filters) = config.listed)
  THEN filters
  ELSE Append(filters, config.listed)

AddRule ==
  /\ Goes("network", "network")
  /\ \E i \in Missing : (\A k \in Missing : i <= k) /\ chain' = Placed(i)
  /\ filters' = Switches
  /\ UNCHANGED <<files, config, pulled>>

NetworkReady ==
  /\ Missing = {}
  /\ Goes("network", "up")
  /\ filters' = Switches
  /\ UNCHANGED <<files, config, chain, pulled>>

--------------------------------------------------------------------------------

ImageStep ==
  \/ RootfsExists \/ CloudCreate \/ CloudWritten \/ CloudCached
  \/ Convert \/ Extracted \/ ContentsBuilt
  \/ PullCached \/ RemoveStale \/ CreateImage \/ Format \/ AgentInstalled
  \/ RecordDigest

\* A start-up, when nothing fails.
StartUp ==
  \/ Start
  \/ KernelExists \/ KernelCreate \/ KernelWritten
  \/ ImageStep
  \/ CannotMount \/ ScriptIsCurrent \/ InstallOverlayInit
  \/ OverlayOff \/ KernelLacks
  \/ SquashfsUpToDate \/ SquashfsStarts \/ SquashfsWritten
  \/ AddRule \/ NetworkReady

\* From here on nothing fails and the configuration is left alone.
Settle == ~calm /\ calm' = TRUE /\ UNCHANGED <<pc, config, chain, pulled, filters, files>>

\* The server runs; none of what it does to VMs changes these files.
Serve == Passes("up", "up")

Next == StartUp \/ Serve \/ Fail \/ ContentsFail \/ Crash \/ Stop \/ Settle

Spec == Init /\ [][Next]_vars

\* A start-up that was begun goes on, and systemd starts a failed one again.
FairSpec == Spec /\ WF_vars(StartUp)

--------------------------------------------------------------------------------
(* Properties                                                              *)

Up == pc = "up"

(* As long as one image only was ever asked for, the server starts VMs from *)
(* that image, complete with its layers, the runner and the agent, whatever *)
(* start-ups failed or were cut short before and whatever rootfs an earlier *)
(* cloud configuration left: the digest is recorded last.                   *)
OnlyImageIsWhole ==
  Up /\ pulled = {config.source} => rootfs.of = config.source /\ rootfs.level = "whole"

(* The digest of an image is only recorded for that image, so a rootfs that *)
(* exists beside a digest is the image's: the cache check of                *)
(* pull_and_convert relies on it.  It does not hold (see the findings).     *)
PulledImageIsServed ==
  Up /\ config.source \in Images => rootfs.of = config.source /\ rootfs.level = "whole"

(* In overlay mode the VMs boot from the squashfs: it has the contents of   *)
(* the rootfs, unless mksquashfs was cut short, which is found out when the *)
(* rootfs next changes.                                                     *)
SquashFollowsRootfs == Up /\ config.overlay /\ squashfs.level # "torn" => squashfs = rootfs

\* The position of the first rule that decides on a packet from a VM.
Decides(kinds) == SelectInSeq(chain, LAMBDA r : r \in kinds)

(* Up to one change of the allow-list since the host booted, the packet     *)
(* filter does what the configuration says: VMs reach the listed networks,  *)
(* and the others exactly when there is no list.                            *)
FilterIsConfigured ==
  Up /\ Len(filters) <= 2 =>
    LET unlisted == chain[Decides({"any", "drop"})]
        listed == chain[Decides({"any", "listed", "drop"})]
    IN (unlisted = "any" <=> ~config.listed) /\ listed # "drop"

\* What is on the disk lets the next start-up through.
Recoverable ==
  /\ config.overlay => kernel # "partial"
  /\ IF config.source = Cloud
     THEN IF rootfs = NoFile THEN cloud_img # "partial" ELSE rootfs.level # "torn"
     ELSE pulled \subseteq {config.source}

(* A start-up that was cut short does not keep later ones from coming up:   *)
(* once the faults stop, the server comes up, unless a download was         *)
(* truncated, the cloud image was cut short in place or a second image has  *)
(* been asked for.                                                          *)
ComesUp == calm /\ Recoverable ~> Up

================================================================================
