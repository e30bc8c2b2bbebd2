------------------------------ MODULE RunnerRegistry ------------------------------
(***************************************************************************)
(* The runners registered at GitHub (src/github.rs), the guest agents that *)
(* register and run them (src/agent.rs), and the VM tasks that create and  *)
(* delete registrations while others do the same.                          *)
(*                                                                         *)
(* Each VM has a runner with a name of its own.  In JIT mode it is         *)
(* registered before the VM boots, else by config.sh in the guest.  After  *)
(* a VM the offline runners of the repository are listed and deleted one   *)
(* by one; the warm pool deletes the runner of the VM by its name instead, *)
(* if the VM ended well.  GitHub is an external part: it refuses to delete *)
(* a runner that is busy, and notices with a delay that one is gone.       *)
(* The guest is that of the MMDS mode; without MMDS a shell script takes   *)
(* the place of the agent.                                                 *)
(* Definitions named Wrong_... are mutants, as in JitDispatch.             *)
(***************************************************************************)
EXTENDS Naturals, FiniteSets

CONSTANTS
  Vms,      \* the VMs that are run, each once (a bound on the model)
  MaxJobs   \* jobs a runner that is not ephemeral may run (a bound)

ASSUME RegistryAssumption == MaxJobs \in Nat \ {0, 1}

VARIABLES
  mode,       \* "jit", "pool" or "warm"
  ephemeral,  \* config.runner.ephemeral
  task,       \* the stage of a VM's task on the host
  failed,     \* its VM, or its request, ended with an error
  listed,     \* runners it has listed and is about to delete
  guest,      \* the stage of the agent in the VM
  reporting,  \* the agent's VSOCK connection stands
  told,       \* the host has received JobCompleted
  runner,     \* GitHub's registration
  jobs        \* jobs the runner has been given (history)

config == <<mode, ephemeral>>
hostVars == <<task, failed, listed>>
guestVars == <<guest, reporting, told>>
vars == <<config, hostVars, guestVars, runner, jobs>>

TypeOK ==
  /\ mode \in {"jit", "pool", "warm"} /\ ephemeral \in BOOLEAN
  /\ task \in [Vms -> {"idle", "vm", "ended", "deleting", "done"}]
  /\ failed \in [Vms -> BOOLEAN]
  /\ listed \in [Vms -> SUBSET Vms]
  /\ guest \in [Vms -> {"off", "booting", "stuck", "agent", "configured", "listening",
                        "job", "finished", "reported"}]
  /\ reporting \in [Vms -> BOOLEAN] /\ told \in [Vms -> BOOLEAN]
  /\ runner \in [Vms -> {"none", "offline", "online", "busy"}]
  /\ jobs \in [Vms -> 0..MaxJobs]
  /\ \A v \in Vms :
       /\ guest[v] # "off" => task[v] = "vm"
       /\ guest[v] = "job" => runner[v] = "busy"
       /\ told[v] => guest[v] \in {"reported", "off"}
       /\ listed[v] # {} => task[v] = "deleting"

Init ==
  /\ mode \in {"jit", "pool", "warm"} /\ ephemeral \in BOOLEAN
  /\ task = [v \in Vms |-> "idle"] /\ failed = [v \in Vms |-> FALSE]
  /\ listed = [v \in Vms |-> {}]
  /\ guest = [v \in Vms |-> "off"]
  /\ reporting = [v \in Vms |-> FALSE] /\ told = [v \in Vms |-> FALSE]
  /\ runner = [v \in Vms |-> "none"]
  /\ jobs = [v \in Vms |-> 0]

--------------------------------------------------------------------------------
(* The VM task: run_jit_job, run_pool_vm, run_warm_vm                      *)

TaskGoes(v, from, to, err) ==
  /\ task[v] = from
  /\ task' = [task EXCEPT ![v] = to]
  /\ failed' = [failed EXCEPT ![v] = err]
  /\ UNCHANGED <<config, jobs>>

(* generate_jit_config registers the runner; a registration token does not. *)
(* Then execute boots the VM.                                              *)
Launch(v) ==
  /\ TaskGoes(v, "idle", "vm", FALSE)
  /\ runner' = [runner EXCEPT ![v] = IF mode = "jit" THEN "offline" ELSE @]
  /\ guest' = [guest EXCEPT ![v] = "booting"]
  /\ UNCHANGED <<listed, reporting, told>>

RequestFails(v) ==
  /\ TaskGoes(v, "idle", "ended", TRUE)
  /\ UNCHANGED <<listed, guestVars, runner>>

\* The VM is down: execute returns.
VmExits(v) ==
  /\ guest[v] = "off"
  /\ \E err \in BOOLEAN : TaskGoes(v, "vm", "ended", err)
  /\ UNCHANGED <<listed, guestVars, runner>>

(* list_runners answers with one page of a hundred: which runners are on   *)
(* it is up to GitHub.                                                     *)
Page == {page \in SUBSET Vms : \A n \in page : runner[n] # "none"}

ByName(v) == mode = "warm" /\ ~failed[v]

\* delete_runner_by_name, or the runners of remove_offline_runners.
List(v) ==
  /\ \E page \in Page :
       listed' = [listed EXCEPT ![v] =
         IF ByName(v) THEN page \cap {v} ELSE {n \in page : runner[n] = "offline"}]
  /\ TaskGoes(v, "ended", "deleting", failed[v])
  /\ UNCHANGED <<guestVars, runner>>

ListFails(v) ==
  /\ TaskGoes(v, "ended", "done", failed[v])
  /\ UNCHANGED <<listed, guestVars, runner>>

(* One DELETE; its error is logged and the next one follows.               *)
Delete(v) ==
  /\ \E n \in listed[v], ok \in BOOLEAN :
       /\ listed' = [listed EXCEPT ![v] = @ \ {n}]
       /\ runner' = [runner EXCEPT ![n] = IF ok /\ @ # "busy" THEN "none" ELSE @]
  /\ TaskGoes(v, "deleting", "deleting", failed[v])
  /\ UNCHANGED guestVars

TaskEnds(v) ==
  /\ listed[v] = {}
  /\ TaskGoes(v, "deleting", "done", failed[v])
  /\ UNCHANGED <<listed, guestVars, runner>>

--------------------------------------------------------------------------------
(* The guest: the agent, config.sh and run.sh                              *)

GuestGoes(v, from, to) ==
  /\ guest[v] \in from
  /\ guest' = [guest EXCEPT ![v] = to]
  /\ UNCHANGED <<config, hostVars>>

Plain(v, from, to) ==
  GuestGoes(v, from, to) /\ UNCHANGED <<reporting, told, runner, jobs>>

(* The metadata is there within ten attempts, the host name is set, and    *)
(* the connection to the host is made or not.                              *)
AgentStarts(v) ==
  /\ GuestGoes(v, {"booting"}, "agent")
  /\ \E connected \in BOOLEAN : reporting' = [reporting EXCEPT ![v] = connected]
  /\ UNCHANGED <<told, runner, jobs>>

\* read_mmds_with_retry gives up: the agent exits, and the VM stays up.
NoMetadata(v) == Plain(v, {"booting"}, "stuck")

RunJit(v) == mode = "jit" /\ Plain(v, {"agent"}, "configured")

RunRegistered(v) ==
  /\ mode # "jit"
  /\ GuestGoes(v, {"agent"}, "configured")
  /\ runner' = [runner EXCEPT ![v] = "offline"]
  /\ UNCHANGED <<reporting, told, jobs>>

\* An error of run_runner leaves the agent without a reboot, as `?` would.
Wrong_RunFails(v) ==
  \/ Plain(v, {"agent"}, "stuck")
  \/ runner[v] = "none" /\ Plain(v, {"configured", "listening"}, "stuck")

(* config.sh fails, run.sh cannot be started, or it finds its registration *)
(* deleted: run_runner returns an exit code.                               *)
RunFails(v) ==
  \/ Plain(v, {"agent"}, "finished")
  \/ runner[v] = "none" /\ Plain(v, {"configured", "listening"}, "finished")

Connect(v) ==
  /\ runner[v] # "none"
  /\ GuestGoes(v, {"configured"}, "listening")
  /\ runner' = [runner EXCEPT ![v] = "online"]
  /\ UNCHANGED <<reporting, told, jobs>>

PickJob(v) ==
  /\ runner[v] = "online" /\ jobs[v] < MaxJobs
  /\ GuestGoes(v, {"listening"}, "job")
  /\ runner' = [runner EXCEPT ![v] = "busy"]
  /\ jobs' = [jobs EXCEPT ![v] = @ + 1]
  /\ UNCHANGED <<reporting, told>>

\* The flag --ephemeral is not passed to config.sh.
Wrong_is_ephemeral == mode = "jit"

\* What the runner was registered as; JIT runners always are.
is_ephemeral == mode = "jit" \/ ephemeral

\* GitHub removes an ephemeral runner after its job.
JobEnds(v) ==
  /\ GuestGoes(v, {"job"}, IF is_ephemeral THEN "finished" ELSE "listening")
  /\ runner' = [runner EXCEPT ![v] = IF is_ephemeral THEN "none" ELSE "online"]
  /\ UNCHANGED <<reporting, told, jobs>>

\* JobCompleted is sent before the runner is started.
Wrong_Report(v) ==
  /\ GuestGoes(v, {"agent", "finished"}, IF guest[v] = "agent" THEN "agent" ELSE "reported")
  /\ told' = [told EXCEPT ![v] = reporting[v]]
  /\ UNCHANGED <<reporting, runner, jobs>>

\* JobCompleted, if there is a connection.
Report(v) ==
  /\ GuestGoes(v, {"finished"}, "reported")
  /\ told' = [told EXCEPT ![v] = reporting[v]]
  /\ UNCHANGED <<reporting, runner, jobs>>

\* reboot -f, 500 ms later: the host always asks for shutdown_on_exit.
Reboot(v) == Plain(v, {"reported"}, "off")

\* The kernel panics, vm_timeout_secs have passed or fc-runner shuts down.
VmStops(v) == guest[v] # "off" /\ Plain(v, {guest[v]}, "off")

\* The connection breaks; write errors are logged.
Disconnect(v) ==
  /\ reporting[v]
  /\ reporting' = [reporting EXCEPT ![v] = FALSE]
  /\ UNCHANGED <<config, hostVars, guest, told, runner, jobs>>

\* GitHub misses the heartbeat of a runner.
GoesOffline(v) ==
  /\ runner[v] \in {"online", "busy"} /\ guest[v] \notin {"listening", "job"}
  /\ runner' = [runner EXCEPT ![v] = "offline"]
  /\ UNCHANGED <<config, hostVars, guestVars, jobs>>

--------------------------------------------------------------------------------

TaskStep(v) ==
  \/ Launch(v) \/ RequestFails(v) \/ VmExits(v)
  \/ List(v) \/ ListFails(v) \/ Delete(v) \/ TaskEnds(v)

Agent(v) ==
  \/ AgentStarts(v) \/ NoMetadata(v) \/ RunJit(v) \/ RunRegistered(v) \/ RunFails(v)
  \/ Connect(v) \/ Report(v) \/ Reboot(v)

Idle == UNCHANGED vars /\ \A v \in Vms : task[v] = "done"

Next ==
  \/ Idle
  \/ \E v \in Vms :
       \/ TaskStep(v) \/ Agent(v)
       \/ PickJob(v) \/ JobEnds(v) \/ VmStops(v) \/ Disconnect(v) \/ GoesOffline(v)

Spec == Init /\ [][Next]_vars

(* Tasks and agents go on.  Neither jobs nor timeouts come by themselves.  *)
FairSpec == Spec /\ \A v \in Vms : WF_vars(TaskStep(v)) /\ WF_vars(Agent(v))

--------------------------------------------------------------------------------
(* Properties                                                              *)

(* "no shared state between jobs": the VM of an ephemeral runner runs at   *)
(* most one job, whatever is deleted and registered meanwhile.             *)
OneJobPerVm == ephemeral => \A v \in Vms : jobs[v] <= 1

(* A VM whose registration is gone (deleted by another task's offline scan *)
(* while it was booting, or used up by its job), or could not be made,     *)
(* ends by itself, so that its slot comes back and its job is taken up     *)
(* again long before vm_timeout_secs.                                      *)
Lost(v) ==
  \/ guest[v] \in {"configured", "listening"} /\ runner[v] = "none"
  \/ guest[v] = "finished"

LostVmEnds == \A v \in Vms : Lost(v) ~> task[v] \in {"ended", "deleting", "done"}

================================================================================
