-------------------------- MODULE RunnerRegistryProofs --------------------------
(***************************************************************************)
(* Theorems about RunnerRegistry, for every set of VMs.                    *)
(***************************************************************************)
EXTENDS RunnerRegistry, TLAPS

(* What a VM's runner may have been given so far: nothing before the VM     *)
(* boots, and after its first job an ephemeral runner never listens again. *)
JobDone == {"job", "finished", "reported", "off"}

History ==
  \A v \in Vms :
    /\ task[v] = "idle" => ~told[v] /\ jobs[v] = 0
    /\ ephemeral => jobs[v] = 0 \/ (jobs[v] = 1 /\ guest[v] \in JobDone)

(* The inductive invariant.                                                *)
IInv == TypeOK /\ History

LEMMA InitIInv == Init => IInv
  BY RegistryAssumption DEF Init, IInv, TypeOK, History, JobDone

\* Nothing happens.
LEMMA StutterIInv == IInv /\ UNCHANGED vars => IInv'
  BY DEF IInv, TypeOK, History, JobDone, vars, config, hostVars, guestVars

--------------------------------------------------------------------------------
(* The tasks                                                               *)

LEMMA TaskStepIInv ==
  ASSUME IInv, NEW v \in Vms, TaskStep(v)
  PROVE  IInv'
<1>. USE DEF IInv, TypeOK, History, JobDone, TaskGoes, config, hostVars, guestVars
<1>1. CASE Launch(v)
  BY <1>1 DEF Launch
<1>2. CASE RequestFails(v)
  BY <1>2 DEF RequestFails
<1>3. CASE VmExits(v)
  BY <1>3 DEF VmExits
<1>4. CASE List(v)
  <2>1. PICK page \in Page :
          listed' = [listed EXCEPT ![v] =
            IF ByName(v) THEN page \cap {v} ELSE {n \in page : runner[n] = "offline"}]
    BY <1>4 DEF List
  <2>2. page \subseteq Vms
    BY DEF Page
  <2>. QED  BY <1>4, <2>1, <2>2 DEF List
<1>5. CASE ListFails(v)
  BY <1>5 DEF ListFails
<1>6. CASE Delete(v)
  <2>1. PICK n \in listed[v], ok \in BOOLEAN :
          /\ listed' = [listed EXCEPT ![v] = @ \ {n}]
          /\ runner' = [runner EXCEPT ![n] = IF ok /\ @ # "busy" THEN "none" ELSE @]
    BY <1>6 DEF Delete
  <2>2. n \in Vms
    OBVIOUS
  <2>. QED  BY <1>6, <2>1, <2>2 DEF Delete
<1>7. CASE TaskEnds(v)
  BY <1>7 DEF TaskEnds
<1>. QED  BY <1>1, <1>2, <1>3, <1>4, <1>5, <1>6, <1>7 DEF TaskStep

--------------------------------------------------------------------------------
(* The guests and GitHub                                                   *)

LEMMA AgentIInv ==
  ASSUME IInv, NEW v \in Vms, Agent(v)
  PROVE  IInv'
<1>. USE DEF IInv, TypeOK, History, JobDone, GuestGoes, Plain, config, hostVars, guestVars
<1>1. CASE AgentStarts(v)
  BY <1>1 DEF AgentStarts
<1>2. CASE NoMetadata(v)
  BY <1>2 DEF NoMetadata
<1>3. CASE RunJit(v)
  BY <1>3 DEF RunJit
<1>4. CASE RunRegistered(v)
  BY <1>4 DEF RunRegistered
<1>5. CASE RunFails(v)
  BY <1>5 DEF RunFails
<1>6. CASE Connect(v)
  BY <1>6 DEF Connect
<1>7. CASE Report(v)
  BY <1>7 DEF Report
<1>8. CASE Reboot(v)
  BY <1>8 DEF Reboot
<1>. QED  BY <1>1, <1>2, <1>3, <1>4, <1>5, <1>6, <1>7, <1>8 DEF Agent

LEMMA ExternalIInv ==
  ASSUME IInv, NEW v \in Vms,
         PickJob(v) \/ JobEnds(v) \/ VmStops(v) \/ Disconnect(v) \/ GoesOffline(v)
  PROVE  IInv'
<1>. USE RegistryAssumption
     DEF IInv, TypeOK, History, JobDone, GuestGoes, Plain, config, hostVars, guestVars
<1>1. CASE PickJob(v)
  BY <1>1 DEF PickJob
<1>2. CASE JobEnds(v)
  BY <1>2 DEF JobEnds, is_ephemeral
<1>3. CASE VmStops(v)
  BY <1>3 DEF VmStops
<1>4. CASE Disconnect(v)
  BY <1>4 DEF Disconnect
<1>5. CASE GoesOffline(v)
  BY <1>5 DEF GoesOffline
<1>. QED  BY <1>1, <1>2, <1>3, <1>4, <1>5

--------------------------------------------------------------------------------
(* IInv is an invariant.                                                   *)
LEMMA Inductive == Spec => []IInv
<1>1. IInv /\ [Next]_vars => IInv'
  <2>. SUFFICES ASSUME IInv, [Next]_vars PROVE IInv'
    OBVIOUS
  <2>1. CASE Next
    BY <2>1, StutterIInv, TaskStepIInv, AgentIInv, ExternalIInv DEF Next, Idle
  <2>. QED  BY <2>1, StutterIInv
<1>. QED  BY <1>1, InitIInv, PTL DEF Spec

(* Every variable keeps its type: in particular no VM is up without its    *)
(* task waiting for it, a runner with a job is busy until the job ends, so *)
(* that GitHub refuses to delete it, and the host only hears of the end of *)
(* a job that has ended (run_with_reporting).                              *)
THEOREM TypeCorrect == Spec => []TypeOK
<1>1. IInv => TypeOK
  BY DEF IInv
<1>. QED  BY <1>1, Inductive, PTL

(* The VM of an ephemeral runner runs at most one job (run_runner_jit,     *)
(* run_runner_registered).                                                 *)
THEOREM OneJob == Spec => []OneJobPerVm
<1>1. IInv => OneJobPerVm
  BY DEF IInv, TypeOK, History, OneJobPerVm
<1>. QED  BY <1>1, Inductive, PTL
================================================================================
