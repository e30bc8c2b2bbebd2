----------------------------- MODULE MCRunnerRegistry -----------------------------
(***************************************************************************)
(* Two VMs whose runners are registered, used and deleted side by side.    *)
(***************************************************************************)
EXTENDS RunnerRegistry
================================================================================
