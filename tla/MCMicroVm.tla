-------------------------------- MODULE MCMicroVm --------------------------------
(***************************************************************************)
(* Two VMs, side by side on two slots or one after the other on one.       *)
(***************************************************************************)
EXTENDS MicroVm
================================================================================
