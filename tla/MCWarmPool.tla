------------------------------- MODULE MCWarmPool -------------------------------
(***************************************************************************)
(* A warm pool with one standby and two slots.                             *)
(***************************************************************************)
EXTENDS WarmPool
================================================================================
