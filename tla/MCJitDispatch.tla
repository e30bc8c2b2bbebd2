----------------------------- MODULE MCJitDispatch -----------------------------
(***************************************************************************)
(* A small instance of JitDispatch: one repository with a run of two jobs, *)
(* three tasks that compete for two slots.                                 *)
(***************************************************************************)
EXTENDS JitDispatch

CONSTANTS r1, w1, j1, j2

MCRepoOf == [w \in Runs |-> r1]
MCRunOf == [j \in Jobs |-> w1]
MCLabelsOf == [j \in Jobs |-> {"fc", "linux"}]
MCRunnerLabels == {"fc"}
================================================================================
