------------------------------ MODULE MCNamedPool ------------------------------
(***************************************************************************)
(* Two pools of three slots each share five, so the second pool gets two:  *)
(* fewer than its min_ready of three.                                      *)
(***************************************************************************)
EXTENDS NamedPool

CONSTANTS ra, rb

MCPoolSizes == <<3, 3>>
MCRepos == <<ra, rb>>
================================================================================
