----------------------------- MODULE MCCacheService -----------------------------
(***************************************************************************)
(* Two v1 clients of one key and a v2 client of another; and, for the      *)
(* finding, two v2 clients of one key.                                     *)
(***************************************************************************)
EXTENDS CacheService

CONSTANTS c1, c2, c3, k1, k2

MCKeyOf == [c \in Clients |-> IF c = c3 THEN k2 ELSE k1]
================================================================================
