-------------------------- MODULE MCAccountPoolChurn --------------------------
(***************************************************************************)
(* Instances of AccountPoolChurn for TLC: the constants of MCAccountPool.   *)
(***************************************************************************)
EXTENDS AccountPoolChurn, MCAccountPool

=============================================================================
