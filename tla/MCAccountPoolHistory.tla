------------------------- MODULE MCAccountPoolHistory -------------------------
(***************************************************************************)
(* Instances of AccountPoolHistory for TLC: the constants of MCAccountPool. *)
(***************************************************************************)
EXTENDS AccountPoolHistory, MCAccountPool

=============================================================================
