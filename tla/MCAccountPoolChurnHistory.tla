---------------------- MODULE MCAccountPoolChurnHistory ----------------------
(***************************************************************************)
(* Instances of AccountPoolChurnHistory for TLC.                           *)
(***************************************************************************)
EXTENDS AccountPoolChurnHistory, MCAccountPool

=============================================================================
