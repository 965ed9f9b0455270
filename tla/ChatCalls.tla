------------------------------- MODULE ChatCalls -------------------------------
(***************************************************************************)
(* The chat calls of one Freebuff client: each runs in its caller's        *)
(* goroutine, under a context its caller may cancel.                       *)
(***************************************************************************)
CONSTANTS
  Calls

VARIABLES
  cancelled          \* calls whose context is cancelled
================================================================================
