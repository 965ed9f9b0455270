----------------------------- MODULE PanelHandlers -----------------------------
(***************************************************************************)
(* The goroutines that serve the admin panel and the clients of the Kiro   *)
(* CLI pool proxy: net/http runs every handler in one of its own, timers   *)
(* and the program's own loops run in others.  Each has one job, picked in *)
(* the initial state, and a label that says how far it has got with it.    *)
(*                                                                         *)
(* The modules of the panel's parts extend this one; a part's actions are  *)
(* the steps of the handlers whose job concerns it.                        *)
(***************************************************************************)
CONSTANTS
  Handlers,     \* goroutines
  NoHandler,    \* nobody: the holder of a free lock
  NoGrant       \* a handler that no login gave an account

ASSUME HandlersAssumption == NoHandler \notin Handlers

VARIABLES
  up,           \* the process runs
  job,          \* [op, id]: what a handler was called for, and with which argument
  at,           \* its next step
  then,         \* where it goes on once it has saved or published
  grant         \* the account a login gave it, until that is in the list

handlerVars == <<up, job, at, then, grant>>

Doing(g, op, label) == up /\ job[g].op = op /\ at[g] = label
Goto(g, label) == at' = [at EXCEPT ![g] = label]
Call(g, label, next) == Goto(g, label) /\ then' = [then EXCEPT ![g] = next]
Done(g) == at[g] = "done"
InProgress(g) == at[g] \notin {"arrived", "done"}
================================================================================
