------------------------------ MODULE ConfigFile ------------------------------
(***************************************************************************)
(* The configuration in memory, its read/write lock, and the file it is    *)
(* saved to (config/config.go, main.go).                                   *)
(*                                                                         *)
(* Every change of the configuration takes the write lock in one step.     *)
(* Save holds the read lock while it marshals, truncates and rewrites the  *)
(* file in place, so saves may overlap each other but no change; what an   *)
(* overlap does to the file depends on whether the two write the same.     *)
(* Token refreshes write through a pointer into the configuration and take *)
(* no lock.  Every caller ignores the error Save returns.                  *)
(***************************************************************************)
EXTENDS PanelHandlers, Naturals

CONSTANTS
  Empty, Torn,       \* truncated, or the start of one write at most; parts of two
  NoSnapshot,
  Failing,           \* handlers whose writes may fail
  Changeme           \* DefaultAdminPassword

VARIABLES
  mem,               \* [accounts, keys, password, models, version]; version counts changes
  disk,              \* what the file holds: a configuration, Empty or Torn
  snapshot,          \* the bytes a handler marshaled and has yet to write
  stamp,             \* the version of a handler's latest change
  acked,             \* the latest change whose handler has come back from Save
  unsaved,           \* the latest write that ended failed
  straddled          \* history: a pointer was written through while somebody saved

configVars == <<mem, disk, snapshot, stamp, acked, unsaved, straddled>>

Saving == {"truncate", "write"}      \* Save holds the read lock

\* Mutant of LockFree: Save gives the lock back once it has marshaled.
LockReleasedEarly == \A g \in Handlers : at[g] # "truncate"
LockFree == \A g \in Handlers : at[g] \notin Saving
Readable(file) == file \notin {Empty, Torn}

\* A setter of Config: one field under the write lock.
Store(g, field, value) ==
  /\ LockFree
  /\ IF value = mem[field]
     THEN UNCHANGED <<mem, stamp>>
     ELSE /\ mem' = [mem EXCEPT ![field] = value, !.version = @ + 1]
          /\ stamp' = [stamp EXCEPT ![g] = mem.version + 1]
  /\ UNCHANGED <<disk, snapshot, acked, unsaved, straddled>>

\* Save: marshal under the read lock ...
Marshal(g) ==
  /\ up /\ at[g] = "save"
  /\ snapshot' = [snapshot EXCEPT ![g] = mem]
  /\ Goto(g, "truncate")
  /\ UNCHANGED <<mem, disk, stamp, acked, unsaved, straddled, up, job, then, grant>>

\* ... open the file with O_TRUNC ...
Truncate(g) ==
  /\ up /\ at[g] = "truncate"
  /\ disk' = Empty
  /\ Goto(g, "write")
  /\ UNCHANGED <<mem, snapshot, stamp, acked, unsaved, straddled, up, job, then, grant>>

\* ... write from its start, over what another save may have written there, and return
\* whether or not that went well.
Write(g) ==
  /\ up /\ at[g] = "write"
  /\ LET clean == disk \in {Empty, snapshot[g]}
     IN  \/ /\ disk' \in IF clean THEN {snapshot[g]} ELSE {snapshot[g], Torn}
            /\ unsaved' = FALSE
         \/ /\ g \in Failing
            /\ disk' = IF clean THEN disk ELSE Torn
            /\ unsaved' = TRUE
  /\ snapshot' = [snapshot EXCEPT ![g] = NoSnapshot]
  /\ acked' = IF stamp[g] > acked THEN stamp[g] ELSE acked
  /\ Goto(g, then[g])
  /\ UNCHANGED <<mem, stamp, straddled, up, job, then, grant>>

\* applyResult: RefreshToken stores its tokens through the caller's pointer, which the
\* background refresher takes from the list itself.
PointerWrite(g) ==
  /\ Doing(g, "renew", "arrived")
  /\ mem' = [mem EXCEPT !.version = @ + 1]
  /\ stamp' = [stamp EXCEPT ![g] = mem.version + 1]
  /\ straddled' = (straddled \/ ~LockFree)
  /\ Goto(g, "renewed")
  /\ UNCHANGED <<disk, snapshot, acked, unsaved, up, job, then, grant>>

\* UpdateAccountToken stores the same tokens by ID, then the refresher saves.
StoreToken(g) ==
  /\ Doing(g, "renew", "renewed")
  /\ Store(g, "accounts", mem.accounts)
  /\ Call(g, "save", "done")
  /\ UNCHANGED <<up, job, grant>>

\* The minute's save of main, and the one its signal handler makes once it has closed
\* the HTTP server.
SaveCalled(g) ==
  /\ up /\ job[g].op \in {"ticker", "shutdown"} /\ at[g] = "arrived"
  /\ Call(g, "save", "done")
  /\ UNCHANGED <<configVars, up, job, grant>>

\* Closing the server makes ListenAndServe return, and main with it: the process ends
\* while the signal handler's save may still be under way.
MainReturns ==
  /\ up
  /\ \E g \in Handlers : job[g].op = "shutdown" /\ at[g] # "arrived"
  /\ up' = FALSE
  /\ UNCHANGED <<configVars, job, at, then, grant>>

\* The process is killed.
Crash(g) ==
  /\ Doing(g, "crash", "arrived")
  /\ up' = FALSE
  /\ Goto(g, "done")
  /\ UNCHANGED <<configVars, job, then, grant>>

\* Load, and the default password main stores and saves when the file has none: the
\* program does not start on a file it cannot parse.
LoadsAgain ==
  /\ ~up
  /\ \E g \in Handlers : job[g].op = "crash"
  /\ Readable(disk)
  /\ mem' = IF disk.password = "" THEN [disk EXCEPT !.password = Changeme, !.version = @ + 1]
                                  ELSE disk
  /\ disk' = mem'
  /\ up' = TRUE
  /\ at' = [g \in Handlers |-> IF at[g] = "arrived" THEN "arrived" ELSE "done"]
  /\ snapshot' = [g \in Handlers |-> NoSnapshot]
  /\ grant' = [g \in Handlers |-> NoGrant]
  /\ UNCHANGED <<stamp, acked, unsaved, straddled, job, then>>

SaveStep(g) ==
  \/ Marshal(g) \/ Truncate(g) \/ Write(g) \/ PointerWrite(g) \/ StoreToken(g) \/ SaveCalled(g)

ConfigInit(config) ==
  /\ mem = config
  /\ disk = config
  /\ snapshot = [g \in Handlers |-> NoSnapshot]
  /\ stamp = [g \in Handlers |-> 0]
  /\ acked = 0
  /\ unsaved = FALSE
  /\ straddled = FALSE
-------------------------------------------------------------------------------
\* What a handler has reported as done is in the file: unless a save is between the
\* truncation and the write, or the last one failed, the file holds a whole
\* configuration with every change whose handler has come back from Save.  Overlapping
\* saves do not break that, because the read lock they hold until they have written
\* keeps changes out and so makes them write the same; a token written through a pointer
\* meanwhile takes that away.
AckedIsOnDisk ==
  ((\A g \in Handlers : at[g] # "write") /\ ~unsaved /\ ~straddled)
    => Readable(disk) /\ disk.version >= acked
===============================================================================
