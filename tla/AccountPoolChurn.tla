--------------------------- MODULE AccountPoolChurn ---------------------------
(***************************************************************************)
(* AccountPool with accounts that are removed and added while requests     *)
(* run (the DELETE route of proxy/admin.go, apiAddAccount, and the Config  *)
(* methods they call).                                                     *)
(*                                                                         *)
(* A request keeps a pointer into the array behind cfg.Accounts from the   *)
(* moment it selects an account to the moment it counts the turn.          *)
(* RemoveAccount shifts the later accounts of that array down in place, so *)
(* the pointer then denotes another account, or the copy of the last one   *)
(* that is left behind the list's end, where AddAccount puts the next one. *)
(* The scans of a request see the list move while they look at it slot by  *)
(* slot.  Growing the array beyond Cap (a new array, and pointers that     *)
(* stay with the old one) is not modelled.                                 *)
(***************************************************************************)
EXTENDS AccountPool

CONSTANT Removable     \* accounts the operator removes and adds again

ASSUME RemovableAssumption == Removable \subseteq Accounts

\* An account as the operator enters it.
Enrolled(id) ==
  [id |-> id, cred |-> id, enabled |-> TRUE, used |-> 0, token |-> "fresh"]

\* Mutant of RemoveAccount: the accounts move down and the list keeps its length.
RemoveWithoutTruncating(id) ==
  /\ ~reloading
  /\ \E i \in Live :
       /\ accounts[i].id = id
       /\ accounts' = [s \in Slots |-> IF s \in i..(live - 1) THEN accounts[s + 1]
                                                             ELSE accounts[s]]
  /\ reloading' = TRUE
  /\ UNCHANGED <<live, cooldowns, sticky, index, req>>

\* DELETE accounts/{id}: the accounts behind it move down one slot; Reload follows.
RemoveAccount(id) ==
  /\ ~reloading
  /\ \E i \in Live :
       /\ accounts[i].id = id
       /\ accounts' = [s \in Slots |-> IF s \in i..(live - 1) THEN accounts[s + 1]
                                                             ELSE accounts[s]]
  /\ live' = live - 1
  /\ reloading' = TRUE
  /\ UNCHANGED <<cooldowns, sticky, index, req>>

\* apiAddAccount: replace the account with this ID, or append; Reload follows.
AddAccount(id) ==
  /\ ~reloading
  /\ \/ \E s \in Live :
          /\ accounts[s].id = id
          /\ accounts' = [accounts EXCEPT ![s] = Enrolled(id)]
          /\ live' = live
     \/ /\ ~Present(id)
        /\ live < Cap
        /\ accounts' = [accounts EXCEPT ![live + 1] = Enrolled(id)]
        /\ live' = live + 1
  /\ reloading' = TRUE
  /\ UNCHANGED <<cooldowns, sticky, index, req>>

\* apiTestAccount changes nothing but the tokens (BackgroundRefresh), and reloads.
TestAccount(id) ==
  /\ ~reloading
  /\ Present(id)
  /\ reloading' = TRUE
  /\ UNCHANGED <<accounts, live, cooldowns, sticky, index, req>>

ChurnNext ==
  \/ Next
  \/ \E id \in Removable : RemoveAccount(id) \/ AddAccount(id) \/ TestAccount(id)

ChurnSpec == Init /\ [][ChurnNext]_vars

\* The proxy's client gives up after a minute without the header of an answer and after
\* ten minutes in all; the rest of Answering is computation.
FairChurnSpec == ChurnSpec /\ \A r \in Requests : WF_vars(Answering(r))

-----------------------------------------------------------------------------
\* However removals and additions interleave, an ID is in the list at most once, so that
\* the loops of config.go, which stop at the first match, all mean the same account.
LiveIdsDistinct ==
  \A s, t \in Live : accounts[s].id = accounts[t].id => s = t

\* Every request that enters the loop is answered or refused, unless it waits forever for
\* a refresh: neither failing refreshes nor failing accounts keep it going round, nor a
\* list that changes under it: the scan that ends AccountForSticky falls back to rotation
\* if the account is gone by then, and an account excluded twice uses up an attempt.  The
\* other exception is the lock that FallsBackToRotation is about.
AnsweredUnderChurn ==
  \A r \in Requests :
    \/ <>[](req[r].pc = "refreshing")
    \/ <>[](req[r].pc = "stuck")
    \/ req[r].pc # "idle" ~> req[r].pc \in {"idle", "streaming", "refused"}

\* pool.go:40-42: AccountForSticky "returns the account bound to the sticky key when that
\* binding is fresh and the account is still usable; otherwise it falls back to normal
\* rotation."  So the search for the bound account comes to an end.
FallsBackToRotation ==
  \A r \in Requests : req[r].pc = "search" ~> req[r].pc \notin {"search", "stuck"}

=============================================================================
