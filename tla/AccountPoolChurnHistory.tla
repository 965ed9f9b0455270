------------------------ MODULE AccountPoolChurnHistory ------------------------
(***************************************************************************)
(* AccountPoolChurn with a history of the list, for what a removal may     *)
(* still mean to a request.  The history only watches.                     *)
(***************************************************************************)
EXTENDS AccountPoolChurn

VARIABLE listed    \* IDs that have been in the list since a request began its scan

lvars == <<vars, listed>>

LiveIds == {accounts[s].id : s \in Live}

\* A request that has yet to scan the list, or is done with what it took from it.
UnlistedPcs == {"idle", "sticky", "inspect", "cooling", "resolve", "rotate", "refused"}

ListedInit == Init /\ listed = [r \in Requests |-> {}]

ListedStep ==
  listed' = [r \in Requests |->
               IF req'[r].pc \in UnlistedPcs THEN {} ELSE listed[r] \cup LiveIds']

ListedSpec == ListedInit /\ [][ChurnNext /\ ListedStep]_lvars

FairListedSpec == ListedSpec /\ \A r \in Requests : WF_vars(Answering(r))

-----------------------------------------------------------------------------
\* An account removed before a request began to look at the list is not used for that
\* request, not even when another removal moves accounts under its pointer: nobody gets
\* at the copies of removed accounts that stay in the array behind the list's end
\* (the two scans against the in-place shift of RemoveAccount).
WorksWithListed ==
  \A r \in Requests : req[r].pc \in HoldingPcs => accounts[req[r].ptr].id \in listed[r]

=============================================================================
