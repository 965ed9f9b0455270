-------------------------- MODULE AccountPoolHistory --------------------------
(***************************************************************************)
(* AccountPool with history variables, for the properties of the pool that *)
(* relate a step to what has happened since an earlier one.  The history   *)
(* only watches: it restricts no step of the pool.                         *)
(***************************************************************************)
EXTENDS AccountPool

VARIABLES
  hits,      \* requests sent with an account since it began to cool, while it cools
  steady,    \* accounts that were available all the time since the request began
  anchor,    \* the account a request's conversation is bound to, as long as that
             \* binding and the account have been good since the request began
  overdrawn  \* turns counted on a slot's account since its quota is spent

hvars == <<vars, hits, steady, anchor, overdrawn>>

AvailableIds == {accounts[s].id : s \in CollectAvailable({})}

\* Accounts either path can select: available, and no leftover cooldown entry.
FirmIds == AvailableIds \ DOMAIN cooldowns

FreshBinding(table, key) ==
  IF key \in DOMAIN table /\ table[key].ttl > 0 THEN table[key].account ELSE NoId

SentWith(id) ==
  \E r \in Requests : /\ req[r].pc \in {"prepare", "send"} /\ req'[r].pc = "waiting"
                      /\ accounts[req[r].ptr].id = id

Begins(r) == req[r].pc = "idle" /\ req'[r].pc # "idle"

\* Selecting: the request has not got an account yet.
SelectingPcs == {"sticky", "inspect", "cooling", "resolve", "search", "rotate", "collect"}

\* A turn ends, and is counted on the account of slot s.
TurnCounted(s) ==
  /\ accounts'[s].used > accounts[s].used
  /\ \E r \in Requests : req[r].pc = "streaming" /\ req'[r].pc = "idle"

HistoryInit ==
  /\ Init
  /\ hits = [id \in Accounts |-> 0]
  /\ steady = [r \in Requests |-> {}]
  /\ anchor = [r \in Requests |-> NoId]
  /\ overdrawn = [s \in Slots |-> 0]

HistoryStep ==
  /\ hits' = [id \in Accounts |->
       IF ~(CoolingNow(id) /\ CoolingNow(id)') THEN 0
       ELSE IF SentWith(id) THEN hits[id] + 1 ELSE hits[id]]
  /\ steady' = LET now == AvailableIds' IN [r \in Requests |->
       IF req'[r].pc = "idle" THEN {}
       ELSE IF Begins(r) THEN AvailableIds ELSE steady[r] \cap now]
  /\ anchor' = [r \in Requests |->
       LET home == IF Begins(r) THEN FreshBinding(sticky, req'[r].key) ELSE anchor[r]
           held == req'[r].pc = "sticky" => FreshBinding(sticky', req'[r].key) = home
       IN IF /\ req'[r].pc \in SelectingPcs /\ req'[r].attempt = 0
             /\ held /\ home \in FirmIds'
          THEN home ELSE NoId]
  /\ overdrawn' = [s \in Slots |->
       IF ~(QuotaSpent(accounts[s]) /\ QuotaSpent(accounts[s])') THEN 0
       ELSE IF TurnCounted(s) THEN overdrawn[s] + 1 ELSE overdrawn[s]]

HistorySpec == HistoryInit /\ [][Next /\ HistoryStep]_hvars

-----------------------------------------------------------------------------
\* The quota check and the count are far apart, and a poll may find the quota spent at any
\* time, so turns are counted on an account beyond its quota; but never more than one for
\* each request goroutine until the quota is seen to be free again (collectAvailable and
\* AccountForSticky against UpdateQuotaCurrentDelta and UpdateQuota).
QuotaOvershoot ==
  \A s \in Slots : overdrawn[s] <= Cardinality(Requests)

\* A failing account is not hammered: from the moment it begins to cool until it is out
\* of cooldown, at most the other requests that had already selected it go upstream
\* with it (RecordFailure against collectAvailable and AccountForSticky).
HammerBound ==
  \A id \in Accounts : hits[id] <= Cardinality(Requests) - 1

\* With up to three accounts, a request is refused only if no account was available
\* from its first moment to its last: an account that stays usable all along is always
\* tried, and serves the request or fails it (RetryLimit, the two ways out of the loop).
RefusedOnlyWhenNoneStayed ==
  \A r \in Requests : req[r].pc = "refused" => steady[r] = {}

\* pool.go:40-44: a conversation stays on the account it is bound to.  While the binding
\* is fresh and its account usable, with no leftover cooldown entry, the request's first
\* choice is that account: it never gets to rotation.
StickyAffinity ==
  \A r \in Requests : anchor[r] # NoId => req[r].pc \notin {"rotate", "collect"}

=============================================================================
