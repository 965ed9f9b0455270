------------------------------ MODULE AccountPool ------------------------------
(***************************************************************************)
(* The account pool of the Kiro CLI pool proxy and the request handlers    *)
(* that use it (projects/kiro-cli-pool-proxy: pool/pool.go, the retry      *)
(* loops of proxy/server.go and proxy/anthropic.go, and the parts of       *)
(* config/config.go and auth/refresh.go that they call).                   *)
(*                                                                         *)
(* Every client request runs in a goroutine of its own.  It selects an     *)
(* account (by the sticky binding of its conversation, or by rotation),    *)
(* refreshes that account's token if need be, forwards the request with    *)
(* the account's credential, and on an account-level failure cools the     *)
(* account down and tries another one.  The goroutines share the account   *)
(* list, the cooldown table, the sticky table and the rotation index; each *)
(* action below is what a goroutine does between two points where another  *)
(* one can interfere (one critical section, or one call upstream).  The    *)
(* scans of the list hold the pool's lock for reading but not the lock of  *)
(* the configuration, so they look at one slot a step.                     *)
(*                                                                         *)
(* Here the set of configured accounts does not change; AccountPoolChurn   *)
(* adds their removal and addition.                                        *)
(***************************************************************************)
EXTENDS Naturals, FiniteSets

CONSTANTS
  Accounts,       \* account IDs
  Requests,       \* request goroutines that may run at the same time
  Keys,           \* sticky keys (hashes of a conversation's text)
  NoKey,          \* a request without a sticky key
  NoId,           \* "no account"
  Cap,            \* slots of the account list (the array behind cfg.Accounts)
  ConfigOrder,    \* [1..Cap -> Accounts]: the list as it is loaded
  Strategy,       \* "round-robin" or "smart"
  Kinds,          \* kinds of request that arrive
  Answers,        \* answers upstream may give: [status, quotaText]
  CooldownOf,     \* cooldown of a class of failure, in clock ticks
  StickyTTL,      \* life of a sticky binding, in clock ticks
  UsageLimit,     \* quota of an account in invocations, 0 when unknown
  Refreshable,    \* accounts with a refresh token
  Ageing,         \* accounts whose access token has an expiry
  Toggled,        \* accounts the operator disables and enables
  Polled,         \* accounts whose quota the operator re-reads
  Reports,        \* uses of an account that upstream may report
  Period          \* bound of the rotation index: a common multiple of 1..Cap

Slots == 1..Cap
AllKinds == {"chat", "control", "translated"}
Classes == {"rate", "quota", "auth", "server", "other"}
Statuses == {0, 200, 400, 401, 402, 403, 429, 500}
TokenStates == {"fresh", "stale", "expired"}

ASSUME IdsAssumption ==
  /\ NoKey \notin Keys
  /\ NoId \notin Accounts
  /\ IsFiniteSet(Requests)
ASSUME ListAssumption ==
  /\ Cap \in Nat \ {0}
  /\ ConfigOrder \in [Slots -> Accounts]
  /\ \A s, t \in Slots : ConfigOrder[s] = ConfigOrder[t] => s = t
ASSUME TimingAssumption ==
  /\ CooldownOf \in [Classes -> Nat \ {0}]
  /\ StickyTTL \in Nat \ {0}
  /\ Period \in Nat \ {0}
ASSUME QuotaAssumption ==
  /\ UsageLimit \in [Accounts -> Nat]
  /\ Reports \subseteq Nat
ASSUME InputAssumption ==
  /\ Answers \subseteq [status : Statuses, quotaText : BOOLEAN]
  /\ Kinds \subseteq AllKinds

VARIABLES
  accounts,    \* the slots of cfg.Accounts and what each one holds
  live,        \* how many of the slots are in the list: len(cfg.Accounts)
  cooldowns,   \* p.cooldowns: ticks left; an entry with 0 left is still there
  sticky,      \* p.sticky: the account bound to a key and the ticks left
  index,       \* p.index, modulo Period
  req,         \* the locals of each request goroutine
  reloading    \* an admin handler changed the list and has yet to call Reload

vars == <<accounts, live, cooldowns, sticky, index, req, reloading>>

(***************************************************************************)
(* The locals of a request goroutine.                                      *)
(*   sel    the account AccountForSticky looks at before it has a pointer  *)
(*   ptr    the slot the handler's *config.Account points to               *)
(*   cred   the account whose refresh or access token is in use upstream   *)
(*   todo   the slots a scan of the list has still to look at              *)
(*   found  the slots collectAvailable has put into its result             *)
(*   cool   the accounts that were cooling when collectAvailable began     *)
(* "search" and "collect" are the scans, "stuck" a second RLock that is    *)
(* not granted because a writer has queued up since the first.             *)
(***************************************************************************)
Pcs == {"idle", "sticky", "inspect", "cooling", "resolve", "search", "rotate", "collect",
        "stuck", "prepare", "refreshing", "send", "waiting", "bind", "streaming", "refused"}

\* The goroutine holds p.mu for reading from one step to the next.
ReadingPcs == {"search", "collect", "stuck"}

\* The handler has a *config.Account in its hands.
HoldingPcs == {"prepare", "refreshing", "send", "waiting", "bind", "streaming"}

Idle == [pc |-> "idle", kind |-> "control", key |-> NoKey, excluded |-> {},
         attempt |-> 0, limit |-> 3, sel |-> NoId, ptr |-> 1, cred |-> NoId,
         status |-> 0, todo |-> {}, found |-> {}, cool |-> {}]

SlotType == [id : Accounts, cred : Accounts, enabled : BOOLEAN, used : Nat,
             token : TokenStates]
RequestType ==
  [pc : Pcs, kind : AllKinds, key : Keys \cup {NoKey}, excluded : SUBSET Accounts,
   attempt : Nat, limit : 3..10, sel : Accounts \cup {NoId}, ptr : Slots,
   cred : Accounts \cup {NoId}, status : Statuses, todo : SUBSET Slots,
   found : SUBSET Slots, cool : SUBSET Accounts]

\* The state is well-typed: every entry of the shared tables names an account,
\* and every goroutine's pointer is a slot of the list's array.
TypeOK ==
  /\ accounts \in [Slots -> SlotType]
  /\ live \in 0..Cap
  /\ DOMAIN cooldowns \subseteq Accounts
  /\ \A id \in DOMAIN cooldowns : cooldowns[id] \in Nat
  /\ DOMAIN sticky \subseteq Keys
  /\ \A k \in DOMAIN sticky : sticky[k].account \in Accounts /\ sticky[k].ttl \in Nat
  /\ index \in 0..(Period - 1)
  /\ req \in [Requests -> RequestType]
  /\ reloading \in BOOLEAN

-----------------------------------------------------------------------------
(* What the code reads of an account and of the pool.                       *)

Live == 1..live
Present(id) == \E s \in Live : accounts[s].id = id

\* IsExpired(acc) && acc.RefreshToken == "".
Unusable(a) == a.token = "expired" /\ a.id \notin Refreshable
NeedsRefresh(a) == a.id \in Refreshable /\ a.token # "fresh"
QuotaSpent(a) == UsageLimit[a.id] > 0 /\ a.used >= UsageLimit[a.id]
CoolingNow(id) == id \in DOMAIN cooldowns /\ cooldowns[id] > 0
CoolingIds == {id \in DOMAIN cooldowns : CoolingNow(id)}

\* Mutants of Available: the cooldown, the quota or the excluded accounts forgotten.
AvailableWhileCooling(s, excluded, cool) ==
  /\ accounts[s].enabled /\ accounts[s].id \notin excluded
  /\ ~Unusable(accounts[s]) /\ ~QuotaSpent(accounts[s])
AvailableBeyondQuota(s, excluded, cool) ==
  /\ accounts[s].enabled /\ accounts[s].id \notin excluded \cup cool
  /\ ~Unusable(accounts[s])
AvailableThoughExcluded(s, excluded, cool) ==
  /\ accounts[s].enabled /\ accounts[s].id \notin cool
  /\ ~Unusable(accounts[s]) /\ ~QuotaSpent(accounts[s])

\* collectAvailable takes the account of slot s.
Available(s, excluded, cool) ==
  /\ accounts[s].enabled
  /\ accounts[s].id \notin excluded
  /\ accounts[s].id \notin cool
  /\ ~Unusable(accounts[s])
  /\ ~QuotaSpent(accounts[s])

CollectAvailable(excluded) == {s \in Live : Available(s, excluded, CoolingIds)}

\* Mutant: one attempt per available account, without the floor of three.
RetryLimitNoFloor == Cardinality(CollectAvailable({}))

RetryLimit ==
  LET n == Cardinality(CollectAvailable({}))
  IN IF n < 3 THEN 3 ELSE IF n > 10 THEN 10 ELSE n

\* pickMostRemainingQuota prefers s to t: an unknown quota is ample, a spent one 0.
RemainingAtLeast(s, t) ==
  LET limit(x) == UsageLimit[accounts[x].id]
      left(x)  == IF accounts[x].used < limit(x) THEN limit(x) - accounts[x].used ELSE 0
  IN limit(s) = 0 \/ (limit(t) # 0 /\ left(s) >= left(t))

\* The account GetNext returns, of the available ones.  Smart ties go to the least
\* recently used account; the time of last use is abstracted, so to either of them.
Chosen(available, s) ==
  IF Strategy = "smart"
  THEN \A t \in available : RemainingAtLeast(s, t)
  ELSE Cardinality({t \in available : t < s})
         = ((index + 1) % Period) % Cardinality(available)

Classify(status, quotaText) ==
  IF status = 429 THEN "rate"
  ELSE IF status = 402 \/ quotaText THEN "quota"
  ELSE IF status \in {401, 403} THEN "auth"
  ELSE IF status >= 500 THEN "server" ELSE "other"

\* Answers after which the handler tries another account; status 0 is no answer.
AccountFailure(status) == status \in {0, 401, 403, 429} \/ status >= 500

-----------------------------------------------------------------------------
(* The pool's lock.  Writers wait until nobody reads; readers wait for a    *)
(* writer that waits, which matters only where that writer waits for ever.  *)

CanWrite == \A r \in Requests : req[r].pc \notin ReadingPcs
CanRead == \A r \in Requests : req[r].pc # "stuck"

\* Another goroutine may be waiting in p.mu.Lock: to record an answer or a refresh that
\* failed, to bind a key, or in the Reload of an admin handler.
WriterWaits(r) ==
  reloading \/ \E t \in Requests \ {r} : req[t].pc \in {"refreshing", "waiting", "bind"}

-----------------------------------------------------------------------------
(* The pool's and the config's own operations.                              *)

RecordFailure(id, status, quotaText) ==
  cooldowns' = [x \in DOMAIN cooldowns \cup {id} |->
                  IF x = id THEN CooldownOf[Classify(status, quotaText)]
                            ELSE cooldowns[x]]

RecordSuccess(id) ==
  cooldowns' = [x \in DOMAIN cooldowns \ {id} |-> cooldowns[x]]

\* Bind the key; expired bindings of other keys are dropped on the way.
SetSticky(key, id) ==
  sticky' = [k \in {x \in DOMAIN sticky : sticky[x].ttl > 0} \cup {key} |->
               IF k = key THEN [account |-> id, ttl |-> StickyTTL] ELSE sticky[k]]

\* UpdateAccountToken: the live account with this ID gets the token of cred.
WithToken(list, id, cred) ==
  [s \in Slots |-> IF s \in Live /\ list[s].id = id
                   THEN [list[s] EXCEPT !.cred = cred, !.token = "fresh"]
                   ELSE list[s]]

\* UpdateQuotaCurrentDelta(id, 1); RecordUsage touches only counters that nothing reads.
WithOneMoreUse(id) ==
  [s \in Slots |-> IF s \in Live /\ accounts[s].id = id /\ UsageLimit[id] > 0
                   THEN [accounts[s] EXCEPT !.used = @ + 1]
                   ELSE accounts[s]]

-----------------------------------------------------------------------------
(* The retry loop of one request.                                           *)

\* Where an iteration of the loop starts: AccountForSticky or GetNext.
Select(key) == IF key = NoKey THEN "rotate" ELSE "sticky"

\* Mutant of TryAnother: the loop counts the accounts it has excluded, not its rounds.
TryAnotherPerAccount(r) ==
  LET q == req[r]
      excluded == q.excluded \cup {accounts[q.ptr].id}
  IN
  req' = [req EXCEPT ![r] =
    [q EXCEPT !.pc = IF Cardinality(excluded) < q.limit THEN Select(q.key) ELSE "refused",
              !.excluded = excluded, !.attempt = Cardinality(excluded),
              !.sel = NoId, !.cred = NoId]]

\* `continue`: the account is excluded and the loop goes round, or is over.
TryAnother(r) ==
  LET q == req[r] IN
  req' = [req EXCEPT ![r] =
    [q EXCEPT !.pc = IF q.attempt + 1 < q.limit THEN Select(q.key) ELSE "refused",
              !.excluded = @ \cup {accounts[q.ptr].id},
              !.attempt = @ + 1, !.sel = NoId, !.cred = NoId]]

\* A request has passed the API key check and enters the loop.  Control calls
\* have no sticky key; a chat has one when its text is not empty.
Begin(r, kind, key) ==
  /\ req[r].pc = "idle"
  /\ CanRead
  /\ kind = "control" => key = NoKey
  /\ req' = [req EXCEPT ![r] = [Idle EXCEPT !.pc = Select(key), !.kind = kind,
                                          !.key = key, !.limit = RetryLimit]]
  /\ UNCHANGED <<accounts, live, cooldowns, sticky, index, reloading>>

\* A selection function falls through to GetNext.
Rotate(r) == req' = [req EXCEPT ![r] = [@ EXCEPT !.pc = "rotate", !.sel = NoId]]

\* Mutant of StickyLookup: the binding is followed whatever was excluded.
StickyLookupAnyway(r) ==
  LET k == req[r].key IN
  /\ req[r].pc = "sticky" /\ CanRead
  /\ IF k \in DOMAIN sticky /\ sticky[k].ttl > 0
     THEN req' = [req EXCEPT ![r] = [@ EXCEPT !.pc = "inspect",
                                              !.sel = sticky[k].account]]
     ELSE Rotate(r)
  /\ UNCHANGED <<accounts, live, cooldowns, sticky, index, reloading>>

\* AccountForSticky, first lock: a fresh binding to an account not excluded yet.
StickyLookup(r) ==
  LET k == req[r].key
      valid == k \in DOMAIN sticky /\ sticky[k].ttl > 0
  IN
  /\ req[r].pc = "sticky"
  /\ CanRead
  /\ IF valid /\ sticky[k].account \notin req[r].excluded
     THEN req' = [req EXCEPT ![r] = [@ EXCEPT !.pc = "inspect",
                                              !.sel = sticky[k].account]]
     ELSE Rotate(r)
  /\ UNCHANGED <<accounts, live, cooldowns, sticky, index, reloading>>

\* Mutant of StickyInspect: a token that needs a refresh is taken for an unusable one.
StickyInspectFresh(r) ==
  /\ req[r].pc = "inspect"
  /\ IF \E s \in Live : /\ accounts[s].id = req[r].sel
                        /\ accounts[s].enabled
                        /\ ~NeedsRefresh(accounts[s])
                        /\ ~QuotaSpent(accounts[s])
     THEN req' = [req EXCEPT ![r].pc = "cooling"]
     ELSE Rotate(r)
  /\ UNCHANGED <<accounts, live, cooldowns, sticky, index, reloading>>

\* GetAccountByID: a copy of the account decides on enabled, token and quota.
StickyInspect(r) ==
  /\ req[r].pc = "inspect"
  /\ IF \E s \in Live : /\ accounts[s].id = req[r].sel
                        /\ accounts[s].enabled
                        /\ ~Unusable(accounts[s])
                        /\ ~QuotaSpent(accounts[s])
     THEN req' = [req EXCEPT ![r].pc = "cooling"]
     ELSE Rotate(r)
  /\ UNCHANGED <<accounts, live, cooldowns, sticky, index, reloading>>

\* Any entry of the cooldown table counts, also one whose time is over.
StickyCooling(r) ==
  /\ req[r].pc = "cooling"
  /\ CanRead
  /\ IF req[r].sel \in DOMAIN cooldowns
     THEN Rotate(r)
     ELSE req' = [req EXCEPT ![r].pc = "resolve"]
  /\ UNCHANGED <<accounts, live, cooldowns, sticky, index, reloading>>

\* The loop over the list takes its length when it begins.
StartSearch(r) ==
  /\ req[r].pc = "resolve"
  /\ CanRead
  /\ req' = [req EXCEPT ![r] = [@ EXCEPT !.pc = "search", !.todo = Live]]
  /\ UNCHANGED <<accounts, live, cooldowns, sticky, index, reloading>>

\* The slot a scan looks at next.
First(todo, s) == s \in todo /\ \A t \in todo : s <= t

\* Indexing behind the end of the list, which has become shorter, panics: net/http ends
\* the request, and the deferred RUnlock calls run.
ScanPanics(r) ==
  /\ req[r].pc \in {"search", "collect"}
  /\ \E s \in req[r].todo : First(req[r].todo, s) /\ s \notin Live
  /\ req' = [req EXCEPT ![r] = Idle]
  /\ UNCHANGED <<accounts, live, cooldowns, sticky, index, reloading>>

\* AccountForSticky looks for the account it has chosen: a pointer to the slot that
\* holds it now.
SearchSlot(r) ==
  LET q == req[r] IN
  /\ q.pc = "search"
  /\ \E s \in Live :
       /\ First(q.todo, s)
       /\ req' = [req EXCEPT ![r] =
            IF accounts[s].id = q.sel
            THEN [q EXCEPT !.pc = "prepare", !.sel = NoId, !.ptr = s, !.todo = {}]
            ELSE [q EXCEPT !.todo = @ \ {s}]]
  /\ UNCHANGED <<accounts, live, cooldowns, sticky, index, reloading>>

\* collectAvailable begins: the time and the length of the list are read.
Collecting(q) ==
  [q EXCEPT !.pc = "collect", !.sel = NoId, !.todo = Live, !.found = {},
            !.cool = CoolingIds]

\* The account is gone: GetNext is called with the read lock still held, and its own
\* RLock is not granted once a writer waits for the first one to be released.
SearchFails(r) ==
  LET q == req[r] IN
  /\ q.pc = "search"
  /\ q.todo = {}
  /\ \/ req' = [req EXCEPT ![r] = Collecting(q)]
     \/ WriterWaits(r) /\ req' = [req EXCEPT ![r].pc = "stuck"]
  /\ UNCHANGED <<accounts, live, cooldowns, sticky, index, reloading>>

StartCollect(r) ==
  /\ req[r].pc = "rotate"
  /\ CanRead
  /\ req' = [req EXCEPT ![r] = Collecting(@)]
  /\ UNCHANGED <<accounts, live, cooldowns, sticky, index, reloading>>

\* Mutant of CollectSlot: the slots behind the end of the list count as well.
CollectSlotOfArray(r) ==
  LET q == req[r] IN
  /\ q.pc = "collect"
  /\ \E s \in Slots :
       /\ First(q.todo, s)
       /\ req' = [req EXCEPT ![r] =
            [q EXCEPT !.todo = (q.todo \cup (Slots \ Live)) \ (1..s),
                      !.found = IF Available(s, q.excluded, q.cool) THEN @ \cup {s}
                                                                    ELSE @]]
  /\ UNCHANGED <<accounts, live, cooldowns, sticky, index, reloading>>

\* collectAvailable looks at one slot.
CollectSlot(r) ==
  LET q == req[r] IN
  /\ q.pc = "collect"
  /\ \E s \in Live :
       /\ First(q.todo, s)
       /\ req' = [req EXCEPT ![r] =
            [q EXCEPT !.todo = @ \ {s},
                      !.found = IF Available(s, q.excluded, q.cool) THEN @ \cup {s}
                                                                    ELSE @]]
  /\ UNCHANGED <<accounts, live, cooldowns, sticky, index, reloading>>

Scan(r) ==
  \/ StartSearch(r) \/ SearchSlot(r) \/ SearchFails(r)
  \/ StartCollect(r) \/ CollectSlot(r)
  \/ ScanPanics(r)

\* The lock is released and one of the slots that were found is chosen.
GetNext(r) ==
  LET q == req[r] IN
  /\ q.pc = "collect"
  /\ q.todo = {}
  /\ \E s \in q.found :
       /\ Chosen(q.found, s)
       /\ req' = [req EXCEPT ![r] = [q EXCEPT !.pc = "prepare", !.ptr = s, !.found = {},
                                              !.cool = {}]]
  /\ index' = IF Strategy = "smart" THEN index ELSE (index + 1) % Period
  /\ UNCHANGED <<accounts, live, cooldowns, sticky, reloading>>

\* "no available accounts in pool"
NoneAvailable(r) ==
  /\ req[r].pc = "collect"
  /\ req[r].todo = {}
  /\ req[r].found = {}
  /\ req' = [req EXCEPT ![r] = [@ EXCEPT !.pc = "refused", !.cool = {}]]
  /\ UNCHANGED <<accounts, live, cooldowns, sticky, index, reloading>>

\* RefreshToken is called; the refresh token of the account is read and sent.
StartRefresh(r) ==
  LET a == accounts[req[r].ptr] IN
  /\ req[r].pc = "prepare"
  /\ NeedsRefresh(a)
  /\ req' = [req EXCEPT ![r] = [@ EXCEPT !.pc = "refreshing", !.cred = a.cred]]
  /\ UNCHANGED <<accounts, live, cooldowns, sticky, index, reloading>>

\* applyResult writes through the pointer, UpdateAccountToken by the ID found there.
RefreshOk(r) ==
  LET q == req[r]
      applied == [accounts EXCEPT ![q.ptr].cred = q.cred, ![q.ptr].token = "fresh"]
  IN
  /\ q.pc = "refreshing"
  /\ accounts' = WithToken(applied, accounts[q.ptr].id, q.cred)
  /\ req' = [req EXCEPT ![r] = [@ EXCEPT !.pc = "send", !.cred = NoId]]
  /\ UNCHANGED <<live, cooldowns, sticky, index, reloading>>

RefreshFail(r) ==
  /\ req[r].pc = "refreshing"
  /\ CanWrite
  /\ RecordFailure(accounts[req[r].ptr].id, 401, FALSE)
  /\ TryAnother(r)
  /\ UNCHANGED <<accounts, live, sticky, index, reloading>>

\* The request is about to go upstream: no refresh was needed, or it is done.
ReadyToSend(r) ==
  \/ req[r].pc = "send"
  \/ req[r].pc = "prepare" /\ ~NeedsRefresh(accounts[req[r].ptr])

\* The account's access token is read and the request goes upstream.
Send(r) ==
  /\ ReadyToSend(r)
  /\ req' = [req EXCEPT ![r] = [@ EXCEPT !.pc = "waiting",
                                          !.cred = accounts[req[r].ptr].cred]]
  /\ UNCHANGED <<accounts, live, cooldowns, sticky, index, reloading>>

\* The upstream request cannot be built: the handler ends with an error.
BuildFails(r) ==
  /\ ReadyToSend(r)
  /\ req' = [req EXCEPT ![r] = Idle]
  /\ UNCHANGED <<accounts, live, cooldowns, sticky, index, reloading>>

\* An account-level failure: a status of that kind, or no answer at all.
AnswerFailure(r, answer) ==
  /\ req[r].pc = "waiting"
  /\ AccountFailure(answer.status)
  /\ CanWrite
  /\ RecordFailure(accounts[req[r].ptr].id, answer.status, answer.quotaText)
  /\ TryAnother(r)
  /\ UNCHANGED <<accounts, live, sticky, index, reloading>>

\* Any other answer is the account's success and goes to the client.
AnswerSuccess(r, answer) ==
  /\ req[r].pc = "waiting"
  /\ ~AccountFailure(answer.status)
  /\ CanWrite
  /\ RecordSuccess(accounts[req[r].ptr].id)
  /\ req' = [req EXCEPT ![r] =
       [@ EXCEPT !.pc = IF req[r].key = NoKey THEN "streaming" ELSE "bind",
                 !.status = answer.status]]
  /\ UNCHANGED <<accounts, live, sticky, index, reloading>>

Bind(r) ==
  /\ req[r].pc = "bind"
  /\ CanWrite
  /\ SetSticky(req[r].key, accounts[req[r].ptr].id)
  /\ req' = [req EXCEPT ![r].pc = "streaming"]
  /\ UNCHANGED <<accounts, live, cooldowns, index, reloading>>

\* A chat is counted whatever the answer was, a translated one only when it was 200.
Counted(q) == q.kind = "chat" \/ (q.kind = "translated" /\ q.status = 200)

\* The body has been copied, or the copy broke off; the turn is counted.
Finish(r) ==
  /\ req[r].pc = "streaming"
  /\ accounts' = IF Counted(req[r]) THEN WithOneMoreUse(accounts[req[r].ptr].id)
                                    ELSE accounts
  /\ req' = [req EXCEPT ![r] = Idle]
  /\ UNCHANGED <<live, cooldowns, sticky, index, reloading>>

\* The refusal has been written; another request may use the place in Requests.
Return(r) ==
  /\ req[r].pc = "refused"
  /\ req' = [req EXCEPT ![r] = Idle]
  /\ UNCHANGED <<accounts, live, cooldowns, sticky, index, reloading>>

-----------------------------------------------------------------------------
(* Time, token refresh in the background, and the operator.                 *)

\* One tick of the clock, for every cooldown and every sticky binding at once.
Tick ==
  /\ \/ \E id \in DOMAIN cooldowns : cooldowns[id] > 0
     \/ \E k \in DOMAIN sticky : sticky[k].ttl > 0
  /\ cooldowns' = [id \in DOMAIN cooldowns |->
                     IF cooldowns[id] > 0 THEN cooldowns[id] - 1 ELSE 0]
  /\ sticky' = [k \in DOMAIN sticky |->
                  IF sticky[k].ttl > 0 THEN [sticky[k] EXCEPT !.ttl = @ - 1]
                                       ELSE sticky[k]]
  /\ UNCHANGED <<accounts, live, index, req, reloading>>

\* An access token comes within refreshSkew of its expiry, then expires.
AgeToken(s) ==
  /\ accounts[s].id \in Ageing
  /\ accounts[s].token # "expired"
  /\ accounts' = [accounts EXCEPT ![s].token = IF @ = "fresh" THEN "stale" ELSE "expired"]
  /\ UNCHANGED <<live, cooldowns, sticky, index, req, reloading>>

\* The background ticker (or prepareAccount, for an operator) refreshes a token.
BackgroundRefresh(s) ==
  /\ s \in Live
  /\ accounts[s].enabled
  /\ NeedsRefresh(accounts[s])
  /\ accounts' = [accounts EXCEPT ![s].token = "fresh"]
  /\ UNCHANGED <<live, cooldowns, sticky, index, req, reloading>>

\* apiToggleAccount: the flag is set and saved; Reload follows.
Toggle(s) ==
  /\ ~reloading
  /\ s \in Live
  /\ accounts[s].id \in Toggled
  /\ accounts' = [accounts EXCEPT ![s].enabled = ~@]
  /\ reloading' = TRUE
  /\ UNCHANGED <<live, cooldowns, sticky, index, req>>

\* apiRefreshQuota: upstream's own count replaces ours, whatever it is: ours may have
\* counted turns upstream does not know of, or not yet turns it does, and the count may
\* be beyond the limit.  Upstream reports the same limit as before.  Reload follows.
RefreshQuota(s, current) ==
  /\ ~reloading
  /\ s \in Live
  /\ accounts[s].id \in Polled
  /\ UsageLimit[accounts[s].id] > 0
  /\ accounts' = [accounts EXCEPT ![s].used = current]
  /\ reloading' = TRUE
  /\ UNCHANGED <<live, cooldowns, sticky, index, req>>

\* Forget the cooldowns and the bindings of accounts that are not in the list.
Reload ==
  /\ reloading
  /\ CanWrite
  /\ cooldowns' = [id \in {x \in DOMAIN cooldowns : Present(x)} |-> cooldowns[id]]
  /\ sticky' = [k \in {x \in DOMAIN sticky : Present(sticky[x].account)} |-> sticky[k]]
  /\ reloading' = FALSE
  /\ UNCHANGED <<accounts, live, index, req>>

-----------------------------------------------------------------------------
\* The list as it is loaded.  No cooldowns and no bindings survive a restart; the
\* flags, counts and tokens a file may hold are those the actions below lead to.
Init ==
  /\ accounts = [s \in Slots |-> [id |-> ConfigOrder[s], cred |-> ConfigOrder[s],
                                  enabled |-> TRUE, used |-> 0, token |-> "fresh"]]
  /\ live = Cap
  /\ cooldowns = [id \in {} |-> 0]
  /\ sticky = [k \in {} |-> [account |-> NoId, ttl |-> 0]]
  /\ index = 0
  /\ req = [r \in Requests |-> Idle]
  /\ reloading = FALSE

\* What a request does in the loop by itself or within the time limit of the proxy's
\* client.  Set apart are the end of a refresh, whose client has no time limit, and of
\* a stream: the server has no write timeout, so a client that stops reading keeps it open.
Answering(r) ==
  \/ StickyLookup(r) \/ StickyInspect(r) \/ StickyCooling(r)
  \/ Scan(r) \/ GetNext(r) \/ NoneAvailable(r)
  \/ StartRefresh(r) \/ Send(r) \/ BuildFails(r) \/ Bind(r)
  \/ \E answer \in Answers : AnswerFailure(r, answer) \/ AnswerSuccess(r, answer)

RequestStep(r) ==
  \/ \E kind \in Kinds, key \in Keys \cup {NoKey} : Begin(r, kind, key)
  \/ Answering(r)
  \/ RefreshOk(r)
  \/ RefreshFail(r)
  \/ Finish(r)
  \/ Return(r)

Environment ==
  \/ Tick
  \/ Reload
  \/ \E s \in Slots :
       \/ AgeToken(s) \/ BackgroundRefresh(s) \/ Toggle(s)
       \/ \E current \in Reports : RefreshQuota(s, current)

Next == (\E r \in Requests : RequestStep(r)) \/ Environment

Spec == Init /\ [][Next]_vars

-----------------------------------------------------------------------------
(* Properties.                                                              *)

\* A request never works with an account it has failed with before, whatever others do
\* to the binding of its key or to the account's cooldown in the meantime: both
\* selection paths of the retry loops heed `excluded`.
NeverRetriesFailed ==
  \A r \in Requests : req[r].pc \in HoldingPcs => accounts[req[r].ptr].id \notin req[r].excluded

\* pool.go:40-42: AccountForSticky returns the bound account when the binding is fresh
\* "and the account is still usable"; sticky_test.go:89 "Cooldown expiry restores the
\* binding."  So an account GetNext could return is not passed over.
StickyRestored ==
  [][\A r \in Requests :
       req[r].pc = "cooling" /\ req'[r].pc = "rotate" =>
         \A s \in CollectAvailable(req[r].excluded) : accounts[s].id # req[r].sel]_vars

\* refresh.go:70: "RefreshToken refreshes the access token for the given account."
\* So the token in an account's slot is that account's: as long as no account is removed
\* (AccountPoolChurn removes them).
TokenOfItsAccount ==
  \A s \in Live : accounts[s].cred = accounts[s].id

=============================================================================
