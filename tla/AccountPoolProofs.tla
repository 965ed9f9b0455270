--------------------------- MODULE AccountPoolProofs ---------------------------
(***************************************************************************)
(* Theorems about AccountPool for every number of accounts and requests,   *)
(* every quota, cooldown and strategy, with proofs for TLAPS.              *)
(***************************************************************************)
EXTENDS AccountPool, FiniteSetTheorems, TLAPS

-----------------------------------------------------------------------------
(* Lemmas about the operators of the model.                                 *)

\* The number of attempts is between three and ten, whatever is available.
LEMMA RetryLimitRange ==
  ASSUME TypeOK
  PROVE  RetryLimit \in 3..10
<1> DEFINE available == CollectAvailable({})
<1>1. live \in Nat /\ live <= Cap
  BY DEF TypeOK
<1>2. IsFiniteSet(1..live)
  BY <1>1, FS_Interval
<1>3. available \in SUBSET (1..live)
  BY DEF CollectAvailable, Live
<1>4. Cardinality(available) \in Nat
  <2>1. IsFiniteSet(available)
    BY <1>2, <1>3, FS_Subset
  <2> QED BY <2>1, FS_CardinalityType
<1> HIDE DEF available
<1>5. RetryLimit = LET n == Cardinality(available)
                   IN IF n < 3 THEN 3 ELSE IF n > 10 THEN 10 ELSE n
  BY DEF RetryLimit, available
<1> QED BY <1>4, <1>5

\* The class of a failure is one of the five.
LEMMA ClassifyType ==
  ASSUME NEW status, NEW quotaText
  PROVE  Classify(status, quotaText) \in Classes
BY DEF Classify, Classes

\* A cooldown that is recorded keeps the table well-typed.
LEMMA RecordFailureType ==
  ASSUME TypeOK, NEW id \in Accounts, NEW status, NEW quotaText,
         RecordFailure(id, status, quotaText)
  PROVE  /\ DOMAIN cooldowns' \subseteq Accounts
         /\ \A x \in DOMAIN cooldowns' : cooldowns'[x] \in Nat
<1>1. CooldownOf[Classify(status, quotaText)] \in Nat
  BY ClassifyType, TimingAssumption
<1> QED BY <1>1 DEF TypeOK, RecordFailure

\* A refreshed token leaves the list well-typed.
LEMMA WithTokenType ==
  ASSUME NEW list \in [Slots -> SlotType], NEW id, NEW cred \in Accounts
  PROVE  WithToken(list, id, cred) \in [Slots -> SlotType]
BY DEF WithToken, SlotType, TokenStates

\* A request whose program counter and selection change stays well-typed.
LEMMA RequestUpdateType ==
  ASSUME NEW q \in RequestType, NEW pc \in Pcs, NEW sel \in Accounts \cup {NoId},
         NEW ptr \in Slots, NEW cred \in Accounts \cup {NoId}
  PROVE  /\ [q EXCEPT !.pc = pc] \in RequestType
         /\ [q EXCEPT !.pc = pc, !.sel = sel] \in RequestType
         /\ [q EXCEPT !.pc = pc, !.cred = cred] \in RequestType
         /\ [q EXCEPT !.pc = pc, !.ptr = ptr] \in RequestType
         /\ [q EXCEPT !.pc = pc, !.sel = sel, !.ptr = ptr] \in RequestType
BY DEF RequestType

\* A step that changes only a request, to a well-typed one, keeps the state well-typed.
LEMMA RequestOnlyType ==
  ASSUME TypeOK, NEW r \in Requests, NEW q \in RequestType,
         req' = [req EXCEPT ![r] = q],
         UNCHANGED <<accounts, live, cooldowns, sticky, index, reloading>>
  PROVE  TypeOK'
<1>1. req' \in [Requests -> RequestType]
  BY DEF TypeOK
<1> QED BY <1>1 DEF TypeOK

\* Falling through to GetNext keeps the state well-typed.
LEMMA RotateType ==
  ASSUME TypeOK, NEW r \in Requests, Rotate(r),
         UNCHANGED <<accounts, live, cooldowns, sticky, index, reloading>>
  PROVE  TypeOK'
<1>1. req[r] \in RequestType
  BY DEF TypeOK
<1>2. [req[r] EXCEPT !.pc = "rotate", !.sel = NoId] \in RequestType
  BY <1>1 DEF RequestType, Pcs
<1> QED BY <1>2, RequestOnlyType DEF Rotate

\* Going round the loop, or out of it, keeps the request well-typed.
LEMMA TryAnotherType ==
  ASSUME TypeOK, NEW r \in Requests, TryAnother(r)
  PROVE  req' \in [Requests -> RequestType]
<1> DEFINE q == req[r]
           pc == IF q.attempt + 1 < q.limit THEN Select(q.key) ELSE "refused"
           next == [q EXCEPT !.pc = pc, !.excluded = @ \cup {accounts[q.ptr].id},
                             !.attempt = @ + 1, !.sel = NoId, !.cred = NoId]
<1>1. q \in RequestType /\ accounts[q.ptr].id \in Accounts
  BY DEF TypeOK, RequestType, SlotType
<1>2. pc \in Pcs
  BY DEF Select, Pcs
<1>3. req' = [req EXCEPT ![r] = next]
  BY DEF TryAnother
<1>4. q.excluded \cup {accounts[q.ptr].id} \in SUBSET Accounts /\ q.attempt + 1 \in Nat
  BY <1>1 DEF RequestType
<1>5. next \in RequestType
  <2> DEFINE excluded == q.excluded \cup {accounts[q.ptr].id}
             attempt == q.attempt + 1
  <2>1. next = [q EXCEPT !.pc = pc, !.excluded = excluded, !.attempt = attempt,
                         !.sel = NoId, !.cred = NoId]
    OBVIOUS
  <2> HIDE DEF pc, excluded, attempt, next
  <2>2. excluded \in SUBSET Accounts /\ attempt \in Nat
    BY <1>4 DEF excluded, attempt
  <2> QED BY <1>1, <1>2, <2>1, <2>2 DEF RequestType
<1> HIDE DEF next
<1> QED BY <1>3, <1>5 DEF TypeOK

-----------------------------------------------------------------------------
(* Type correctness.                                                        *)

\* A request that has not begun is well-typed.
LEMMA IdleType == Idle \in RequestType
BY ListAssumption DEF Idle, RequestType, Pcs, AllKinds, Slots, Statuses

\* The state a config is loaded into is well-typed.
LEMMA InitType == Init => TypeOK
<1> SUFFICES ASSUME Init PROVE TypeOK
  OBVIOUS
<1>1. accounts \in [Slots -> SlotType]
  BY ListAssumption DEF Init, SlotType, TokenStates
<1>2. Idle \in RequestType
  BY IdleType
<1>3. live \in 0..Cap /\ index \in 0..(Period - 1)
  BY ListAssumption, TimingAssumption DEF Init
<1> QED BY <1>1, <1>2, <1>3 DEF Init, TypeOK

\* What TypeOK needs of a goroutine's locals: one that binds has a key, and one that
\* refreshes has read some account's refresh token.
LocalsInv ==
  \A r \in Requests :
    /\ req[r].pc = "bind" => req[r].key # NoKey
    /\ req[r].pc = "refreshing" => req[r].cred # NoId

\* Without removals the list is the one that was loaded, with each account's own token;
\* a request that binds has a key, and one that refreshes holds its account's token.
ListInv ==
  /\ live = Cap
  /\ \A s \in Slots : accounts[s].id = ConfigOrder[s] /\ accounts[s].cred = ConfigOrder[s]
  /\ \A r \in Requests :
       /\ req[r].pc = "bind" => req[r].key # NoKey
       /\ req[r].pc = "refreshing" => req[r].cred = ConfigOrder[req[r].ptr]

\* A request that refreshes its account's token has read an account's token.
LEMMA ListInvGivesLocals == TypeOK /\ ListInv => LocalsInv
BY IdsAssumption, ListAssumption DEF ListInv, LocalsInv, TypeOK, RequestType

\* What a step of a scan does to the request's locals, and that it does nothing else.
LEMMA ScanDoes ==
  ASSUME TypeOK, NEW r \in Requests, Scan(r)
  PROVE  LET q == req[r]
             n == req'[r]
         IN
         /\ UNCHANGED <<accounts, live, cooldowns, sticky, index, reloading>>
         /\ req' = [req EXCEPT ![r] = n] /\ n \in RequestType
         /\ q.pc \in {"resolve", "search", "rotate", "collect"}
         /\ n.pc \in {"idle", "search", "prepare", "collect", "stuck"}
         /\ n.pc = "idle" => n = Idle /\ \E s \in q.todo : s \notin Live
         /\ n.pc # "idle" => /\ n.excluded = q.excluded /\ n.attempt = q.attempt
                            /\ n.key = q.key
         /\ n.pc = "prepare" =>
              q.pc = "search" /\ n.ptr \in Live /\ accounts[n.ptr].id = q.sel
         /\ n.pc = "search" =>
              /\ q.pc \in {"resolve", "search"} /\ n.sel = q.sel
              /\ q.pc = "resolve" => n.todo = Live
              /\ q.pc = "search" => \A s \in q.todo : s \in n.todo \/ accounts[s].id # q.sel
         /\ n.pc = "stuck" => q.pc = "search" /\ q.todo = {}
         /\ n.pc = "collect" /\ q.pc # "collect" =>
              /\ n.todo = Live /\ n.found = {} /\ n.cool = CoolingIds
              /\ q.pc = "rotate" \/ (q.pc = "search" /\ q.todo = {})
         /\ n.pc = "collect" /\ q.pc = "collect" =>
              /\ n.cool = q.cool /\ q.found \subseteq n.found
              /\ \A s \in n.found :
                   s \in q.found \/ (s \in Live /\ Available(s, q.excluded, q.cool))
              /\ \A s \in q.todo :
                   s \in n.todo \cup n.found \/ ~Available(s, q.excluded, q.cool)
         /\ q.pc = "collect" => n.pc \in {"idle", "collect"}
         /\ q.pc = "search" /\ q.todo # {} => n.pc \in {"idle", "search", "prepare"}
<1> DEFINE q == req[r]
           n == req'[r]
<1>q. /\ q \in RequestType /\ req \in [Requests -> RequestType]
      /\ Live \subseteq Slots
  BY ListAssumption DEF TypeOK, Live, Slots
<1>c. {"search", "prepare", "collect", "stuck"} \subseteq Pcs
  BY DEF Pcs
<1>i. CoolingIds \subseteq Accounts
  BY DEF CoolingIds, TypeOK
<1>1. CASE StartSearch(r)
  <2>1. n = [q EXCEPT !.pc = "search", !.todo = Live] /\ req' = [req EXCEPT ![r] = n]
    BY <1>1, <1>q DEF StartSearch
  <2>2. n \in RequestType
    BY <1>q, <1>c, <2>1 DEF RequestType
  <2> QED BY <1>1, <1>q, <2>1, <2>2 DEF StartSearch, RequestType
<1>2. CASE SearchSlot(r)
  <2>1. PICK s \in Live :
          /\ First(q.todo, s)
          /\ req' = [req EXCEPT ![r] =
               IF accounts[s].id = q.sel
               THEN [q EXCEPT !.pc = "prepare", !.sel = NoId, !.ptr = s, !.todo = {}]
               ELSE [q EXCEPT !.todo = @ \ {s}]]
    BY <1>2 DEF SearchSlot
  <2>2. CASE accounts[s].id = q.sel
    <3>1. /\ n = [q EXCEPT !.pc = "prepare", !.sel = NoId, !.ptr = s, !.todo = {}]
          /\ req' = [req EXCEPT ![r] = n]
      BY <1>q, <2>1, <2>2
    <3>2. n \in RequestType
      BY <1>q, <1>c, <3>1 DEF RequestType
    <3> QED BY <1>2, <1>q, <2>2, <3>1, <3>2 DEF SearchSlot, RequestType
  <2>3. CASE accounts[s].id # q.sel
    <3>1. n = [q EXCEPT !.todo = q.todo \ {s}] /\ req' = [req EXCEPT ![r] = n]
      BY <1>q, <2>1, <2>3
    <3>2. n \in RequestType
      BY <1>q, <3>1 DEF RequestType
    <3> QED BY <1>2, <1>q, <2>3, <3>1, <3>2 DEF SearchSlot, RequestType
  <2> QED BY <2>2, <2>3
<1>3. ASSUME n = Collecting(q), req' = [req EXCEPT ![r] = n]
      PROVE  /\ n \in RequestType /\ n.pc = "collect" /\ n.todo = Live /\ n.found = {}
             /\ n.cool = CoolingIds /\ n.excluded = q.excluded /\ n.attempt = q.attempt
             /\ n.key = q.key
  BY <1>3, <1>q, <1>c, <1>i DEF Collecting, RequestType
<1>4. CASE SearchFails(r)
  <2>1. CASE req' = [req EXCEPT ![r] = Collecting(q)]
    <3>1. n = Collecting(q)
      BY <1>q, <2>1
    <3> QED BY <1>3, <1>4, <2>1, <3>1 DEF SearchFails
  <2>2. CASE req' = [req EXCEPT ![r].pc = "stuck"]
    <3>1. n = [q EXCEPT !.pc = "stuck"] /\ req' = [req EXCEPT ![r] = n]
      BY <1>q, <2>2
    <3>2. n \in RequestType
      BY <1>q, <1>c, <3>1 DEF RequestType
    <3> QED BY <1>4, <1>q, <3>1, <3>2 DEF SearchFails, RequestType
  <2> QED BY <1>4, <2>1, <2>2 DEF SearchFails
<1>5. CASE StartCollect(r)
  <2>1. n = Collecting(q) /\ req' = [req EXCEPT ![r] = n]
    BY <1>5, <1>q DEF StartCollect
  <2> QED BY <1>3, <1>5, <2>1 DEF StartCollect
<1>6. CASE CollectSlot(r)
  <2>1. PICK s \in Live :
          /\ First(q.todo, s)
          /\ req' = [req EXCEPT ![r] =
               [q EXCEPT !.todo = @ \ {s},
                         !.found = IF Available(s, q.excluded, q.cool) THEN @ \cup {s}
                                                                       ELSE @]]
    BY <1>6 DEF CollectSlot
  <2> DEFINE found == IF Available(s, q.excluded, q.cool) THEN q.found \cup {s} ELSE q.found
  <2>2. n = [q EXCEPT !.todo = q.todo \ {s}, !.found = found] /\ req' = [req EXCEPT ![r] = n]
    BY <1>q, <2>1
  <2>3. found \subseteq Slots
    BY <1>q DEF RequestType
  <2>4. /\ q.found \subseteq found
        /\ \A t \in found : t \in q.found \/ (t \in Live /\ Available(t, q.excluded, q.cool))
        /\ Available(s, q.excluded, q.cool) => s \in found
    OBVIOUS
  <2> HIDE DEF found
  <2>5. n \in RequestType
    BY <1>q, <2>2, <2>3 DEF RequestType
  <2>6. /\ n.todo = q.todo \ {s} /\ n.found = found /\ n.pc = q.pc /\ n.cool = q.cool
        /\ n.excluded = q.excluded /\ n.attempt = q.attempt /\ n.key = q.key
    BY <1>q, <2>2 DEF RequestType
  <2> QED BY <1>6, <2>2, <2>4, <2>5, <2>6 DEF CollectSlot
<1>7. CASE ScanPanics(r)
  <2>1. n = Idle /\ req' = [req EXCEPT ![r] = n] /\ n \in RequestType
    BY <1>7, <1>q, IdleType DEF ScanPanics
  <2> QED BY <1>7, <2>1 DEF ScanPanics, Idle
<1> QED BY <1>1, <1>2, <1>4, <1>5, <1>6, <1>7 DEF Scan

\* A step of a request keeps the state well-typed, whatever was removed from the list.
LEMMA RequestStepType ==
  ASSUME TypeOK, LocalsInv, NEW r \in Requests, RequestStep(r)
  PROVE  TypeOK'
<1> DEFINE q == req[r]
<1>q. /\ q \in RequestType /\ q.ptr \in Slots
      /\ accounts[q.ptr] \in SlotType
      /\ accounts[q.ptr].id \in Accounts /\ accounts[q.ptr].cred \in Accounts
  BY DEF TypeOK, RequestType, SlotType
<1>p. Live \subseteq Slots
  BY ListAssumption DEF TypeOK, Live, Slots
<1>c. {"inspect", "cooling", "resolve", "prepare", "refreshing", "send", "waiting",
       "bind", "streaming", "refused"} \subseteq Pcs
  BY DEF Pcs
<1>1. ASSUME NEW kind \in Kinds, NEW key \in Keys \cup {NoKey}, Begin(r, kind, key)
      PROVE  TypeOK'
  <2> DEFINE next == [Idle EXCEPT !.pc = Select(key), !.kind = kind, !.key = key,
                                  !.limit = RetryLimit]
  <2>1. Select(key) \in Pcs /\ kind \in AllKinds
    BY InputAssumption DEF Select, Pcs
  <2>2. next \in RequestType
    BY <2>1, RetryLimitRange, IdleType DEF RequestType
  <2>3. /\ req' = [req EXCEPT ![r] = next]
        /\ UNCHANGED <<accounts, live, cooldowns, sticky, index, reloading>>
    BY <1>1 DEF Begin
  <2> HIDE DEF next
  <2> QED BY <2>2, <2>3, RequestOnlyType
<1>2. CASE StickyLookup(r)
  <2>1. CASE Rotate(r)
    BY <1>2, <2>1, RotateType DEF StickyLookup
  <2>2. CASE ~Rotate(r)
    <3>1. sticky[q.key].account \in Accounts
      BY <1>2, <2>2 DEF StickyLookup, TypeOK
    <3>2. [q EXCEPT !.pc = "inspect", !.sel = sticky[q.key].account] \in RequestType
      BY <1>q, <1>c, <3>1, RequestUpdateType
    <3> QED BY <1>2, <2>2, <3>2, RequestOnlyType DEF StickyLookup
  <2> QED BY <2>1, <2>2
<1>3. CASE StickyInspect(r)
  <2>1. [q EXCEPT !.pc = "cooling"] \in RequestType
    BY <1>q, <1>c DEF RequestType
  <2> QED BY <1>3, <2>1, RotateType, RequestOnlyType DEF StickyInspect
<1>4. CASE StickyCooling(r)
  <2>1. [q EXCEPT !.pc = "resolve"] \in RequestType
    BY <1>q, <1>c DEF RequestType
  <2> QED BY <1>4, <2>1, RotateType, RequestOnlyType DEF StickyCooling
<1>5. CASE Scan(r)
  BY <1>5, ScanDoes, RequestOnlyType
<1>6. CASE GetNext(r)
  <2>1. index' \in 0..(Period - 1)
    BY <1>6, TimingAssumption DEF GetNext, TypeOK
  <2>2. ASSUME NEW s \in q.found
        PROVE  [q EXCEPT !.pc = "prepare", !.ptr = s, !.found = {}, !.cool = {}]
                 \in RequestType
    BY <1>q, <1>c DEF RequestType
  <2>3. req' \in [Requests -> RequestType]
    BY <1>6, <2>2 DEF GetNext, TypeOK
  <2> QED BY <1>6, <2>1, <2>3 DEF GetNext, TypeOK
<1>7. CASE NoneAvailable(r)
  <2>1. [q EXCEPT !.pc = "refused", !.cool = {}] \in RequestType
    BY <1>q, <1>c DEF RequestType
  <2> QED BY <1>7, <2>1, RequestOnlyType DEF NoneAvailable
<1>8. CASE StartRefresh(r)
  <2>1. [q EXCEPT !.pc = "refreshing", !.cred = accounts[q.ptr].cred] \in RequestType
    BY <1>q, <1>c, RequestUpdateType
  <2> QED BY <1>8, <2>1, RequestOnlyType DEF StartRefresh
<1>9. CASE RefreshOk(r)
  <2> DEFINE next == [q EXCEPT !.pc = "send", !.cred = NoId]
             applied == [accounts EXCEPT ![q.ptr].cred = q.cred,
                                         ![q.ptr].token = "fresh"]
  <2>1. next \in RequestType
    BY <1>q, <1>c, RequestUpdateType
  <2>2. req' \in [Requests -> RequestType]
    BY <1>9, <2>1 DEF RefreshOk, TypeOK
  <2>3. q.cred \in Accounts
    BY <1>9, <1>q DEF RefreshOk, LocalsInv, RequestType
  <2>4. applied \in [Slots -> SlotType]
    BY <1>q, <2>3 DEF TypeOK, SlotType, TokenStates
  <2>5. accounts' \in [Slots -> SlotType]
    BY <1>9, <2>3, <2>4, WithTokenType DEF RefreshOk
  <2> QED BY <1>9, <2>2, <2>5 DEF RefreshOk, TypeOK
<1>10. CASE RefreshFail(r)
  <2>1. /\ DOMAIN cooldowns' \subseteq Accounts
        /\ \A x \in DOMAIN cooldowns' : cooldowns'[x] \in Nat
    BY <1>10, <1>q, RecordFailureType DEF RefreshFail
  <2>2. req' \in [Requests -> RequestType]
    BY <1>10, TryAnotherType DEF RefreshFail
  <2> QED BY <1>10, <2>1, <2>2 DEF RefreshFail, TypeOK
<1>11. CASE Send(r)
  <2>1. [q EXCEPT !.pc = "waiting", !.cred = accounts[q.ptr].cred] \in RequestType
    BY <1>q, <1>c, RequestUpdateType
  <2> QED BY <1>11, <2>1, RequestOnlyType DEF Send
<1>12. CASE BuildFails(r)
  BY <1>12, IdleType, RequestOnlyType DEF BuildFails
<1>13. ASSUME NEW answer \in Answers, AnswerFailure(r, answer)
       PROVE  TypeOK'
  <2>1. /\ DOMAIN cooldowns' \subseteq Accounts
        /\ \A x \in DOMAIN cooldowns' : cooldowns'[x] \in Nat
    BY <1>13, <1>q, RecordFailureType DEF AnswerFailure
  <2>2. req' \in [Requests -> RequestType]
    BY <1>13, TryAnotherType DEF AnswerFailure
  <2> QED BY <1>13, <2>1, <2>2 DEF AnswerFailure, TypeOK
<1>14. ASSUME NEW answer \in Answers, AnswerSuccess(r, answer)
       PROVE  TypeOK'
  <2> DEFINE pc == IF q.key = NoKey THEN "streaming" ELSE "bind"
             next == [q EXCEPT !.pc = pc, !.status = answer.status]
  <2>1. answer.status \in Statuses
    BY InputAssumption
  <2>2. req' \in [Requests -> RequestType]
    <3>1. next \in RequestType
      BY <1>q, <1>c, <2>1 DEF RequestType
    <3>2. req' = [req EXCEPT ![r] = next]
      BY <1>14 DEF AnswerSuccess
    <3> HIDE DEF next
    <3> QED BY <3>1, <3>2 DEF TypeOK
  <2>3. /\ DOMAIN cooldowns' \subseteq Accounts
        /\ \A x \in DOMAIN cooldowns' : cooldowns'[x] \in Nat
    BY <1>14 DEF AnswerSuccess, RecordSuccess, TypeOK
  <2> QED BY <1>14, <2>2, <2>3 DEF AnswerSuccess, TypeOK
<1>15. CASE Bind(r)
  <2>1. [q EXCEPT !.pc = "streaming"] \in RequestType
    BY <1>q, <1>c DEF RequestType
  <2>2. req' \in [Requests -> RequestType]
    BY <1>15, <2>1 DEF Bind, TypeOK
  <2>3. q.key \in Keys
    BY <1>15, <1>q DEF Bind, LocalsInv, RequestType
  <2>4. /\ DOMAIN sticky' \subseteq Keys
        /\ \A k \in DOMAIN sticky' :
             sticky'[k].account \in Accounts /\ sticky'[k].ttl \in Nat
    BY <1>15, <1>q, <2>3, TimingAssumption DEF Bind, SetSticky, TypeOK
  <2> QED BY <1>15, <2>2, <2>4 DEF Bind, TypeOK
<1>16. CASE Finish(r)
  <2>1. accounts' \in [Slots -> SlotType]
    BY <1>16 DEF Finish, WithOneMoreUse, TypeOK, SlotType
  <2>2. req' \in [Requests -> RequestType]
    BY <1>16, IdleType DEF Finish, TypeOK
  <2> QED BY <1>16, <2>1, <2>2 DEF Finish, TypeOK
<1>17. CASE Return(r)
  BY <1>17, IdleType, RequestOnlyType DEF Return
<1> QED BY <1>1, <1>2, <1>3, <1>4, <1>5, <1>6, <1>7, <1>8, <1>9, <1>10, <1>11, <1>12,
           <1>13, <1>14, <1>15, <1>16, <1>17 DEF RequestStep, Answering

\* Time, token refresh and the operator keep the state well-typed.
LEMMA EnvironmentType ==
  ASSUME TypeOK, Environment
  PROVE  TypeOK'
<1>1. CASE Tick
  BY <1>1 DEF Tick, TypeOK
<1>2. CASE Reload
  BY <1>2 DEF Reload, TypeOK
<1>3. ASSUME NEW s \in Slots, AgeToken(s) PROVE TypeOK'
  BY <1>3 DEF AgeToken, TypeOK, SlotType, TokenStates
<1>4. ASSUME NEW s \in Slots, BackgroundRefresh(s) PROVE TypeOK'
  BY <1>4 DEF BackgroundRefresh, TypeOK, SlotType, TokenStates
<1>5. ASSUME NEW s \in Slots, Toggle(s) PROVE TypeOK'
  BY <1>5 DEF Toggle, TypeOK, SlotType
<1>6. ASSUME NEW s \in Slots, NEW current \in Reports, RefreshQuota(s, current)
      PROVE  TypeOK'
  BY <1>6, QuotaAssumption DEF RefreshQuota, TypeOK, SlotType
<1> QED BY <1>1, <1>2, <1>3, <1>4, <1>5, <1>6 DEF Environment

-----------------------------------------------------------------------------
(* The list and the tokens.                                                 *)

\* Time, the background refresh and the operator never touch a goroutine's locals.
LEMMA EnvironmentKeepsRequests == Environment => req' = req
BY DEF Environment, Tick, Reload, AgeToken, BackgroundRefresh, Toggle, RefreshQuota

\* A step of a request leaves the locals of the others alone.
LEMMA OthersUnchanged ==
  ASSUME TypeOK, NEW r \in Requests, RequestStep(r)
  PROVE  \A t \in Requests \ {r} : req'[t] = req[t]
<1>1. PICK q : req' = [req EXCEPT ![r] = q]
  BY ScanDoes DEF RequestStep, Answering, Begin, StickyLookup, StickyInspect, StickyCooling,
         Rotate, GetNext, NoneAvailable, StartRefresh, RefreshOk,
         RefreshFail, TryAnother, Send, BuildFails, AnswerFailure, AnswerSuccess, Bind,
         Finish, Return
<1> QED BY <1>1 DEF TypeOK

\* Which steps of a request write the list, or lead to a refresh or a binding.
LEMMA RequestStepList ==
  ASSUME TypeOK, ListInv, NEW r \in Requests, RequestStep(r)
  PROVE  ListInv'
<1> DEFINE q == req[r]
<1>q. /\ q \in RequestType /\ q.ptr \in Slots /\ req \in [Requests -> RequestType]
      /\ accounts \in [Slots -> SlotType]
  BY DEF TypeOK, RequestType
<1>o. \A t \in Requests \ {r} : req'[t] = req[t]
  BY OthersUnchanged
<1>k. ASSUME live' = live, accounts' = accounts, req'[r].pc \notin {"bind", "refreshing"}
      PROVE  ListInv'
  BY <1>k, <1>o DEF ListInv
<1>t. ASSUME TryAnother(r) PROVE req'[r].pc \notin {"bind", "refreshing"}
  BY <1>t, <1>q DEF TryAnother, Select, RequestType
<1>r. ASSUME Rotate(r) PROVE req'[r].pc = "rotate"
  BY <1>r, <1>q DEF Rotate, RequestType
<1>1. ASSUME NEW kind \in Kinds, NEW key \in Keys \cup {NoKey}, Begin(r, kind, key)
      PROVE  ListInv'
  <2>1. req'[r].pc = Select(key)
    BY <1>1, <1>q DEF Begin, Idle
  <2> QED BY <1>1, <1>k, <2>1 DEF Begin, Select
<1>2. CASE StickyLookup(r)
  BY <1>2, <1>q, <1>k, <1>r DEF StickyLookup, RequestType
<1>3. CASE StickyInspect(r)
  BY <1>3, <1>q, <1>k, <1>r DEF StickyInspect, RequestType
<1>4. CASE StickyCooling(r)
  BY <1>4, <1>q, <1>k, <1>r DEF StickyCooling, RequestType
<1>5. CASE Scan(r)
  BY <1>5, <1>k, ScanDoes
<1>6. CASE GetNext(r)
  BY <1>6, <1>q, <1>k DEF GetNext, RequestType
<1>7. CASE NoneAvailable(r)
  BY <1>7, <1>q, <1>k DEF NoneAvailable, RequestType
<1>8. CASE StartRefresh(r)
  <2>1. req'[r].pc = "refreshing" /\ req'[r].cred = accounts[q.ptr].cred
        /\ req'[r].ptr = q.ptr
    BY <1>8, <1>q DEF StartRefresh, RequestType
  <2> QED BY <1>8, <1>q, <1>o, <2>1 DEF StartRefresh, ListInv
<1>9. CASE RefreshOk(r)
  <2>1. q.cred = ConfigOrder[q.ptr] /\ accounts[q.ptr].id = ConfigOrder[q.ptr]
    BY <1>9, <1>q DEF RefreshOk, ListInv
  <2>2. \A s \in Slots : /\ accounts'[s].id = ConfigOrder[s]
                         /\ accounts'[s].cred = ConfigOrder[s]
    <3> DEFINE applied == [accounts EXCEPT ![q.ptr].cred = q.cred,
                                           ![q.ptr].token = "fresh"]
    <3>1. applied \in [Slots -> SlotType]
      BY <1>q, <2>1, ListAssumption DEF SlotType, TokenStates
    <3>2. \A s \in Slots : applied[s].id = ConfigOrder[s] /\ applied[s].cred = ConfigOrder[s]
      BY <1>q, <2>1 DEF ListInv, SlotType
    <3>3. accounts' = WithToken(applied, ConfigOrder[q.ptr], ConfigOrder[q.ptr])
      BY <1>9, <2>1 DEF RefreshOk
    <3> HIDE DEF applied
    <3> QED BY <3>1, <3>2, <3>3 DEF WithToken, SlotType
  <2>3. req'[r].pc = "send"
    BY <1>9, <1>q DEF RefreshOk, RequestType
  <2>4. live' = live
    BY <1>9 DEF RefreshOk
  <2> QED BY <1>o, <2>2, <2>3, <2>4 DEF ListInv
<1>10. CASE RefreshFail(r)
  BY <1>10, <1>k, <1>t DEF RefreshFail
<1>11. CASE Send(r)
  BY <1>11, <1>q, <1>k DEF Send, RequestType
<1>12. CASE BuildFails(r)
  BY <1>12, <1>q, <1>k DEF BuildFails, Idle
<1>13. ASSUME NEW answer \in Answers, AnswerFailure(r, answer)
       PROVE  ListInv'
  BY <1>13, <1>k, <1>t DEF AnswerFailure
<1>14. ASSUME NEW answer \in Answers, AnswerSuccess(r, answer)
       PROVE  ListInv'
  <2>1. /\ req'[r].pc = IF q.key = NoKey THEN "streaming" ELSE "bind"
        /\ req'[r].key = q.key
    BY <1>14, <1>q DEF AnswerSuccess, RequestType
  <2> QED BY <1>14, <1>o, <2>1 DEF AnswerSuccess, ListInv
<1>15. CASE Bind(r)
  BY <1>15, <1>q, <1>k DEF Bind, RequestType
<1>16. CASE Finish(r)
  <2>1. \A s \in Slots : accounts'[s].id = accounts[s].id /\ accounts'[s].cred = accounts[s].cred
    BY <1>16, <1>q DEF Finish, WithOneMoreUse, SlotType
  <2>2. req'[r].pc = "idle"
    BY <1>16, <1>q DEF Finish, Idle
  <2> QED BY <1>16, <1>o, <2>1, <2>2 DEF Finish, ListInv
<1>17. CASE Return(r)
  BY <1>17, <1>q, <1>k DEF Return, Idle
<1> QED BY <1>1, <1>2, <1>3, <1>4, <1>5, <1>6, <1>7, <1>8, <1>9, <1>10, <1>11, <1>12,
           <1>13, <1>14, <1>15, <1>16, <1>17 DEF RequestStep, Answering

\* The environment changes flags, counts and tokens' ages, never whose slot it is.
LEMMA EnvironmentList ==
  ASSUME TypeOK, ListInv, Environment
  PROVE  ListInv'
<1>1. CASE Tick
  BY <1>1 DEF Tick, ListInv
<1>2. CASE Reload
  BY <1>2 DEF Reload, ListInv
<1>3. ASSUME NEW s \in Slots, AgeToken(s) PROVE ListInv'
  BY <1>3 DEF AgeToken, ListInv, TypeOK, SlotType
<1>4. ASSUME NEW s \in Slots, BackgroundRefresh(s) PROVE ListInv'
  BY <1>4 DEF BackgroundRefresh, ListInv, TypeOK, SlotType
<1>5. ASSUME NEW s \in Slots, Toggle(s) PROVE ListInv'
  BY <1>5 DEF Toggle, ListInv, TypeOK, SlotType
<1>6. ASSUME NEW s \in Slots, NEW current, RefreshQuota(s, current) PROVE ListInv'
  BY <1>6 DEF RefreshQuota, ListInv, TypeOK, SlotType
<1> QED BY <1>1, <1>2, <1>3, <1>4, <1>5, <1>6 DEF Environment

\* The invariant the other theorems start from holds at the start.
LEMMA BaseInit == Init => TypeOK /\ ListInv
<1>1. ASSUME Init PROVE ListInv
  BY <1>1 DEF Init, ListInv, Idle
<1> QED BY <1>1, InitType

\* Every step keeps the invariant the other theorems start from.
LEMMA BaseStep == TypeOK /\ ListInv /\ [Next]_vars => (TypeOK /\ ListInv)'
<1> SUFFICES ASSUME TypeOK, ListInv, [Next]_vars PROVE (TypeOK /\ ListInv)'
  OBVIOUS
<1>1. ASSUME NEW r \in Requests, RequestStep(r) PROVE (TypeOK /\ ListInv)'
  BY <1>1, RequestStepType, RequestStepList, ListInvGivesLocals
<1>2. CASE Environment
  BY <1>2, EnvironmentType, EnvironmentList
<1>3. CASE UNCHANGED vars
  BY <1>3 DEF vars, TypeOK, ListInv
<1> QED BY <1>1, <1>2, <1>3 DEF Next

\* The shared tables and the locals of every request stay well-typed.
THEOREM TypeCorrect == Spec => []TypeOK
<1>1. Spec => [](TypeOK /\ ListInv)
  BY BaseInit, BaseStep, PTL DEF Spec
<1> QED BY <1>1, PTL

\* As long as no account is removed, a token never ends up in another account's slot,
\* however refreshes, requests and the operator interleave.
THEOREM TokenStaysWithAccount == Spec => []TokenOfItsAccount
<1>1. TypeOK /\ ListInv => TokenOfItsAccount
  BY DEF ListInv, Live, Slots, TokenOfItsAccount
<1>2. Spec => [](TypeOK /\ ListInv)
  BY BaseInit, BaseStep, PTL DEF Spec
<1> QED BY <1>1, <1>2, PTL

-----------------------------------------------------------------------------
(* A request never works with an account it has failed with.                *)

\* NeverRetriesFailed, and the same of the account AccountForSticky looks at and of those
\* collectAvailable has found so far.
ExclusionInv ==
  \A r \in Requests :
    /\ req[r].pc \in HoldingPcs => ConfigOrder[req[r].ptr] \notin req[r].excluded
    /\ req[r].pc \in {"inspect", "cooling", "resolve", "search"} =>
         req[r].sel \notin req[r].excluded
    /\ req[r].pc = "collect" =>
         \A s \in req[r].found : ConfigOrder[s] \notin req[r].excluded

\* Every step of a request keeps to ExclusionInv: GetNext leaves excluded accounts out of
\* the available ones, AccountForSticky checks the binding against them.
LEMMA ExclusionStep ==
  ASSUME TypeOK, ListInv, ExclusionInv, NEW r \in Requests, RequestStep(r)
  PROVE  ExclusionInv'
<1> DEFINE q == req[r]
<1>q. /\ q \in RequestType /\ q.ptr \in Slots /\ req \in [Requests -> RequestType]
      /\ q.pc \in HoldingPcs => ConfigOrder[q.ptr] \notin q.excluded
      /\ q.pc \in {"inspect", "cooling", "resolve", "search"} => q.sel \notin q.excluded
      /\ q.pc = "collect" => \A s \in q.found : ConfigOrder[s] \notin q.excluded
      /\ Live = Slots
  BY DEF TypeOK, RequestType, ExclusionInv, ListInv, Live, Slots
<1>o. \A t \in Requests \ {r} : req'[t] = req[t]
  BY OthersUnchanged
\* The request is elsewhere, or it holds or looks at an account not excluded.
<1>k. ASSUME \/ req'[r].pc \notin HoldingPcs \cup {"inspect", "cooling", "resolve", "search",
                                                 "collect"}
             \/ /\ req'[r].pc \in HoldingPcs
                /\ ConfigOrder[req'[r].ptr] \notin req'[r].excluded
             \/ /\ req'[r].pc \in {"inspect", "cooling", "resolve", "search"}
                /\ req'[r].sel \notin req'[r].excluded
             \/ /\ req'[r].pc = "collect"
                /\ \A s \in req'[r].found : ConfigOrder[s] \notin req'[r].excluded
      PROVE  ExclusionInv'
  BY <1>k, <1>o DEF ExclusionInv, HoldingPcs
<1>t. ASSUME TryAnother(r) PROVE ExclusionInv'
  BY <1>t, <1>q, <1>k DEF TryAnother, Select, RequestType, HoldingPcs
<1>r. ASSUME Rotate(r) PROVE ExclusionInv'
  BY <1>r, <1>q, <1>k DEF Rotate, RequestType, HoldingPcs
<1>1. ASSUME NEW kind \in Kinds, NEW key \in Keys \cup {NoKey}, Begin(r, kind, key)
      PROVE  ExclusionInv'
  <2>1. req'[r].pc = Select(key)
    BY <1>1, <1>q DEF Begin, Idle
  <2> QED BY <1>k, <2>1 DEF Select, HoldingPcs
<1>2. CASE StickyLookup(r)
  <2> DEFINE home == sticky[q.key].account
  <2>1. CASE Rotate(r)
    BY <1>r, <2>1
  <2>2. CASE ~Rotate(r)
    <3>1. home \notin q.excluded /\ req' = [req EXCEPT ![r] = [@ EXCEPT !.pc = "inspect", !.sel = home]]
      BY <1>2, <2>2 DEF StickyLookup
    <3> HIDE DEF home
    <3>2. req'[r].pc = "inspect" /\ req'[r].sel = home /\ req'[r].excluded = q.excluded
      BY <1>q, <3>1 DEF RequestType
    <3> QED BY <1>k, <3>1, <3>2
  <2> QED BY <2>1, <2>2
<1>3. CASE StickyInspect(r)
  BY <1>3, <1>q, <1>k, <1>r DEF StickyInspect, RequestType, HoldingPcs
<1>4. CASE StickyCooling(r)
  BY <1>4, <1>q, <1>k, <1>r DEF StickyCooling, RequestType, HoldingPcs
<1>5. CASE Scan(r)
  <2> DEFINE n == req'[r]
  <2>1. \A s \in Slots : accounts[s].id = ConfigOrder[s]
    BY DEF ListInv
  <2>2. CASE n.pc \in {"idle", "stuck"}
    BY <1>k, <2>2 DEF HoldingPcs
  <2>3. CASE n.pc = "search"
    BY <1>5, <1>k, <1>q, <2>3, ScanDoes
  <2>4. CASE n.pc = "prepare"
    BY <1>5, <1>k, <1>q, <2>1, <2>4, ScanDoes DEF HoldingPcs
  <2>5. CASE n.pc = "collect" /\ q.pc # "collect"
    BY <1>5, <1>k, <2>5, ScanDoes
  <2>6. CASE n.pc = "collect" /\ q.pc = "collect"
    <3>1. \A s \in n.found : ConfigOrder[s] \notin q.excluded
      BY <1>5, <1>q, <2>1, <2>6, ScanDoes DEF Available
    <3> QED BY <1>5, <1>k, <2>6, <3>1, ScanDoes
  <2> QED BY <1>5, <2>2, <2>3, <2>4, <2>5, <2>6, ScanDoes
<1>6. CASE GetNext(r)
  <2>1. PICK s \in q.found :
          req' = [req EXCEPT ![r] = [q EXCEPT !.pc = "prepare", !.ptr = s, !.found = {},
                                              !.cool = {}]]
    BY <1>6 DEF GetNext
  <2>2. ConfigOrder[s] \notin q.excluded
    BY <1>6, <1>q DEF GetNext
  <2>3. req'[r].pc = "prepare" /\ req'[r].ptr = s /\ req'[r].excluded = q.excluded
    BY <2>1, <1>q DEF RequestType
  <2> QED BY <1>k, <2>2, <2>3 DEF HoldingPcs
<1>7. CASE NoneAvailable(r)
  BY <1>7, <1>q, <1>k DEF NoneAvailable, RequestType, HoldingPcs
<1>8. CASE StartRefresh(r)
  BY <1>8, <1>q, <1>k DEF StartRefresh, RequestType, HoldingPcs
<1>9. CASE RefreshOk(r)
  BY <1>9, <1>q, <1>k DEF RefreshOk, RequestType, HoldingPcs
<1>10. CASE RefreshFail(r)
  BY <1>10, <1>t DEF RefreshFail
<1>11. CASE Send(r)
  BY <1>11, <1>q, <1>k DEF Send, ReadyToSend, RequestType, HoldingPcs
<1>12. CASE BuildFails(r)
  BY <1>12, <1>q, <1>k DEF BuildFails, Idle, HoldingPcs
<1>13. ASSUME NEW answer \in Answers, AnswerFailure(r, answer)
       PROVE  ExclusionInv'
  BY <1>13, <1>t DEF AnswerFailure
<1>14. ASSUME NEW answer \in Answers, AnswerSuccess(r, answer)
       PROVE  ExclusionInv'
  BY <1>14, <1>q, <1>k DEF AnswerSuccess, RequestType, HoldingPcs
<1>15. CASE Bind(r)
  BY <1>15, <1>q, <1>k DEF Bind, RequestType, HoldingPcs
<1>16. CASE Finish(r)
  BY <1>16, <1>q, <1>k DEF Finish, Idle, HoldingPcs
<1>17. CASE Return(r)
  BY <1>17, <1>q, <1>k DEF Return, Idle, HoldingPcs
<1> QED BY <1>1, <1>2, <1>3, <1>4, <1>5, <1>6, <1>7, <1>8, <1>9, <1>10, <1>11, <1>12,
           <1>13, <1>14, <1>15, <1>16, <1>17 DEF RequestStep, Answering

\* A request's exclusions survive every step of the pool.
LEMMA ExclusionNext == TypeOK /\ ListInv /\ ExclusionInv /\ [Next]_vars => ExclusionInv'
<1> SUFFICES ASSUME TypeOK, ListInv, ExclusionInv, [Next]_vars PROVE ExclusionInv'
  OBVIOUS
<1>1. ASSUME NEW r \in Requests, RequestStep(r) PROVE ExclusionInv'
  BY <1>1, ExclusionStep
<1>2. CASE UNCHANGED req
  BY <1>2 DEF ExclusionInv
<1>3. Environment => UNCHANGED req
  BY EnvironmentKeepsRequests
<1> QED BY <1>1, <1>2, <1>3 DEF Next, vars

\* No request has excluded an account before it begins.
LEMMA ExclusionStart == Init => ExclusionInv
BY DEF Init, ExclusionInv, Idle, HoldingPcs

\* Both selection paths heed `excluded`, whatever happens between a request's look at an
\* account and its use of it: no account is tried twice by one request.
THEOREM NoAccountTwice == Spec => []NeverRetriesFailed
<1> DEFINE Inv == TypeOK /\ ListInv /\ ExclusionInv
<1>1. Init => Inv
  BY BaseInit, ExclusionStart
<1>2. Inv /\ [Next]_vars => Inv'
  BY BaseStep, ExclusionNext
<1>3. Inv => NeverRetriesFailed
  <2> SUFFICES ASSUME Inv, NEW r \in Requests, req[r].pc \in HoldingPcs
               PROVE  accounts[req[r].ptr].id \notin req[r].excluded
    BY DEF NeverRetriesFailed
  <2>1. req[r].ptr \in Slots
    BY DEF TypeOK, RequestType
  <2> QED BY <2>1 DEF ListInv, ExclusionInv
<1> QED BY <1>1, <1>2, <1>3, PTL DEF Spec

=============================================================================
