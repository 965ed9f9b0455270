------------------------ MODULE AccountPoolHistoryProofs ------------------------
(***************************************************************************)
(* Theorems about the properties of the pool that look back: how often a   *)
(* failing account is still used, how far one is used beyond its quota,    *)
(* when a request may be refused, and when a conversation stays where it   *)
(* is.  The history variables only watch, so *)
(* whatever AccountPoolProofs proves of a step of the pool holds here.     *)
(***************************************************************************)
EXTENDS AccountPoolHistory, AccountPoolProofs

\* What the pool itself guarantees at every state.
PoolInv == TypeOK /\ ListInv /\ ExclusionInv

\* The types of the history variables.
HistoryType ==
  /\ hits \in [Accounts -> Nat]
  /\ steady \in [Requests -> SUBSET Accounts]
  /\ anchor \in [Requests -> Accounts \cup {NoId}]
  /\ overdrawn \in [Slots -> Nat]

\* The pool's own invariants hold under the history.
LEMMA PoolStep == PoolInv /\ [Next /\ HistoryStep]_hvars => PoolInv'
BY BaseStep, ExclusionNext DEF PoolInv, hvars

\* The pool's own invariants hold at the start.
LEMMA PoolStart == Init => PoolInv
BY BaseInit, ExclusionStart DEF PoolInv

\* The accounts that are available have an ID each.
LEMMA AvailableIdsType ==
  ASSUME TypeOK
  PROVE  AvailableIds \subseteq Accounts
<1>1. Live \subseteq Slots
  BY ListAssumption DEF TypeOK, Live, Slots
<1> QED BY <1>1 DEF AvailableIds, CollectAvailable, TypeOK, SlotType

\* Who sends with an account is one of the requests that may, and leaves its place.
LEMMA SenderMoves ==
  ASSUME TypeOK, NEW r \in Requests, RequestStep(r), NEW id, SentWith(id)
  PROVE  /\ req[r].pc \in {"prepare", "send"} /\ req'[r].pc = "waiting"
         /\ accounts[req[r].ptr].id = id
<1>1. PICK t \in Requests : /\ req[t].pc \in {"prepare", "send"} /\ req'[t].pc = "waiting"
                            /\ accounts[req[t].ptr].id = id
  BY DEF SentWith
<1>2. t = r
  BY <1>1, OthersUnchanged
<1> QED BY <1>1, <1>2

-----------------------------------------------------------------------------
(* A failing account is not hammered.                                       *)

\* A request past its last look at the cooldowns of the account: it will go upstream with
\* it whatever happens to the account now.
ArmedWith(q, id) ==
  \/ q.pc \in {"prepare", "refreshing", "send"} /\ ConfigOrder[q.ptr] = id
  \/ q.pc \in {"resolve", "search"} /\ q.sel = id
Armed(id) == {r \in Requests : ArmedWith(req[r], id)}

\* While a request collects, no account begins to cool: a failure is recorded under the
\* pool's lock.  So the accounts it has found are not among those that cool now.
CollectInv ==
  \A r \in Requests : req[r].pc = "collect" =>
    /\ CoolingIds \subseteq req[r].cool
    /\ \A s \in req[r].found : ConfigOrder[s] \notin req[r].cool

\* HammerBound is not inductive: it must also count who may still go upstream.  While the
\* account cools nobody joins them, and the one whose failure cooled it is not among them.
HammerInv ==
  \A id \in Accounts :
    IF CoolingNow(id) THEN hits[id] + Cardinality(Armed(id)) <= Cardinality(Requests) - 1
                      ELSE hits[id] = 0

\* What a step may do to an account: it is out of cooldown; or its cooldown begins with the
\* failure of a request that is not armed; or it goes on cooling and either nobody goes
\* upstream with it, or one of those armed does, and is armed no longer.
HammerMove(id) ==
  \/ ~CoolingNow(id)'
  \/ ~CoolingNow(id) /\ \E r \in Requests : ~ArmedWith(req'[r], id)
  \/ CoolingNow(id) /\ ~SentWith(id) /\ Armed(id)' \subseteq Armed(id)
  \/ CoolingNow(id) /\ \E r \in Armed(id) : Armed(id)' \subseteq Armed(id) \ {r}

\* The armed requests are finitely many.
LEMMA ArmedFinite ==
  ASSUME NEW id
  PROVE  /\ IsFiniteSet(Armed(id)) /\ Cardinality(Armed(id)) \in Nat
         /\ Cardinality(Requests) \in Nat
<1>1. Armed(id) \in SUBSET Requests
  BY DEF Armed
<1>2. IsFiniteSet(Armed(id))
  BY <1>1, IdsAssumption, FS_Subset
<1> QED BY <1>2, IdsAssumption, FS_CardinalityType

\* HammerInv survives every step that treats each account in one of these ways.
LEMMA HammerMoveEnough ==
  ASSUME HistoryType, HammerInv, HistoryStep, \A id \in Accounts : HammerMove(id)
  PROVE  HammerInv'
<1> SUFFICES ASSUME NEW id \in Accounts
             PROVE  IF CoolingNow(id)'
                    THEN hits'[id] + Cardinality(Armed(id)') <= Cardinality(Requests) - 1
                    ELSE hits'[id] = 0
  BY DEF HammerInv
<1> DEFINE before == Armed(id)
           after == Armed(id)'
<1>1. /\ IsFiniteSet(before) /\ Cardinality(before) \in Nat
      /\ Cardinality(Requests) \in Nat /\ hits[id] \in Nat
  BY ArmedFinite DEF HistoryType
<1>2. after \in SUBSET Requests
  BY DEF Armed
<1>3. IsFiniteSet(after) /\ Cardinality(after) \in Nat
  <2>1. IsFiniteSet(after)
    BY <1>2, IdsAssumption, FS_Subset
  <2> QED BY <2>1, FS_CardinalityType
<1>4. hits'[id] = IF ~(CoolingNow(id) /\ CoolingNow(id)') THEN 0
                  ELSE IF SentWith(id) THEN hits[id] + 1 ELSE hits[id]
  BY DEF HistoryStep
<1>5. CoolingNow(id) => hits[id] + Cardinality(before) <= Cardinality(Requests) - 1
  BY DEF HammerInv
<1> HIDE DEF before, after
<1>6. CASE ~CoolingNow(id)'
  BY <1>4, <1>6
<1>7. CASE /\ CoolingNow(id)'
           /\ ~CoolingNow(id)
           /\ \E r \in Requests : ~ArmedWith(req'[r], id)
  <2>1. PICK r \in Requests : ~ArmedWith(req'[r], id)
    BY <1>7
  <2>2. after \in SUBSET (Requests \ {r})
    BY <2>1 DEF Armed, after
  <2>3. /\ IsFiniteSet(Requests \ {r})
        /\ Cardinality(Requests \ {r}) = Cardinality(Requests) - 1
    BY IdsAssumption, FS_RemoveElement
  <2>4. Cardinality(after) <= Cardinality(Requests) - 1
    BY <2>2, <2>3, FS_Subset
  <2> QED BY <1>1, <1>3, <1>4, <1>7, <2>4 DEF after
<1>8. CASE /\ CoolingNow(id)' /\ CoolingNow(id) /\ ~SentWith(id) /\ after \subseteq before
  <2>1. Cardinality(after) <= Cardinality(before)
    BY <1>1, <1>8, FS_Subset
  <2> QED BY <1>1, <1>3, <1>4, <1>5, <1>8, <2>1 DEF after
<1>9. CASE /\ CoolingNow(id)' /\ CoolingNow(id)
           /\ \E r \in before : after \subseteq before \ {r}
  <2>1. PICK r \in before : after \subseteq before \ {r}
    BY <1>9
  <2>2. /\ IsFiniteSet(before \ {r})
        /\ Cardinality(before \ {r}) = Cardinality(before) - 1
    BY <1>1, FS_RemoveElement
  <2>3. Cardinality(after) <= Cardinality(before) - 1
    BY <2>1, <2>2, FS_Subset
  <2> QED BY <1>1, <1>3, <1>4, <1>5, <1>9, <2>3 DEF after
<1> QED BY <1>6, <1>7, <1>8, <1>9 DEF HammerMove, before, after

\* A request gets past the cooldown check only while the account does not cool, and what
\* makes an account cool is a failure of a request that then goes round the loop.
LEMMA RequestStepHammer ==
  ASSUME TypeOK, ListInv, CollectInv, NEW r \in Requests, RequestStep(r),
         NEW id \in Accounts
  PROVE  HammerMove(id)
<1> DEFINE q == req[r]
<1>q. /\ q \in RequestType /\ q.ptr \in Slots /\ req \in [Requests -> RequestType]
      /\ accounts[q.ptr].id = ConfigOrder[q.ptr]
  BY DEF TypeOK, RequestType, ListInv
<1>o. \A t \in Requests \ {r} : req'[t] = req[t]
  BY OthersUnchanged
<1>m. ASSUME ArmedWith(req'[r], id) => ArmedWith(q, id)
      PROVE  Armed(id)' \subseteq Armed(id)
  BY <1>m, <1>o DEF Armed
\* The request looks at no cooldown and goes nowhere with the account.
<1>k. ASSUME cooldowns' = cooldowns, req'[r].pc # "waiting",
             ArmedWith(req'[r], id) => ArmedWith(q, id)
      PROVE  HammerMove(id)
  <2>1. ~SentWith(id)
    BY <1>k, SenderMoves
  <2>2. CoolingNow(id)' = CoolingNow(id)
    BY <1>k DEF CoolingNow
  <2> QED BY <1>m, <1>k, <2>1, <2>2 DEF HammerMove
<1>r. ASSUME Rotate(r), cooldowns' = cooldowns PROVE HammerMove(id)
  BY <1>r, <1>q, <1>k DEF Rotate, RequestType, ArmedWith
\* A failure of the request: it goes round the loop, or out of it, and is not armed.
<1>f. ASSUME TryAnother(r) PROVE HammerMove(id)
  <2>1. req'[r].pc \in {"sticky", "rotate", "refused"}
    BY <1>f, <1>q DEF TryAnother, Select, RequestType
  <2>2. ~ArmedWith(req'[r], id) /\ ~SentWith(id)
    BY <2>1, SenderMoves DEF ArmedWith
  <2> QED BY <1>m, <2>2 DEF HammerMove
<1>1. ASSUME NEW kind \in Kinds, NEW key \in Keys \cup {NoKey}, Begin(r, kind, key)
      PROVE  HammerMove(id)
  <2>1. req'[r].pc = Select(key)
    BY <1>1, <1>q DEF Begin, Idle
  <2> QED BY <1>1, <1>k, <2>1 DEF Begin, Select, ArmedWith
<1>2. CASE StickyLookup(r)
  <2>1. req'[r].pc \in {"inspect", "rotate"} /\ cooldowns' = cooldowns
    BY <1>2, <1>q DEF StickyLookup, Rotate, RequestType
  <2> QED BY <1>k, <2>1 DEF ArmedWith
<1>3. CASE StickyInspect(r)
  BY <1>3, <1>q, <1>k, <1>r DEF StickyInspect, RequestType, ArmedWith
<1>4. CASE StickyCooling(r)
  <2>1. CASE Rotate(r)
    BY <1>4, <2>1, <1>r DEF StickyCooling
  <2>2. CASE ~Rotate(r)
    <3>1. /\ q.sel \notin DOMAIN cooldowns /\ cooldowns' = cooldowns
          /\ req'[r].pc = "resolve" /\ req'[r].sel = q.sel
      BY <1>4, <2>2, <1>q DEF StickyCooling, RequestType
    <3>2. CASE q.sel = id
      BY <3>1, <3>2 DEF HammerMove, CoolingNow
    <3>3. CASE q.sel # id
      BY <1>k, <3>1, <3>3 DEF ArmedWith
    <3> QED BY <3>2, <3>3
  <2> QED BY <2>1, <2>2
<1>5. CASE Scan(r)
  <2> DEFINE n == req'[r]
  <2>1. cooldowns' = cooldowns /\ n.pc \in {"idle", "search", "prepare", "collect", "stuck"}
    BY <1>5, ScanDoes
  <2>2. CASE n.pc = "search"
    <3>1. q.pc \in {"resolve", "search"} /\ n.sel = q.sel
      BY <1>5, <2>2, ScanDoes
    <3> QED BY <1>k, <2>1, <2>2, <3>1 DEF ArmedWith
  <2>3. CASE n.pc = "prepare"
    <3>1. q.pc = "search" /\ n.ptr \in Live /\ accounts[n.ptr].id = q.sel
      BY <1>5, <2>3, ScanDoes
    <3>2. ConfigOrder[n.ptr] = q.sel
      BY <3>1 DEF ListInv, Live, Slots
    <3> QED BY <1>k, <2>1, <2>3, <3>1, <3>2 DEF ArmedWith
  <2>4. CASE n.pc \in {"idle", "collect", "stuck"}
    BY <1>k, <2>1, <2>4 DEF ArmedWith
  <2> QED BY <2>1, <2>2, <2>3, <2>4
<1>6. CASE GetNext(r)
  <2>1. PICK s \in q.found :
          req' = [req EXCEPT ![r] = [q EXCEPT !.pc = "prepare", !.ptr = s, !.found = {},
                                              !.cool = {}]]
    BY <1>6 DEF GetNext
  <2>2. req'[r].pc = "prepare" /\ req'[r].ptr = s /\ cooldowns' = cooldowns
    BY <1>6, <2>1, <1>q DEF GetNext, RequestType
  <2>3. ~CoolingNow(ConfigOrder[s])
    BY <1>6, <2>1 DEF GetNext, CollectInv, CoolingIds, CoolingNow
  <2>4. CASE ConfigOrder[s] = id
    BY <2>2, <2>3, <2>4 DEF HammerMove, CoolingNow
  <2>5. CASE ConfigOrder[s] # id
    BY <1>k, <2>2, <2>5 DEF ArmedWith
  <2> QED BY <2>4, <2>5
<1>7. CASE NoneAvailable(r)
  BY <1>7, <1>q, <1>k DEF NoneAvailable, RequestType, ArmedWith
<1>8. CASE StartRefresh(r)
  BY <1>8, <1>q, <1>k DEF StartRefresh, RequestType, ArmedWith
<1>9. CASE RefreshOk(r)
  <2>1. req'[r].pc = "send" /\ req'[r].ptr = q.ptr /\ q.pc = "refreshing"
    BY <1>9, <1>q DEF RefreshOk, RequestType
  <2> QED BY <1>9, <1>k, <2>1 DEF ArmedWith, RefreshOk
<1>10. CASE RefreshFail(r)
  BY <1>10, <1>f DEF RefreshFail
<1>11. CASE Send(r)
  <2>1. /\ q.pc \in {"prepare", "send"} /\ cooldowns' = cooldowns
        /\ req'[r].pc = "waiting" /\ ~ArmedWith(req'[r], id)
    BY <1>11, <1>q DEF Send, ReadyToSend, RequestType, ArmedWith
  <2>2. CoolingNow(id)' = CoolingNow(id)
    BY <2>1 DEF CoolingNow
  <2>3. CASE ConfigOrder[q.ptr] = id
    <3>1. r \in Armed(id) /\ Armed(id)' \subseteq Armed(id) \ {r}
      BY <1>o, <2>1, <2>3 DEF Armed, ArmedWith
    <3> QED BY <2>2, <3>1 DEF HammerMove
  <2>4. CASE ConfigOrder[q.ptr] # id
    <3>1. ~SentWith(id)
      BY <1>q, <2>4, SenderMoves
    <3> QED BY <1>m, <2>1, <2>2, <3>1 DEF HammerMove
  <2> QED BY <2>3, <2>4
<1>12. CASE BuildFails(r)
  BY <1>12, <1>q, <1>k DEF BuildFails, Idle, ArmedWith
<1>13. ASSUME NEW answer \in Answers, AnswerFailure(r, answer)
       PROVE  HammerMove(id)
  BY <1>13, <1>f DEF AnswerFailure
<1>14. ASSUME NEW answer \in Answers, AnswerSuccess(r, answer)
       PROVE  HammerMove(id)
  <2>1. req'[r].pc \in {"streaming", "bind"}
    BY <1>14, <1>q DEF AnswerSuccess, RequestType
  <2>2. ~ArmedWith(req'[r], id) /\ ~SentWith(id)
    BY <2>1, SenderMoves DEF ArmedWith
  <2> QED BY <1>m, <2>2 DEF HammerMove
<1>15. CASE Bind(r)
  BY <1>15, <1>q, <1>k DEF Bind, RequestType, ArmedWith
<1>16. CASE Finish(r)
  BY <1>16, <1>q, <1>k DEF Finish, Idle, ArmedWith
<1>17. CASE Return(r)
  BY <1>17, <1>q, <1>k DEF Return, Idle, ArmedWith
<1> QED BY <1>1, <1>2, <1>3, <1>4, <1>5, <1>6, <1>7, <1>8, <1>9, <1>10, <1>11, <1>12,
           <1>13, <1>14, <1>15, <1>16, <1>17 DEF RequestStep, Answering

\* What a step of a request means to one that collects: nothing, unless it is its own.
LEMMA RequestStepCollect ==
  ASSUME TypeOK, ListInv, CollectInv, NEW r \in Requests, RequestStep(r)
  PROVE  CollectInv'
<1> DEFINE q == req[r]
<1>q. q \in RequestType /\ req \in [Requests -> RequestType]
  BY DEF TypeOK
<1>o. \A t \in Requests \ {r} : req'[t] = req[t]
  BY OthersUnchanged
<1>k. ASSUME cooldowns' = cooldowns, req'[r].pc # "collect" PROVE CollectInv'
  BY <1>k, <1>o DEF CollectInv, CoolingIds, CoolingNow
\* The request has the lock for writing.
<1>w. ASSUME CanWrite, req'[r].pc # "collect" PROVE CollectInv'
  BY <1>w, <1>o DEF CollectInv, CanWrite, ReadingPcs
<1>t. ASSUME TryAnother(r) PROVE req'[r].pc # "collect"
  BY <1>t, <1>q DEF TryAnother, Select, RequestType
<1>1. ASSUME NEW kind \in Kinds, NEW key \in Keys \cup {NoKey}, Begin(r, kind, key)
      PROVE  CollectInv'
  <2>1. req'[r].pc = Select(key)
    BY <1>1, <1>q DEF Begin, Idle
  <2> QED BY <1>1, <1>k, <2>1 DEF Begin, Select
<1>2. CASE StickyLookup(r) \/ StickyInspect(r) \/ StickyCooling(r)
  <2>1. req'[r].pc \in {"inspect", "cooling", "resolve", "rotate"} /\ cooldowns' = cooldowns
    BY <1>2, <1>q DEF StickyLookup, StickyInspect, StickyCooling, Rotate, RequestType
  <2> QED BY <1>k, <2>1
<1>3. CASE Scan(r)
  <2> DEFINE n == req'[r]
  <2>1. CoolingIds' = CoolingIds /\ cooldowns' = cooldowns
    BY <1>3, ScanDoes DEF CoolingIds, CoolingNow
  <2>2. CASE n.pc # "collect"
    BY <1>k, <2>1, <2>2
  <2>3. CASE n.pc = "collect" /\ q.pc # "collect"
    <3>1. n.found = {} /\ n.cool = CoolingIds
      BY <1>3, <2>3, ScanDoes
    <3> QED BY <1>o, <2>1, <3>1 DEF CollectInv
  <2>4. CASE n.pc = "collect" /\ q.pc = "collect"
    <3>1. /\ n.cool = q.cool
          /\ \A s \in n.found :
               s \in q.found \/ (s \in Live /\ Available(s, q.excluded, q.cool))
      BY <1>3, <2>4, ScanDoes
    <3>2. \A s \in n.found : ConfigOrder[s] \notin q.cool
      BY <2>4, <3>1 DEF CollectInv, Available, ListInv, Live, Slots
    <3> QED BY <1>o, <2>1, <2>4, <3>1, <3>2 DEF CollectInv
  <2> QED BY <2>2, <2>3, <2>4
<1>4. CASE GetNext(r) \/ NoneAvailable(r)
  <2>1. req'[r].pc \in {"prepare", "refused"} /\ cooldowns' = cooldowns
    <3>1. CASE GetNext(r)
      BY <1>q, <3>1 DEF GetNext, RequestType
    <3>2. CASE NoneAvailable(r)
      BY <1>q, <3>2 DEF NoneAvailable, RequestType
    <3> QED BY <1>4, <3>1, <3>2
  <2> QED BY <1>k, <2>1
<1>8. CASE StartRefresh(r) \/ RefreshOk(r) \/ Send(r) \/ Bind(r)
  <2>1. req'[r].pc \in {"refreshing", "send", "waiting", "streaming"}
    BY <1>8, <1>q DEF StartRefresh, RefreshOk, Send, Bind, RequestType
  <2>2. cooldowns' = cooldowns
    BY <1>8 DEF StartRefresh, RefreshOk, Send, Bind
  <2> QED BY <1>k, <2>1, <2>2
<1>9. CASE BuildFails(r) \/ Finish(r) \/ Return(r)
  BY <1>9, <1>q, <1>k DEF BuildFails, Finish, Return, Idle
<1>5. CASE RefreshFail(r)
  BY <1>5, <1>t, <1>w DEF RefreshFail
<1>6. ASSUME NEW answer \in Answers, AnswerFailure(r, answer)
      PROVE  CollectInv'
  BY <1>6, <1>t, <1>w DEF AnswerFailure
<1>7. ASSUME NEW answer \in Answers, AnswerSuccess(r, answer)
      PROVE  CollectInv'
  <2>1. req'[r].pc \in {"streaming", "bind"} /\ CanWrite
    BY <1>7, <1>q DEF AnswerSuccess, RequestType
  <2> QED BY <1>w, <2>1
<1> QED BY <1>1, <1>2, <1>3, <1>4, <1>5, <1>6, <1>7, <1>8, <1>9 DEF RequestStep, Answering

\* Time and the operator make no account cool.
LEMMA EnvironmentCollect ==
  ASSUME TypeOK, CollectInv, Environment
  PROVE  CollectInv'
<1>1. req' = req
  BY EnvironmentKeepsRequests
<1>2. ASSUME CoolingIds' \subseteq CoolingIds PROVE CollectInv'
  BY <1>1, <1>2 DEF CollectInv
<1>3. CASE Tick
  BY <1>2, <1>3 DEF Tick, CoolingIds, CoolingNow, TypeOK
<1>4. CASE Reload
  BY <1>2, <1>4 DEF Reload, CoolingIds, CoolingNow
<1>5. CASE cooldowns' = cooldowns
  BY <1>2, <1>5 DEF CoolingIds, CoolingNow
<1> QED BY <1>3, <1>4, <1>5 DEF Environment, AgeToken, BackgroundRefresh, Toggle,
                                RefreshQuota

\* Time and the operator send nothing and make no account cool.
LEMMA EnvironmentHammer ==
  ASSUME TypeOK, Environment, NEW id \in Accounts
  PROVE  HammerMove(id)
<1>1. req' = req
  BY EnvironmentKeepsRequests
<1>2. ~SentWith(id) /\ Armed(id)' = Armed(id)
  BY <1>1 DEF SentWith, Armed
<1>3. CoolingNow(id)' => CoolingNow(id)
  <2>1. CASE Tick
    BY <2>1 DEF Tick, CoolingNow, TypeOK
  <2>2. CASE Reload
    BY <2>2 DEF Reload, CoolingNow
  <2>3. CASE cooldowns' = cooldowns
    BY <2>3 DEF CoolingNow
  <2> QED BY <2>1, <2>2, <2>3 DEF Environment, AgeToken, BackgroundRefresh, Toggle,
                                  RefreshQuota
<1> QED BY <1>2, <1>3 DEF HammerMove

\* The history's own types, and that it starts from nothing.
LEMMA HistoryStart == HistoryInit => HistoryType /\ HammerInv /\ CollectInv
<1> SUFFICES ASSUME HistoryInit PROVE HistoryType /\ HammerInv /\ CollectInv
  OBVIOUS
<1>1. HistoryType
  BY DEF HistoryInit, HistoryType
<1>2. ASSUME NEW id \in Accounts PROVE ~CoolingNow(id) /\ hits[id] = 0
  BY DEF Init, HistoryInit, CoolingNow
<1>3. CollectInv
  BY DEF Init, HistoryInit, CollectInv, Idle
<1> QED BY <1>1, <1>2, <1>3 DEF HammerInv

\* The history keeps its types.
LEMMA HistoryTypeStep ==
  TypeOK /\ TypeOK' /\ HistoryType /\ [Next /\ HistoryStep]_hvars => HistoryType'
<1> SUFFICES ASSUME TypeOK, TypeOK', HistoryType, [Next /\ HistoryStep]_hvars PROVE HistoryType'
  OBVIOUS
<1>1. CASE HistoryStep
  <2>1. hits' \in [Accounts -> Nat]
    BY <1>1 DEF HistoryStep, HistoryType
  <2>2. AvailableIds \subseteq Accounts /\ AvailableIds' \subseteq Accounts
    BY AvailableIdsType, ListAssumption
       DEF AvailableIds, CollectAvailable, Live, TypeOK, Slots, SlotType
  <2>3. steady' \in [Requests -> SUBSET Accounts]
    <3> DEFINE next(r) == IF req'[r].pc = "idle" THEN {}
                          ELSE IF Begins(r) THEN AvailableIds ELSE steady[r] \cap AvailableIds'
    <3>1. steady' = [r \in Requests |-> next(r)]
      BY <1>1 DEF HistoryStep
    <3>2. \A r \in Requests : next(r) \subseteq Accounts
      BY <2>2
    <3> QED BY <3>1, <3>2
  <2>4. anchor' \in [Requests -> Accounts \cup {NoId}]
    BY <1>1, <2>2 DEF HistoryStep, FirmIds
  <2>5. overdrawn' \in [Slots -> Nat]
    BY <1>1 DEF HistoryStep, HistoryType
  <2> QED BY <2>1, <2>3, <2>4, <2>5 DEF HistoryType
<1>2. CASE UNCHANGED hvars
  BY <1>2 DEF hvars, HistoryType
<1> QED BY <1>1, <1>2

\* A failing account is not hammered: while it cools, at most the other requests that had
\* already got past its cooldown check go upstream with it.
THEOREM FailingAccountSpared ==
  ASSUME Requests # {}
  PROVE  HistorySpec => []HammerBound
<1> DEFINE Inv == PoolInv /\ HistoryType /\ HammerInv /\ CollectInv
<1>1. HistoryInit => Inv
  BY PoolStart, HistoryStart DEF HistoryInit
<1>2. Inv /\ [Next /\ HistoryStep]_hvars => Inv'
  <2> SUFFICES ASSUME Inv, [Next /\ HistoryStep]_hvars PROVE HammerInv' /\ CollectInv'
    BY PoolStep, HistoryTypeStep DEF PoolInv
  <2>1. ASSUME NEW r \in Requests, RequestStep(r), HistoryStep
        PROVE  HammerInv' /\ CollectInv'
    BY <2>1, RequestStepHammer, RequestStepCollect, HammerMoveEnough DEF PoolInv
  <2>2. CASE Environment /\ HistoryStep
    BY <2>2, EnvironmentHammer, EnvironmentCollect, HammerMoveEnough DEF PoolInv
  <2>3. CASE UNCHANGED hvars
    BY <2>3 DEF hvars, vars, HammerInv, CollectInv, CoolingIds, CoolingNow, Armed
  <2> QED BY <2>1, <2>2, <2>3 DEF Next
<1>3. Inv => HammerBound
  <2> SUFFICES ASSUME Inv, NEW id \in Accounts
               PROVE  hits[id] <= Cardinality(Requests) - 1
    BY DEF HammerBound
  <2>1. Cardinality(Requests) \in Nat /\ Cardinality(Requests) # 0
    BY IdsAssumption, FS_EmptySet, FS_CardinalityType
  <2> QED BY <2>1, ArmedFinite DEF HammerInv, HistoryType
<1> QED BY <1>1, <1>2, <1>3, PTL DEF HistorySpec

-----------------------------------------------------------------------------
(* How far an account is used beyond its quota.                             *)

\* A request past its last look at the quota of a slot's account, from its locals.
OnSlot(q, s) ==
  \/ q.pc \in HoldingPcs /\ q.ptr = s
  \/ q.pc \in {"cooling", "resolve", "search"} /\ q.sel = ConfigOrder[s]
  \/ q.pc = "collect" /\ s \in q.found

\* The turns that may still be counted on the account of a slot.
InFlight(s) == {r \in Requests : OnSlot(req[r], s)}

\* QuotaOvershoot is not inductive: a turn that is not counted yet would break it.  While
\* the quota is spent nobody joins those in flight, and who is counted leaves them.
QuotaInv ==
  \A s \in Slots :
    IF QuotaSpent(accounts[s])
    THEN overdrawn[s] + Cardinality(InFlight(s)) <= Cardinality(Requests)
    ELSE overdrawn[s] = 0

\* The turns in flight are as many as the requests at most.
LEMMA InFlightBound ==
  ASSUME NEW s
  PROVE  /\ IsFiniteSet(InFlight(s)) /\ Cardinality(InFlight(s)) \in Nat
         /\ Cardinality(Requests) \in Nat
         /\ Cardinality(InFlight(s)) <= Cardinality(Requests)
<1>1. InFlight(s) \in SUBSET Requests
  BY DEF InFlight
<1>2. IsFiniteSet(InFlight(s)) /\ Cardinality(InFlight(s)) <= Cardinality(Requests)
  BY <1>1, IdsAssumption, FS_Subset
<1> QED BY <1>2, IdsAssumption, FS_CardinalityType

\* What a step may do to a slot whose quota is spent before and after it: count nothing and
\* put nobody on the slot, or count a turn that was on it.
QuotaMove(s) ==
  QuotaSpent(accounts[s]) /\ QuotaSpent(accounts[s])' =>
    \/ ~TurnCounted(s) /\ InFlight(s)' \subseteq InFlight(s)
    \/ \E r \in InFlight(s) : InFlight(s)' \subseteq InFlight(s) \ {r}

\* QuotaInv survives every step that moves each slot in one of these ways.
LEMMA QuotaMoveEnough ==
  ASSUME HistoryType, QuotaInv, HistoryStep, \A s \in Slots : QuotaMove(s)
  PROVE  QuotaInv'
<1> SUFFICES ASSUME NEW s \in Slots
             PROVE  IF QuotaSpent(accounts[s])'
                    THEN overdrawn'[s] + Cardinality(InFlight(s)') <= Cardinality(Requests)
                    ELSE overdrawn'[s] = 0
  BY DEF QuotaInv
<1> DEFINE before == InFlight(s)
           after == InFlight(s)'
<1>1. /\ IsFiniteSet(before) /\ Cardinality(before) \in Nat
      /\ Cardinality(Requests) \in Nat /\ overdrawn[s] \in Nat
  BY InFlightBound DEF HistoryType
<1>2. after \in SUBSET Requests
  BY DEF InFlight
<1>3. /\ IsFiniteSet(after) /\ Cardinality(after) \in Nat
      /\ Cardinality(after) <= Cardinality(Requests)
  <2>1. IsFiniteSet(after) /\ Cardinality(after) <= Cardinality(Requests)
    BY <1>2, IdsAssumption, FS_Subset
  <2> QED BY <2>1, FS_CardinalityType
<1>4. overdrawn'[s] = IF ~(QuotaSpent(accounts[s]) /\ QuotaSpent(accounts[s])') THEN 0
                      ELSE IF TurnCounted(s) THEN overdrawn[s] + 1 ELSE overdrawn[s]
  BY DEF HistoryStep
<1>5. QuotaSpent(accounts[s]) => overdrawn[s] + Cardinality(before) <= Cardinality(Requests)
  BY DEF QuotaInv
<1> HIDE DEF before, after
<1>6. CASE ~(QuotaSpent(accounts[s]) /\ QuotaSpent(accounts[s])')
  BY <1>1, <1>3, <1>4, <1>6 DEF after
<1>7. CASE /\ QuotaSpent(accounts[s]) /\ QuotaSpent(accounts[s])'
           /\ ~TurnCounted(s) /\ after \subseteq before
  <2>1. Cardinality(after) <= Cardinality(before)
    BY <1>1, <1>7, FS_Subset
  <2> QED BY <1>1, <1>3, <1>4, <1>5, <1>7, <2>1 DEF after
<1>8. CASE /\ QuotaSpent(accounts[s]) /\ QuotaSpent(accounts[s])'
           /\ \E r \in before : after \subseteq before \ {r}
  <2>1. PICK r \in before : after \subseteq before \ {r}
    BY <1>8
  <2>2. /\ IsFiniteSet(before \ {r})
        /\ Cardinality(before \ {r}) = Cardinality(before) - 1
    BY <1>1, FS_RemoveElement
  <2>3. Cardinality(after) <= Cardinality(before) - 1
    BY <2>1, <2>2, FS_Subset
  <2> QED BY <1>1, <1>3, <1>4, <1>5, <1>8, <2>3 DEF after
<1>9. QuotaMove(s)
  OBVIOUS
<1> QED BY <1>6, <1>7, <1>8, <1>9 DEF QuotaMove, before, after

\* A request gets onto a slot only past the quota check, and leaves it when it counts.
LEMMA RequestStepQuota ==
  ASSUME TypeOK, ListInv, NEW r \in Requests, RequestStep(r), NEW s \in Slots
  PROVE  QuotaMove(s)
<1> DEFINE q == req[r]
<1> SUFFICES ASSUME QuotaSpent(accounts[s])
             PROVE  \/ ~TurnCounted(s) /\ InFlight(s)' \subseteq InFlight(s)
                    \/ \E t \in InFlight(s) : InFlight(s)' \subseteq InFlight(s) \ {t}
  BY DEF QuotaMove
<1>q. /\ q \in RequestType /\ q.ptr \in Slots /\ req \in [Requests -> RequestType]
      /\ accounts \in [Slots -> SlotType] /\ accounts[s].used \in Nat
  BY DEF TypeOK, RequestType, SlotType
<1>o. \A t \in Requests \ {r} : req'[t] = req[t]
  BY OthersUnchanged
\* The request does not get onto the slot and the slot's count stays.
<1>k. ASSUME accounts'[s].used = accounts[s].used,
             OnSlot(req'[r], s) => OnSlot(q, s)
      PROVE  ~TurnCounted(s) /\ InFlight(s)' \subseteq InFlight(s)
  BY <1>k, <1>o, <1>q DEF TurnCounted, InFlight
<1>t. ASSUME TryAnother(r), accounts' = accounts PROVE InFlight(s)' \subseteq InFlight(s) /\ ~TurnCounted(s)
  BY <1>t, <1>q, <1>k DEF TryAnother, Select, RequestType, HoldingPcs, OnSlot
<1>r. ASSUME Rotate(r), accounts' = accounts PROVE InFlight(s)' \subseteq InFlight(s) /\ ~TurnCounted(s)
  BY <1>r, <1>q, <1>k DEF Rotate, RequestType, HoldingPcs, OnSlot
<1>1. ASSUME NEW kind \in Kinds, NEW key \in Keys \cup {NoKey}, Begin(r, kind, key)
      PROVE  InFlight(s)' \subseteq InFlight(s) /\ ~TurnCounted(s)
  <2>1. req'[r].pc = Select(key)
    BY <1>1, <1>q DEF Begin, Idle
  <2> QED BY <1>1, <1>k, <2>1 DEF Begin, Select, HoldingPcs, OnSlot
<1>2. CASE StickyLookup(r)
  <2>1. req'[r].pc \in {"inspect", "rotate"} /\ accounts' = accounts
    BY <1>2, <1>q DEF StickyLookup, Rotate, RequestType
  <2> QED BY <1>k, <2>1 DEF OnSlot, HoldingPcs
<1>3. CASE StickyInspect(r)
  <2>1. CASE Rotate(r)
    BY <1>3, <2>1, <1>r DEF StickyInspect
  <2>2. CASE ~Rotate(r)
    <3>1. PICK t \in Live : accounts[t].id = q.sel /\ ~QuotaSpent(accounts[t])
      BY <1>3, <2>2 DEF StickyInspect
    <3>2. q.sel # ConfigOrder[s]
      BY <3>1, ListAssumption DEF ListInv, Live, Slots
    <3>3. req' = [req EXCEPT ![r].pc = "cooling"] /\ accounts' = accounts
      BY <1>3, <2>2 DEF StickyInspect
    <3>4. req'[r].pc = "cooling" /\ req'[r].sel = q.sel
      BY <1>q, <3>3 DEF RequestType
    <3> QED BY <1>k, <3>2, <3>3, <3>4 DEF OnSlot, HoldingPcs
  <2> QED BY <2>1, <2>2
<1>4. CASE StickyCooling(r)
  BY <1>4, <1>q, <1>k, <1>r DEF StickyCooling, RequestType, HoldingPcs, OnSlot
<1>5. CASE Scan(r)
  <2> DEFINE n == req'[r]
  <2>s. accounts' = accounts /\ n.pc \in {"idle", "search", "prepare", "collect", "stuck"}
    BY <1>5, ScanDoes
  <2>2. CASE n.pc \in {"idle", "stuck"}
    BY <1>k, <2>s, <2>2 DEF OnSlot, HoldingPcs
  <2>3. CASE n.pc = "search"
    <3>1. q.pc \in {"resolve", "search"} /\ n.sel = q.sel
      BY <1>5, <2>3, ScanDoes
    <3> QED BY <1>k, <2>s, <2>3, <3>1 DEF OnSlot, HoldingPcs
  <2>4. CASE n.pc = "prepare"
    <3>1. q.pc = "search" /\ n.ptr \in Live /\ accounts[n.ptr].id = q.sel
      BY <1>5, <2>4, ScanDoes
    <3>2. ConfigOrder[n.ptr] = q.sel
      BY <3>1 DEF ListInv, Live, Slots
    <3> QED BY <1>k, <2>s, <2>4, <3>1, <3>2 DEF OnSlot, HoldingPcs
  <2>5. CASE n.pc = "collect" /\ q.pc # "collect"
    <3>1. n.found = {}
      BY <1>5, <2>5, ScanDoes
    <3> QED BY <1>k, <2>s, <2>5, <3>1 DEF OnSlot, HoldingPcs
  <2>6. CASE n.pc = "collect" /\ q.pc = "collect"
    <3>1. s \in n.found => s \in q.found \/ Available(s, q.excluded, q.cool)
      BY <1>5, <2>6, ScanDoes
    <3>2. s \in n.found => s \in q.found
      BY <3>1 DEF Available
    <3> QED BY <1>k, <2>s, <2>6, <3>2 DEF OnSlot, HoldingPcs
  <2> QED BY <2>s, <2>2, <2>3, <2>4, <2>5, <2>6
<1>6. CASE GetNext(r)
  <2>1. PICK t \in q.found :
          req' = [req EXCEPT ![r] = [q EXCEPT !.pc = "prepare", !.ptr = t, !.found = {},
                                              !.cool = {}]]
    BY <1>6 DEF GetNext
  <2>2. /\ req'[r].pc = "prepare" /\ req'[r].ptr = t /\ accounts' = accounts
        /\ q.pc = "collect"
    BY <1>6, <2>1, <1>q DEF GetNext, RequestType
  <2> QED BY <1>k, <2>2 DEF OnSlot, HoldingPcs
<1>7. CASE NoneAvailable(r)
  BY <1>7, <1>q, <1>k DEF NoneAvailable, RequestType, HoldingPcs, OnSlot
<1>8. CASE StartRefresh(r)
  BY <1>8, <1>q, <1>k DEF StartRefresh, RequestType, HoldingPcs, OnSlot
<1>9. CASE RefreshOk(r)
  <2>1. accounts'[s].used = accounts[s].used
    BY <1>9, <1>q DEF RefreshOk, WithToken, SlotType
  <2>2. req'[r].pc = "send" /\ req'[r].ptr = q.ptr /\ q.pc = "refreshing"
    BY <1>9, <1>q DEF RefreshOk, RequestType
  <2> QED BY <1>k, <2>1, <2>2 DEF OnSlot, HoldingPcs
<1>10. CASE RefreshFail(r)
  BY <1>10, <1>t DEF RefreshFail
<1>11. CASE Send(r)
  BY <1>11, <1>q, <1>k DEF Send, ReadyToSend, RequestType, HoldingPcs, OnSlot
<1>12. CASE BuildFails(r)
  BY <1>12, <1>q, <1>k DEF BuildFails, Idle, HoldingPcs, OnSlot
<1>13. ASSUME NEW answer \in Answers, AnswerFailure(r, answer)
       PROVE  InFlight(s)' \subseteq InFlight(s) /\ ~TurnCounted(s)
  BY <1>13, <1>t DEF AnswerFailure
<1>14. ASSUME NEW answer \in Answers, AnswerSuccess(r, answer)
       PROVE  InFlight(s)' \subseteq InFlight(s) /\ ~TurnCounted(s)
  BY <1>14, <1>q, <1>k DEF AnswerSuccess, RequestType, HoldingPcs, OnSlot
<1>15. CASE Bind(r)
  BY <1>15, <1>q, <1>k DEF Bind, RequestType, HoldingPcs, OnSlot
<1>16. CASE Finish(r)
  <2>1. req'[r].pc = "idle" /\ q.pc = "streaming"
    BY <1>16, <1>q DEF Finish, Idle
  <2>2. CASE accounts'[s].used = accounts[s].used
    BY <1>k, <2>1, <2>2 DEF OnSlot, HoldingPcs
  <2>3. CASE accounts'[s].used # accounts[s].used
    <3>1. accounts[s].id = accounts[q.ptr].id
      BY <1>16, <2>3, <1>q DEF Finish, WithOneMoreUse, SlotType
    <3>2. q.ptr = s
      BY <3>1, <1>q, ListAssumption DEF ListInv
    <3>3. r \in InFlight(s) /\ r \notin InFlight(s)'
      BY <2>1, <3>2 DEF InFlight, OnSlot, HoldingPcs
    <3>4. InFlight(s)' \subseteq InFlight(s) \ {r}
      BY <1>o, <3>3 DEF InFlight
    <3> QED BY <3>3, <3>4
  <2> QED BY <2>2, <2>3
<1>17. CASE Return(r)
  BY <1>17, <1>q, <1>k DEF Return, Idle, HoldingPcs, OnSlot
<1> QED BY <1>1, <1>2, <1>3, <1>4, <1>5, <1>6, <1>7, <1>8, <1>9, <1>10, <1>11, <1>12,
           <1>13, <1>14, <1>15, <1>16, <1>17 DEF RequestStep, Answering

\* Nothing gets onto a slot by itself, and no turn ends, whatever a poll reports.
LEMMA EnvironmentQuota ==
  ASSUME Environment, NEW s \in Slots
  PROVE  QuotaMove(s)
<1>1. req' = req
  BY EnvironmentKeepsRequests
<1>2. InFlight(s)' = InFlight(s) /\ ~TurnCounted(s)
  BY <1>1 DEF InFlight, TurnCounted
<1> QED BY <1>2 DEF QuotaMove

\* While an account's quota is spent, at most one turn per request goroutine is counted on
\* it, whatever the polls of its quota report.
THEOREM QuotaOvershootBounded == HistorySpec => []QuotaOvershoot
<1> DEFINE Inv == PoolInv /\ HistoryType /\ QuotaInv
<1>1. HistoryInit => Inv
  <2> SUFFICES ASSUME HistoryInit, NEW s \in Slots
               PROVE  overdrawn[s] = 0 /\ Cardinality(InFlight(s)) <= Cardinality(Requests)
                      /\ Cardinality(InFlight(s)) \in Nat /\ Cardinality(Requests) \in Nat
    BY PoolStart, HistoryStart DEF HistoryInit, QuotaInv
  <2> QED BY InFlightBound DEF HistoryInit
<1>2. Inv /\ [Next /\ HistoryStep]_hvars => Inv'
  <2> SUFFICES ASSUME Inv, [Next /\ HistoryStep]_hvars PROVE QuotaInv'
    BY PoolStep, HistoryTypeStep DEF PoolInv
  <2>1. ASSUME NEW r \in Requests, RequestStep(r), HistoryStep PROVE QuotaInv'
    BY <2>1, RequestStepQuota, QuotaMoveEnough DEF PoolInv
  <2>2. CASE Environment /\ HistoryStep
    BY <2>2, EnvironmentQuota, QuotaMoveEnough
  <2>3. CASE UNCHANGED hvars
    BY <2>3 DEF hvars, vars, QuotaInv, InFlight, QuotaSpent
  <2> QED BY <2>1, <2>2, <2>3 DEF Next
<1>3. Inv => QuotaOvershoot
  <2> SUFFICES ASSUME Inv, NEW s \in Slots PROVE overdrawn[s] <= Cardinality(Requests)
    BY DEF QuotaOvershoot
  <2> QED BY InFlightBound DEF QuotaInv, HistoryType
<1> QED BY <1>1, <1>2, <1>3, PTL DEF HistorySpec

-----------------------------------------------------------------------------
(* When a request is refused.                                               *)

\* The accounts of the list.
ListIds == {ConfigOrder[s] : s \in Slots}

\* A scan does not pass over an account that stays available.
CollectsSteady(q, ids) ==
  /\ ids \cap q.cool = {}
  /\ \A s \in Slots : ConfigOrder[s] \in ids => s \in q.todo \cup q.found

\* Each attempt that fails excludes one more account and cools it, so an account that
\* stayed available was not excluded; and a request gives up with one such account left
\* only after three attempts.
SteadyOk(r) ==
  /\ steady[r] \subseteq AvailableIds
  /\ steady[r] \cap req[r].excluded = {}
  /\ req[r].excluded \subseteq ListIds /\ IsFiniteSet(req[r].excluded)
  /\ Cardinality(req[r].excluded) = req[r].attempt
  /\ req[r].pc = "refused" => steady[r] = {} \/ req[r].attempt >= 3
  /\ req[r].pc = "collect" => CollectsSteady(req[r], steady[r])
SteadyInv == \A r \in Requests : SteadyOk(r)

\* How the history follows one request.
LEMMA SteadyFollows ==
  ASSUME HistoryStep, NEW r \in Requests
  PROVE  /\ req'[r].pc = "idle" => steady'[r] = {}
         /\ req'[r].pc # "idle" /\ Begins(r) => steady'[r] = AvailableIds
         /\ req'[r].pc # "idle" /\ ~Begins(r) => steady'[r] = steady[r] \cap AvailableIds'
BY DEF HistoryStep

\* A request that a step leaves alone, or only moves on with the same attempts.
LEMMA SteadyKept ==
  ASSUME HistoryStep, NEW r \in Requests, SteadyOk(r), ~Begins(r),
         req'[r].excluded = req[r].excluded, req'[r].attempt = req[r].attempt,
         req'[r].pc = "refused" => steady[r] = {} \/ req[r].attempt >= 3,
         req'[r].pc = "collect" => CollectsSteady(req'[r], steady[r])
  PROVE  SteadyOk(r)'
<1>1. steady'[r] \subseteq steady[r] /\ (req'[r].pc # "idle" => steady'[r] \subseteq AvailableIds')
  BY SteadyFollows
<1>2. req'[r].pc = "idle" => steady'[r] = {}
  BY SteadyFollows
<1>3. req'[r].pc = "collect" => CollectsSteady(req'[r], steady'[r])
  BY <1>1 DEF CollectsSteady
<1> QED BY <1>1, <1>2, <1>3 DEF SteadyOk

\* A request that has been answered leaves nothing behind for the next one.
LEMMA SteadyCleared ==
  ASSUME HistoryStep, NEW r \in Requests, req'[r] = Idle
  PROVE  SteadyOk(r)'
<1>1. steady'[r] = {}
  BY SteadyFollows DEF Idle
<1> QED BY <1>1, FS_EmptySet DEF SteadyOk, Idle

\* The account of a failed attempt is new among the excluded ones, and it is not available
\* for as long as it cools.
LEMMA SteadyFailure ==
  ASSUME PoolInv, HistoryStep, NEW r \in Requests, SteadyOk(r), req[r].pc \in HoldingPcs,
         NEW status, NEW quotaText, UNCHANGED <<accounts, live>>,
         RecordFailure(accounts[req[r].ptr].id, status, quotaText), TryAnother(r)
  PROVE  SteadyOk(r)'
<1> DEFINE q == req[r]
<1>0. PICK id \in Accounts : id = accounts[q.ptr].id
  BY DEF PoolInv, TypeOK, RequestType, SlotType
<1>1. /\ q \in RequestType /\ q.ptr \in Slots /\ req \in [Requests -> RequestType]
      /\ id = ConfigOrder[q.ptr] /\ id \notin q.excluded
  BY <1>0 DEF PoolInv, TypeOK, ListInv, ExclusionInv, RequestType
<1>2. /\ req'[r].pc = IF q.attempt + 1 < q.limit THEN Select(q.key) ELSE "refused"
      /\ req'[r].excluded = q.excluded \cup {id}
      /\ req'[r].attempt = q.attempt + 1
  BY <1>0, <1>1 DEF TryAnother, RequestType
<1>3. CoolingNow(id)'
  <2>1. CooldownOf[Classify(status, quotaText)] \in Nat \ {0}
    BY ClassifyType, TimingAssumption
  <2>2. id \in DOMAIN cooldowns' /\ cooldowns'[id] = CooldownOf[Classify(status, quotaText)]
    BY <1>0 DEF RecordFailure
  <2> QED BY <2>1, <2>2 DEF CoolingNow
<1>4. id \notin AvailableIds'
  BY <1>3 DEF AvailableIds, CollectAvailable, Available, CoolingIds, CoolingNow
<1>5. req'[r].pc # "idle" /\ ~Begins(r)
  BY <1>2 DEF Select, Begins, HoldingPcs
<1>6. steady'[r] = steady[r] \cap AvailableIds'
  BY <1>5, SteadyFollows
<1>7. /\ q.excluded \cup {id} \subseteq ListIds /\ IsFiniteSet(q.excluded \cup {id})
      /\ Cardinality(q.excluded \cup {id}) = q.attempt + 1
  BY <1>1, FS_AddElement DEF SteadyOk, ListIds
<1>8. req'[r].pc # "collect" /\ (req'[r].pc = "refused" => req'[r].attempt >= 3)
  BY <1>1, <1>2 DEF Select, RequestType
<1> QED BY <1>2, <1>4, <1>6, <1>7, <1>8 DEF SteadyOk

\* A request that finds no account has none left that stayed available: it excluded none.
LEMMA RequestStepSteady ==
  ASSUME PoolInv, SteadyInv, HistoryStep, NEW r \in Requests, RequestStep(r)
  PROVE  SteadyInv'
<1> DEFINE q == req[r]
<1>q. /\ q \in RequestType /\ req \in [Requests -> RequestType] /\ SteadyOk(r)
      /\ TypeOK /\ ListInv
  BY DEF PoolInv, TypeOK, SteadyInv
<1>o. \A t \in Requests \ {r} : req'[t] = req[t]
  BY <1>q, OthersUnchanged
<1>e. SUFFICES SteadyOk(r)'
  <2>1. ASSUME NEW t \in Requests \ {r} PROVE SteadyOk(t)'
    <3>1. SteadyOk(t) /\ ~Begins(t) /\ req'[t] = req[t]
      BY <1>o DEF SteadyInv, Begins
    <3> QED BY <3>1, SteadyKept DEF SteadyOk
  <2> QED BY <2>1 DEF SteadyInv
\* The request moves on with the same attempts, and is not refused.
<1>k. ASSUME q.pc # "idle", req'[r].pc \notin {"refused", "collect"},
             req'[r].excluded = q.excluded, req'[r].attempt = q.attempt
      PROVE  SteadyOk(r)'
  BY <1>k, <1>q, SteadyKept DEF Begins
<1>r. ASSUME Rotate(r), q.pc # "idle" PROVE SteadyOk(r)'
  BY <1>r, <1>q, <1>k DEF Rotate, RequestType
<1>1. ASSUME NEW kind \in Kinds, NEW key \in Keys \cup {NoKey}, Begin(r, kind, key)
      PROVE  SteadyOk(r)'
  <2>1. /\ q.pc = "idle" /\ req'[r].pc = Select(key) /\ req'[r].excluded = {}
        /\ req'[r].attempt = 0
    BY <1>1, <1>q DEF Begin, Idle
  <2>2. Begins(r) /\ req'[r].pc \notin {"idle", "refused", "collect"}
    BY <2>1 DEF Select, Begins
  <2>3. AvailableIds' = AvailableIds
    BY <1>1 DEF Begin, AvailableIds, CollectAvailable, Available, CoolingIds, CoolingNow, Live,
                Unusable, QuotaSpent
  <2> QED BY <2>1, <2>2, <2>3, SteadyFollows, FS_EmptySet DEF SteadyOk
<1>2. CASE StickyLookup(r)
  BY <1>2, <1>q, <1>k, <1>r DEF StickyLookup, RequestType
<1>3. CASE StickyInspect(r)
  BY <1>3, <1>q, <1>k, <1>r DEF StickyInspect, RequestType
<1>4. CASE StickyCooling(r)
  BY <1>4, <1>q, <1>k, <1>r DEF StickyCooling, RequestType
<1>5. CASE Scan(r)
  <2> DEFINE n == req'[r]
  <2>1. CASE n.pc = "idle"
    BY <1>5, <1>q, <2>1, ScanDoes, SteadyCleared
  <2>2. CASE n.pc # "idle"
    <3>1. /\ q.pc # "idle" /\ n.pc \notin {"idle", "refused"}
          /\ n.excluded = q.excluded /\ n.attempt = q.attempt
      BY <1>5, <1>q, <2>2, ScanDoes
    <3>2. CASE n.pc # "collect"
      BY <1>k, <3>1, <3>2
    <3>3. ASSUME CollectsSteady(n, steady[r]) PROVE SteadyOk(r)'
      BY <1>q, <3>1, <3>3, SteadyKept DEF Begins
    <3>4. CASE n.pc = "collect" /\ q.pc # "collect"
      <4>1. n.todo = Live /\ Live = Slots /\ n.cool = CoolingIds
        BY <1>5, <1>q, <3>4, ScanDoes DEF ListInv, Live, Slots
      <4>2. steady[r] \cap CoolingIds = {}
        BY <1>q DEF SteadyOk, AvailableIds, CollectAvailable, Available
      <4> QED BY <3>3, <4>1, <4>2 DEF CollectsSteady
    <3>5. CASE n.pc = "collect" /\ q.pc = "collect"
      <4>1. /\ n.cool = q.cool /\ q.found \subseteq n.found
            /\ \A s \in q.todo :
                 s \in n.todo \cup n.found \/ ~Available(s, q.excluded, q.cool)
        BY <1>5, <1>q, <3>5, ScanDoes
      <4>2. /\ steady[r] \cap q.cool = {}
            /\ \A s \in Slots : ConfigOrder[s] \in steady[r] => s \in q.todo \cup q.found
        BY <1>q, <3>5 DEF SteadyOk, CollectsSteady
      <4>3. ASSUME NEW s \in Slots, ConfigOrder[s] \in steady[r]
            PROVE  Available(s, q.excluded, q.cool)
        <5>1. PICK t \in Live : accounts[t].id = ConfigOrder[s] /\ Available(t, {}, CoolingIds)
          BY <1>q, <4>3 DEF SteadyOk, AvailableIds, CollectAvailable
        <5>2. t = s
          BY <1>q, <5>1, ListAssumption DEF ListInv, Live, Slots
        <5>3. ConfigOrder[s] \notin q.excluded \cup q.cool /\ accounts[s].id = ConfigOrder[s]
          BY <1>q, <4>2, <4>3 DEF SteadyOk, ListInv
        <5> QED BY <5>1, <5>2, <5>3 DEF Available
      <4> QED BY <3>3, <4>1, <4>2, <4>3 DEF CollectsSteady
    <3> QED BY <3>2, <3>4, <3>5
  <2> QED BY <2>1, <2>2
<1>6. CASE GetNext(r)
  BY <1>6, <1>q, <1>k DEF GetNext, RequestType
<1>7. CASE NoneAvailable(r)
  <2>1. /\ q.pc = "collect" /\ q.todo = {} /\ q.found = {} /\ req'[r].pc = "refused"
        /\ req'[r].excluded = q.excluded /\ req'[r].attempt = q.attempt
    BY <1>7, <1>q DEF NoneAvailable, RequestType
  <2>2. \A s \in Slots : ConfigOrder[s] \notin steady[r]
    BY <1>q, <2>1 DEF SteadyOk, CollectsSteady
  <2>3. AvailableIds \subseteq ListIds
    BY <1>q DEF AvailableIds, CollectAvailable, ListIds, ListInv, Live, Slots
  <2>4. steady[r] = {}
    BY <1>q, <2>2, <2>3 DEF SteadyOk, ListIds
  <2> QED BY <1>q, <2>1, <2>4, SteadyKept DEF Begins
<1>8. CASE StartRefresh(r)
  BY <1>8, <1>q, <1>k DEF StartRefresh, RequestType
<1>9. CASE RefreshOk(r)
  BY <1>9, <1>q, <1>k DEF RefreshOk, RequestType
<1>10. CASE RefreshFail(r)
  BY <1>10, <1>q, SteadyFailure DEF RefreshFail, HoldingPcs
<1>11. CASE Send(r)
  BY <1>11, <1>q, <1>k DEF Send, ReadyToSend, RequestType
<1>12. CASE BuildFails(r)
  BY <1>12, <1>q, SteadyCleared DEF BuildFails
<1>13. ASSUME NEW answer \in Answers, AnswerFailure(r, answer)
       PROVE  SteadyOk(r)'
  BY <1>13, <1>q, SteadyFailure DEF AnswerFailure, HoldingPcs
<1>14. ASSUME NEW answer \in Answers, AnswerSuccess(r, answer)
       PROVE  SteadyOk(r)'
  <2>1. /\ req'[r].pc \in {"streaming", "bind"} /\ q.pc = "waiting"
        /\ req'[r].excluded = q.excluded /\ req'[r].attempt = q.attempt
    BY <1>14, <1>q DEF AnswerSuccess, RequestType
  <2> QED BY <1>k, <2>1
<1>15. CASE Bind(r)
  BY <1>15, <1>q, <1>k DEF Bind, RequestType
<1>16. CASE Finish(r)
  BY <1>16, <1>q, SteadyCleared DEF Finish
<1>17. CASE Return(r)
  BY <1>17, <1>q, SteadyCleared DEF Return
<1> QED BY <1>1, <1>2, <1>3, <1>4, <1>5, <1>6, <1>7, <1>8, <1>9, <1>10, <1>11, <1>12,
           <1>13, <1>14, <1>15, <1>16, <1>17 DEF RequestStep, Answering

\* SteadyInv holds at every state of the pool with its history.
LEMMA SteadyAlways == HistorySpec => [](PoolInv /\ SteadyInv)
<1> DEFINE Inv == PoolInv /\ SteadyInv
<1>1. HistoryInit => Inv
  <2> SUFFICES ASSUME HistoryInit, NEW r \in Requests PROVE SteadyOk(r)
    BY PoolStart DEF HistoryInit, SteadyInv
  <2>1. steady[r] = {} /\ req[r] = Idle
    BY DEF Init, HistoryInit
  <2> QED BY <2>1, FS_EmptySet DEF SteadyOk, Idle
<1>2. Inv /\ [Next /\ HistoryStep]_hvars => Inv'
  <2> SUFFICES ASSUME Inv, [Next /\ HistoryStep]_hvars PROVE SteadyInv'
    BY PoolStep
  <2>1. ASSUME NEW r \in Requests, RequestStep(r), HistoryStep PROVE SteadyInv'
    BY <2>1, RequestStepSteady
  <2>2. ASSUME Environment, HistoryStep, NEW r \in Requests PROVE SteadyOk(r)'
    <3>1. req'[r] = req[r] /\ ~Begins(r) /\ SteadyOk(r)
      BY <2>2, EnvironmentKeepsRequests DEF Begins, SteadyInv
    <3> QED BY <2>2, <3>1, SteadyKept DEF SteadyOk
  <2>3. CASE UNCHANGED hvars
    BY <2>3 DEF hvars, vars, SteadyInv, SteadyOk, CollectsSteady, AvailableIds, CollectAvailable,
                Available, CoolingIds, CoolingNow, Live, Unusable, QuotaSpent
  <2> QED BY <2>1, <2>2, <2>3 DEF Next, SteadyInv
<1> QED BY <1>1, <1>2, PTL DEF HistorySpec

\* Whatever the number of accounts, a request that is refused although an account stayed
\* available has failed with three others first.
RefusedAfterThree ==
  \A r \in Requests : req[r].pc = "refused" =>
    steady[r] = {} \/ Cardinality(req[r].excluded) >= 3

\* RetryLimit never gives a request fewer than three accounts to fail with.
THEOREM RefusalTakesThree == HistorySpec => []RefusedAfterThree
<1>1. PoolInv /\ SteadyInv => RefusedAfterThree
  BY DEF SteadyInv, SteadyOk, RefusedAfterThree
<1> QED BY <1>1, SteadyAlways, PTL

\* With up to three accounts a request is refused only if none was available from its
\* first moment to its last.
THEOREM RefusedForGoodReason ==
  ASSUME Cap <= 3
  PROVE  HistorySpec => []RefusedOnlyWhenNoneStayed
<1>1. IsFiniteSet(ListIds) /\ Cardinality(ListIds) <= Cap
  <2>1. IsFiniteSet(Slots) /\ Cardinality(Slots) = Cap
    BY FS_Interval, ListAssumption DEF Slots
  <2>2. ConfigOrder \in Surjection(Slots, ListIds)
    BY ListAssumption DEF Surjection, ListIds
  <2> QED BY <2>1, <2>2, FS_Surjection
<1>2. PoolInv /\ SteadyInv => RefusedOnlyWhenNoneStayed
  <2> SUFFICES ASSUME PoolInv, SteadyInv, NEW r \in Requests, req[r].pc = "refused",
                      steady[r] # {}
               PROVE  FALSE
    BY DEF RefusedOnlyWhenNoneStayed
  <2>1. /\ steady[r] \subseteq AvailableIds /\ steady[r] \cap req[r].excluded = {}
        /\ IsFiniteSet(req[r].excluded) /\ Cardinality(req[r].excluded) >= 3
    BY DEF SteadyInv, SteadyOk
  <2>2. req[r].excluded \subseteq ListIds /\ AvailableIds \subseteq ListIds
    <3>1. Live \subseteq Slots
      BY ListAssumption DEF PoolInv, TypeOK, Live, Slots
    <3> QED BY <3>1 DEF SteadyInv, SteadyOk, PoolInv, ListInv, AvailableIds, CollectAvailable,
                        ListIds
  <2>3. req[r].excluded = ListIds
    <3>1. Cardinality(req[r].excluded) \in Nat /\ Cardinality(ListIds) \in Nat
      BY <1>1, <2>1, FS_CardinalityType
    <3>2. Cardinality(req[r].excluded) <= Cardinality(ListIds)
      BY <1>1, <2>2, FS_Subset
    <3>3. Cardinality(req[r].excluded) = Cardinality(ListIds)
      BY <1>1, <2>1, <3>1, <3>2, ListAssumption
    <3> QED BY <1>1, <2>2, <3>3, FS_Subset
  <2> QED BY <2>1, <2>2, <2>3
<1> QED BY <1>2, SteadyAlways, PTL

-----------------------------------------------------------------------------
(* A conversation stays on its account.                                     *)

\* A request whose binding and account have been good since it began is on its way through
\* AccountForSticky: every look it takes finds the account of the binding.
AnchorOk(r) ==
  anchor[r] # NoId =>
    /\ anchor[r] \in FirmIds
    /\ req[r].excluded = {}
    /\ \/ req[r].pc = "sticky" /\ FreshBinding(sticky, req[r].key) = anchor[r]
       \/ req[r].pc \in {"inspect", "cooling", "resolve"} /\ req[r].sel = anchor[r]
       \/ /\ req[r].pc = "search" /\ req[r].sel = anchor[r]
          /\ \E s \in req[r].todo : ConfigOrder[s] = anchor[r]
AnchorInv == \A r \in Requests : AnchorOk(r)

\* How the history follows the first selection of a request.
LEMMA AnchorFollows ==
  ASSUME HistoryStep, NEW r \in Requests, anchor'[r] # NoId
  PROVE  /\ req'[r].pc \in SelectingPcs
         /\ anchor'[r] \in FirmIds'
         /\ anchor'[r] = IF Begins(r) THEN FreshBinding(sticky, req'[r].key) ELSE anchor[r]
         /\ req'[r].pc = "sticky" => FreshBinding(sticky', req'[r].key) = anchor'[r]
BY DEF HistoryStep

\* The bindings of no key: a request without one has no home.
LEMMA NoKeyUnbound ==
  ASSUME TypeOK
  PROVE  FreshBinding(sticky, NoKey) = NoId
BY IdsAssumption DEF TypeOK, FreshBinding

\* A request left alone keeps its anchor only while it is good.
LEMMA AnchorKept ==
  ASSUME HistoryStep, NEW r \in Requests, AnchorOk(r), req'[r] = req[r]
  PROVE  AnchorOk(r)'
<1> SUFFICES ASSUME anchor'[r] # NoId PROVE AnchorOk(r)'
  BY DEF AnchorOk
<1>1. ~Begins(r)
  BY DEF Begins
<1> QED BY <1>1, AnchorFollows DEF AnchorOk

\* Each look of AccountForSticky finds an anchored request's account as it should be.
LEMMA RequestStepAnchor ==
  ASSUME TypeOK, ListInv, AnchorInv, HistoryStep, NEW r \in Requests, RequestStep(r)
  PROVE  AnchorInv'
<1> DEFINE q == req[r]
<1>q. q \in RequestType /\ req \in [Requests -> RequestType] /\ AnchorOk(r)
  BY DEF TypeOK, AnchorInv
<1>e. SUFFICES ASSUME anchor'[r] # NoId PROVE AnchorOk(r)'
  <2>1. ASSUME NEW t \in Requests \ {r} PROVE AnchorOk(t)'
    BY OthersUnchanged, AnchorKept DEF AnchorInv
  <2>2. AnchorOk(r)'
    BY <1>e DEF AnchorOk
  <2> QED BY <2>1, <2>2 DEF AnchorInv
<1>f. /\ req'[r].pc \in SelectingPcs /\ anchor'[r] \in FirmIds'
      /\ req'[r].pc = "sticky" => FreshBinding(sticky', req'[r].key) = anchor'[r]
      /\ ~Begins(r) => anchor'[r] = anchor[r]
      /\ Begins(r) => anchor'[r] = FreshBinding(sticky, req'[r].key)
  BY <1>e, AnchorFollows
\* An anchored request's account is available and has no entry in the cooldown table.
<1>a. ASSUME q.pc # "idle"
      PROVE  /\ anchor'[r] = anchor[r] /\ anchor[r] # NoId /\ q.excluded = {}
             /\ anchor[r] \notin DOMAIN cooldowns
             /\ \E s \in Live : accounts[s].id = anchor[r] /\ Available(s, {}, CoolingIds)
             /\ \/ q.pc = "sticky" /\ FreshBinding(sticky, q.key) = anchor[r]
                \/ q.pc \in {"inspect", "cooling", "resolve"} /\ q.sel = anchor[r]
                \/ /\ q.pc = "search" /\ q.sel = anchor[r]
                   /\ \E s \in q.todo : ConfigOrder[s] = anchor[r]
  <2>1. ~Begins(r)
    BY <1>a DEF Begins
  <2>2. anchor'[r] = anchor[r] /\ anchor[r] # NoId
    BY <1>e, <1>f, <2>1
  <2> QED BY <1>q, <2>2 DEF AnchorOk, FirmIds, AvailableIds, CollectAvailable
\* The request goes on with the account of its binding.
<1>k. ASSUME q.pc # "idle", req'[r].excluded = q.excluded, req'[r].sel = anchor[r],
             req'[r].pc \in {"inspect", "cooling", "resolve"}
      PROVE  AnchorOk(r)'
  BY <1>k, <1>a, <1>f DEF AnchorOk
\* A request that is past its selection, or gives it up, has no anchor left.
<1>n. ASSUME req'[r].pc \notin SelectingPcs PROVE AnchorOk(r)'
  BY <1>n, <1>f
<1>t. ASSUME q.pc \notin {"idle", "sticky", "inspect", "cooling", "resolve", "search"}
      PROVE  AnchorOk(r)'
  BY <1>t, <1>a
<1>1. ASSUME NEW kind \in Kinds, NEW key \in Keys \cup {NoKey}, Begin(r, kind, key)
      PROVE  AnchorOk(r)'
  <2>1. /\ q.pc = "idle" /\ req'[r].pc = Select(key) /\ req'[r].excluded = {}
        /\ req'[r].key = key
    BY <1>1, <1>q DEF Begin, Idle
  <2>2. anchor'[r] = FreshBinding(sticky, key)
    BY <1>f, <2>1 DEF Begins, Select
  <2>3. key # NoKey
    BY <1>e, <2>2, NoKeyUnbound
  <2> QED BY <1>f, <2>1, <2>3 DEF AnchorOk, Select
<1>2. CASE StickyLookup(r)
  <2>1. q.pc = "sticky" /\ FreshBinding(sticky, q.key) = anchor[r] /\ anchor[r] # NoId
    BY <1>2, <1>a DEF StickyLookup
  <2>2. /\ q.key \in DOMAIN sticky /\ sticky[q.key].ttl > 0
        /\ sticky[q.key].account = anchor[r] /\ anchor[r] \notin q.excluded
    BY <1>a, <2>1 DEF FreshBinding
  <2>3. req' = [req EXCEPT ![r] = [@ EXCEPT !.pc = "inspect", !.sel = sticky[q.key].account]]
    BY <1>2, <2>2 DEF StickyLookup
  <2>4. req'[r].pc = "inspect" /\ req'[r].sel = anchor[r] /\ req'[r].excluded = q.excluded
    BY <1>q, <2>2, <2>3 DEF RequestType
  <2> QED BY <1>k, <2>1, <2>4
<1>3. CASE StickyInspect(r)
  <2>1. q.pc = "inspect" /\ q.sel = anchor[r]
    BY <1>3, <1>a DEF StickyInspect
  <2>2. \E s \in Live : /\ accounts[s].id = q.sel /\ accounts[s].enabled
                        /\ ~Unusable(accounts[s]) /\ ~QuotaSpent(accounts[s])
    BY <1>a, <2>1 DEF Available
  <2>3. req' = [req EXCEPT ![r].pc = "cooling"]
    BY <1>3, <2>2 DEF StickyInspect
  <2> QED BY <1>q, <1>k, <2>1, <2>3 DEF RequestType
<1>4. CASE StickyCooling(r)
  <2>1. q.pc = "cooling" /\ q.sel = anchor[r] /\ q.sel \notin DOMAIN cooldowns
    BY <1>4, <1>a DEF StickyCooling
  <2>2. req' = [req EXCEPT ![r].pc = "resolve"]
    BY <1>4, <2>1 DEF StickyCooling
  <2> QED BY <1>q, <1>k, <2>1, <2>2 DEF RequestType
<1>5. CASE Scan(r)
  <2> DEFINE n == req'[r]
  <2>1. q.pc \in {"resolve", "search", "rotate", "collect"}
    BY <1>5, ScanDoes
  <2>2. q.pc \in {"resolve", "search"} /\ q.sel = anchor[r] /\ anchor'[r] = anchor[r]
    BY <1>a, <2>1
  <2>3. q.pc = "search" => \E s \in q.todo : ConfigOrder[s] = anchor[r]
    BY <1>a, <2>1
  <2>4. CASE n.pc \in {"idle", "prepare"}
    BY <1>n, <2>4 DEF SelectingPcs
  <2>5. n.pc \in {"idle", "prepare", "search"}
    BY <1>5, <2>2, <2>3, ScanDoes
  <2>6. CASE n.pc = "search"
    <3>1. /\ n.sel = q.sel /\ n.excluded = q.excluded
          /\ q.pc = "resolve" => n.todo = Live
          /\ q.pc = "search" => \A s \in q.todo : s \in n.todo \/ accounts[s].id # q.sel
      BY <1>5, <2>6, ScanDoes
    <3>2. PICK s \in Live : accounts[s].id = anchor[r]
      BY <1>a, <2>2
    <3>3. \E t \in n.todo : ConfigOrder[t] = anchor[r]
      <4>1. CASE q.pc = "resolve"
        BY <3>1, <3>2, <4>1 DEF ListInv, Live, Slots
      <4>2. CASE q.pc = "search"
        <5>1. PICK t \in q.todo : ConfigOrder[t] = anchor[r]
          BY <2>3, <4>2
        <5>2. t \in Slots /\ accounts[t].id = q.sel
          BY <1>q, <2>2, <5>1 DEF RequestType, ListInv
        <5> QED BY <3>1, <4>2, <5>1, <5>2
      <4> QED BY <2>2, <4>1, <4>2
    <3> QED BY <1>a, <1>f, <2>2, <2>6, <3>1, <3>3 DEF AnchorOk
  <2> QED BY <2>4, <2>5, <2>6
<1>6. ASSUME GetNext(r) \/ NoneAvailable(r) \/ StartRefresh(r) \/ RefreshOk(r)
             \/ RefreshFail(r) \/ Send(r) \/ BuildFails(r) \/ Bind(r) \/ Finish(r)
             \/ Return(r)
      PROVE  AnchorOk(r)'
  BY <1>6, <1>t DEF GetNext, NoneAvailable, StartRefresh, RefreshOk, RefreshFail, Send,
     BuildFails, ReadyToSend, Bind, Finish, Return
<1>7. ASSUME NEW answer \in Answers, AnswerFailure(r, answer) \/ AnswerSuccess(r, answer)
      PROVE  AnchorOk(r)'
  BY <1>7, <1>t DEF AnswerFailure, AnswerSuccess
<1> QED BY <1>1, <1>2, <1>3, <1>4, <1>5, <1>6, <1>7 DEF RequestStep, Answering

\* pool.go:40-44: while its binding is fresh and the account usable, a conversation's next
\* request never gets to rotation, whatever other requests do in between.
THEOREM ConversationStays == HistorySpec => []StickyAffinity
<1> DEFINE Inv == PoolInv /\ AnchorInv
<1>1. HistoryInit => Inv
  BY PoolStart DEF HistoryInit, AnchorInv, AnchorOk
<1>2. Inv /\ [Next /\ HistoryStep]_hvars => Inv'
  <2> SUFFICES ASSUME Inv, [Next /\ HistoryStep]_hvars PROVE AnchorInv'
    BY PoolStep
  <2>1. ASSUME NEW r \in Requests, RequestStep(r), HistoryStep PROVE AnchorInv'
    BY <2>1, RequestStepAnchor DEF PoolInv
  <2>2. ASSUME Environment, HistoryStep, NEW r \in Requests PROVE AnchorOk(r)'
    BY <2>2, EnvironmentKeepsRequests, AnchorKept DEF AnchorInv
  <2>3. CASE UNCHANGED hvars
    BY <2>3 DEF hvars, vars, AnchorInv, AnchorOk, FirmIds, AvailableIds, CollectAvailable,
                Available, CoolingIds, CoolingNow, Live, Unusable, QuotaSpent
  <2> QED BY <2>1, <2>2, <2>3 DEF Next, AnchorInv
<1>3. Inv => StickyAffinity
  BY DEF AnchorInv, AnchorOk, StickyAffinity
<1> QED BY <1>1, <1>2, <1>3, PTL DEF HistorySpec

=============================================================================
