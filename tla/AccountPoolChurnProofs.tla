------------------------ MODULE AccountPoolChurnProofs ------------------------
(***************************************************************************)
(* Theorems about AccountPoolChurn: the pool while accounts are removed    *)
(* and added, for every number of accounts and requests.  Nothing of       *)
(* ListInv is left here; the proofs start from what still holds of a       *)
(* goroutine's locals when its pointer may denote another account.         *)
(***************************************************************************)
EXTENDS AccountPoolChurnHistory, AccountPoolProofs

-----------------------------------------------------------------------------
(* The locals.                                                              *)

\* A step of a request reads a key before it binds and a token before it refreshes.
LEMMA RequestStepLocals ==
  ASSUME TypeOK, LocalsInv, NEW r \in Requests, RequestStep(r)
  PROVE  LocalsInv'
<1> DEFINE q == req[r]
<1>q. /\ q \in RequestType /\ q.ptr \in Slots /\ req \in [Requests -> RequestType]
      /\ accounts[q.ptr].cred # NoId
  BY IdsAssumption DEF TypeOK, RequestType, SlotType
<1>o. \A t \in Requests \ {r} : req'[t] = req[t]
  BY OthersUnchanged
<1>k. ASSUME req'[r].pc \notin {"bind", "refreshing"} PROVE LocalsInv'
  BY <1>k, <1>o DEF LocalsInv
<1>t. ASSUME TryAnother(r) PROVE req'[r].pc \notin {"bind", "refreshing"}
  BY <1>t, <1>q DEF TryAnother, Select, RequestType
<1>r. ASSUME Rotate(r) PROVE req'[r].pc = "rotate"
  BY <1>r, <1>q DEF Rotate, RequestType
<1>1. ASSUME NEW kind \in Kinds, NEW key \in Keys \cup {NoKey}, Begin(r, kind, key)
      PROVE  LocalsInv'
  <2>1. req'[r].pc = Select(key)
    BY <1>1, <1>q DEF Begin, Idle
  <2> QED BY <1>k, <2>1 DEF Select
<1>2. CASE StickyLookup(r)
  BY <1>2, <1>q, <1>k, <1>r DEF StickyLookup, RequestType
<1>3. CASE StickyInspect(r)
  BY <1>3, <1>q, <1>k, <1>r DEF StickyInspect, RequestType
<1>4. CASE StickyCooling(r)
  BY <1>4, <1>q, <1>k, <1>r DEF StickyCooling, RequestType
<1>5. CASE Scan(r)
  BY <1>5, <1>k, ScanDoes
<1>6. CASE GetNext(r)
  BY <1>6, <1>q, <1>k DEF GetNext, RequestType
<1>7. CASE NoneAvailable(r)
  BY <1>7, <1>q, <1>k DEF NoneAvailable, RequestType
<1>8. CASE StartRefresh(r)
  <2>1. req'[r].pc = "refreshing" /\ req'[r].cred = accounts[q.ptr].cred
    BY <1>8, <1>q DEF StartRefresh, RequestType
  <2> QED BY <1>q, <1>o, <2>1 DEF LocalsInv
<1>9. CASE RefreshOk(r)
  BY <1>9, <1>q, <1>k DEF RefreshOk, RequestType
<1>10. CASE RefreshFail(r)
  BY <1>10, <1>k, <1>t DEF RefreshFail
<1>11. CASE Send(r)
  BY <1>11, <1>q, <1>k DEF Send, RequestType
<1>12. CASE BuildFails(r)
  BY <1>12, <1>q, <1>k DEF BuildFails, Idle
<1>13. ASSUME NEW answer \in Answers, AnswerFailure(r, answer)
       PROVE  LocalsInv'
  BY <1>13, <1>k, <1>t DEF AnswerFailure
<1>14. ASSUME NEW answer \in Answers, AnswerSuccess(r, answer)
       PROVE  LocalsInv'
  <2>1. /\ req'[r].pc = IF q.key = NoKey THEN "streaming" ELSE "bind"
        /\ req'[r].key = q.key
    BY <1>14, <1>q DEF AnswerSuccess, RequestType
  <2> QED BY <1>o, <2>1 DEF LocalsInv
<1>15. CASE Bind(r)
  BY <1>15, <1>q, <1>k DEF Bind, RequestType
<1>16. CASE Finish(r)
  BY <1>16, <1>q, <1>k DEF Finish, Idle
<1>17. CASE Return(r)
  BY <1>17, <1>q, <1>k DEF Return, Idle
<1> QED BY <1>1, <1>2, <1>3, <1>4, <1>5, <1>6, <1>7, <1>8, <1>9, <1>10, <1>11, <1>12,
           <1>13, <1>14, <1>15, <1>16, <1>17 DEF RequestStep, Answering

-----------------------------------------------------------------------------
(* The list.                                                                *)

\* Only the operator's own steps change which account a slot holds.
LEMMA NextKeepsIds ==
  ASSUME TypeOK, LocalsInv, Next
  PROVE  live' = live /\ \A s \in Slots : accounts'[s].id = accounts[s].id
<1>a. accounts \in [Slots -> SlotType]
  BY DEF TypeOK
<1>1. ASSUME NEW r \in Requests, RequestStep(r), accounts' # accounts
      PROVE  RefreshOk(r) \/ Finish(r)
  BY <1>1, ScanDoes DEF RequestStep, Answering, Begin, StickyLookup, StickyInspect, StickyCooling,
     GetNext, NoneAvailable, StartRefresh, RefreshFail, Send, BuildFails,
     AnswerFailure, AnswerSuccess, Bind, Return
<1>2. ASSUME NEW r \in Requests, RequestStep(r) PROVE live' = live
  BY <1>2, ScanDoes DEF RequestStep, Answering, Begin, StickyLookup, StickyInspect, StickyCooling,
     GetNext, NoneAvailable, StartRefresh, RefreshOk, RefreshFail, Send,
     BuildFails, AnswerFailure, AnswerSuccess, Bind, Finish, Return
<1>3. ASSUME NEW r \in Requests, RefreshOk(r)
      PROVE  \A s \in Slots : accounts'[s].id = accounts[s].id
  <2> DEFINE q == req[r]
             applied == [accounts EXCEPT ![q.ptr].cred = q.cred,
                                         ![q.ptr].token = "fresh"]
  <2>1. q.ptr \in Slots /\ q.cred \in Accounts
    BY <1>3 DEF RefreshOk, TypeOK, LocalsInv, RequestType
  <2>2. applied \in [Slots -> SlotType] /\ \A s \in Slots : applied[s].id = accounts[s].id
    BY <1>a, <2>1 DEF SlotType, TokenStates
  <2>3. accounts' = WithToken(applied, accounts[q.ptr].id, q.cred)
    BY <1>3 DEF RefreshOk
  <2> HIDE DEF applied
  <2> QED BY <2>2, <2>3 DEF WithToken, SlotType
<1>4. ASSUME NEW r \in Requests, Finish(r)
      PROVE  \A s \in Slots : accounts'[s].id = accounts[s].id
  BY <1>a, <1>4 DEF Finish, WithOneMoreUse, SlotType
<1>5. CASE Environment
  <2>1. live' = live
    BY <1>5 DEF Environment, Tick, Reload, AgeToken, BackgroundRefresh, Toggle, RefreshQuota
  <2>2. CASE Tick \/ Reload
    BY <2>1, <2>2 DEF Tick, Reload
  <2>3. ASSUME NEW t \in Slots, AgeToken(t) \/ BackgroundRefresh(t) \/ Toggle(t)
        PROVE  \A s \in Slots : accounts'[s].id = accounts[s].id
    BY <1>a, <2>3 DEF AgeToken, BackgroundRefresh, Toggle, SlotType
  <2>4. ASSUME NEW t \in Slots, NEW current, RefreshQuota(t, current)
        PROVE  \A s \in Slots : accounts'[s].id = accounts[s].id
    BY <1>a, <2>4 DEF RefreshQuota, SlotType
  <2> QED BY <1>5, <2>1, <2>2, <2>3, <2>4 DEF Environment
<1> QED BY <1>1, <1>2, <1>3, <1>4, <1>5 DEF Next

\* What the proofs below keep through every step.
ChurnInv == TypeOK /\ LocalsInv /\ LiveIdsDistinct

\* An account that is removed leaves the later ones in their order, one slot further down.
LEMMA RemoveKeeps ==
  ASSUME ChurnInv, NEW id \in Removable, RemoveAccount(id)
  PROVE  ChurnInv'
<1>1. PICK i \in Live :
        accounts' = [s \in Slots |-> IF s \in i..(live - 1) THEN accounts[s + 1]
                                                            ELSE accounts[s]]
  BY DEF RemoveAccount
<1>2. live' = live - 1 /\ UNCHANGED <<cooldowns, sticky, index, req>> /\ reloading' = TRUE
  BY DEF RemoveAccount
<1>3. /\ Cap \in Nat /\ live \in 0..Cap /\ i \in 1..live
      /\ accounts \in [Slots -> SlotType]
  BY ListAssumption DEF ChurnInv, TypeOK, Live
<1>4. accounts' \in [Slots -> SlotType]
  BY <1>1, <1>3 DEF Slots
<1>5. live' \in 0..Cap
  BY <1>2, <1>3
<1>6. TypeOK' /\ LocalsInv'
  BY <1>2, <1>4, <1>5 DEF ChurnInv, TypeOK, LocalsInv
<1>7. LiveIdsDistinct'
  <2> DEFINE from(s) == IF s \in i..(live - 1) THEN s + 1 ELSE s
  <2>1. ASSUME NEW s \in 1..(live - 1)
        PROVE  from(s) \in Live /\ accounts'[s] = accounts[from(s)]
    BY <1>1, <1>3 DEF Live, Slots
  <2>2. ASSUME NEW s \in 1..(live - 1), NEW t \in 1..(live - 1), from(s) = from(t)
        PROVE  s = t
    BY <1>3, <2>2
  <2> HIDE DEF from
  <2>3. Live' = 1..(live - 1)
    BY <1>2 DEF Live
  <2> QED BY <2>1, <2>2, <2>3 DEF ChurnInv, LiveIdsDistinct
<1> QED BY <1>6, <1>7 DEF ChurnInv

\* An account that is added replaces the one with its ID, or goes behind the last one.
LEMMA AddKeeps ==
  ASSUME ChurnInv, NEW id \in Removable, AddAccount(id)
  PROVE  ChurnInv'
<1>1. /\ Cap \in Nat /\ live \in 0..Cap /\ accounts \in [Slots -> SlotType]
      /\ Live = 1..live
  BY ListAssumption DEF ChurnInv, TypeOK, Live
<1>2. Enrolled(id) \in SlotType /\ Enrolled(id).id = id
  BY RemovableAssumption DEF Enrolled, SlotType, TokenStates
<1>3. UNCHANGED <<cooldowns, sticky, index, req>> /\ reloading' = TRUE
  BY DEF AddAccount
<1>4. CASE \E s \in Live : /\ accounts[s].id = id
                           /\ accounts' = [accounts EXCEPT ![s] = Enrolled(id)]
                           /\ live' = live
  <2>1. PICK s \in Live : /\ accounts[s].id = id
                          /\ accounts' = [accounts EXCEPT ![s] = Enrolled(id)]
                          /\ live' = live
    BY <1>4
  <2>2. accounts' \in [Slots -> SlotType] /\ \A t \in Slots : accounts'[t].id = accounts[t].id
    BY <1>1, <1>2, <2>1 DEF Slots
  <2>3. Live' = Live /\ Live \subseteq Slots
    BY <1>1, <2>1 DEF Live, Slots
  <2>4. TypeOK' /\ LocalsInv'
    BY <1>3, <2>1, <2>2 DEF ChurnInv, TypeOK, LocalsInv
  <2>5. LiveIdsDistinct'
    BY <2>2, <2>3 DEF ChurnInv, LiveIdsDistinct
  <2> QED BY <2>4, <2>5 DEF ChurnInv
<1>5. CASE /\ ~Present(id) /\ live < Cap
           /\ accounts' = [accounts EXCEPT ![live + 1] = Enrolled(id)]
           /\ live' = live + 1
  <2>1. live + 1 \in Slots /\ Live \subseteq Slots /\ Live' = Live \cup {live + 1}
    BY <1>1, <1>5 DEF Live, Slots
  <2>2. /\ accounts' \in [Slots -> SlotType] /\ accounts'[live + 1].id = id
        /\ \A t \in Live : accounts'[t] = accounts[t]
    BY <1>1, <1>2, <1>5, <2>1
  <2>3. live' \in 0..Cap
    BY <1>1, <1>5
  <2>4. TypeOK' /\ LocalsInv'
    BY <1>3, <2>2, <2>3 DEF ChurnInv, TypeOK, LocalsInv
  <2>5. \A t \in Live : accounts[t].id # id
    BY <1>5 DEF Present
  <2>6. LiveIdsDistinct'
    BY <2>1, <2>2, <2>5 DEF ChurnInv, LiveIdsDistinct
  <2> QED BY <2>4, <2>6 DEF ChurnInv
<1> QED BY <1>4, <1>5 DEF AddAccount

\* Every step keeps ChurnInv.
LEMMA ChurnStep == ChurnInv /\ [ChurnNext]_vars => ChurnInv'
<1> SUFFICES ASSUME ChurnInv, [ChurnNext]_vars PROVE ChurnInv'
  OBVIOUS
<1>1. CASE Next
  <2>1. TypeOK'
    BY <1>1, RequestStepType, EnvironmentType DEF ChurnInv, Next
  <2>2. LocalsInv'
    <3>1. CASE Environment
      BY <3>1, EnvironmentKeepsRequests DEF ChurnInv, LocalsInv
    <3> QED BY <1>1, <3>1, RequestStepLocals DEF ChurnInv, Next
  <2>3. LiveIdsDistinct'
    <3>1. Live \subseteq Slots
      BY ListAssumption DEF ChurnInv, TypeOK, Live, Slots
    <3> QED BY <1>1, <3>1, NextKeepsIds DEF ChurnInv, LiveIdsDistinct, Live
  <2> QED BY <2>1, <2>2, <2>3 DEF ChurnInv
<1>2. ASSUME NEW id \in Removable, RemoveAccount(id) PROVE ChurnInv'
  BY <1>2, RemoveKeeps
<1>3. ASSUME NEW id \in Removable, AddAccount(id) PROVE ChurnInv'
  BY <1>3, AddKeeps
<1>4. ASSUME NEW id \in Removable, TestAccount(id) PROVE ChurnInv'
  BY <1>4 DEF TestAccount, ChurnInv, TypeOK, LocalsInv, LiveIdsDistinct, Live
<1>5. CASE UNCHANGED vars
  BY <1>5 DEF vars, ChurnInv, TypeOK, LocalsInv, LiveIdsDistinct, Live
<1> QED BY <1>1, <1>2, <1>3, <1>4, <1>5 DEF ChurnNext

\* The list starts with the accounts of the file, each of them once.
LEMMA ChurnStart == Init => ChurnInv
<1>1. Init => LiveIdsDistinct
  BY ListAssumption DEF Init, LiveIdsDistinct, Live, Slots
<1> QED BY <1>1, BaseInit, ListInvGivesLocals DEF ChurnInv

\* However removals, additions and requests interleave, the list never holds an ID twice.
THEOREM OneSlotPerAccount == ChurnSpec => []LiveIdsDistinct
<1>1. ChurnInv => LiveIdsDistinct
  BY DEF ChurnInv
<1> QED BY <1>1, ChurnStart, ChurnStep, PTL DEF ChurnSpec

\* The tables and the goroutines' locals stay well-typed when the array is shifted under
\* the goroutines' pointers: in particular every pointer stays inside the array.
THEOREM TypeCorrectUnderChurn == ChurnSpec => []TypeOK
<1>1. ChurnInv => TypeOK
  BY DEF ChurnInv
<1> QED BY <1>1, ChurnStart, ChurnStep, PTL DEF ChurnSpec

-----------------------------------------------------------------------------
(* What a removal may still mean to a request.                              *)

\* The slots a request has taken from the list: the one it works with, or those that
\* collectAvailable has found so far.
Takes(q) ==
  {s \in Slots : \/ q.pc \in HoldingPcs /\ q.ptr = s
                 \/ q.pc = "collect" /\ s \in q.found}

\* WorksWithListed is not inductive: a slot found by a scan, or shifted under a pointer,
\* must hold an account that has been in the list too.
ListedInv ==
  \A r \in Requests :
    /\ \A s \in Takes(req[r]) : accounts[s].id \in listed[r]
    /\ req[r].pc \notin UnlistedPcs => LiveIds \subseteq listed[r]

\* What a request takes, it has taken before or takes from the list.
LEMMA RequestTakesLive ==
  ASSUME TypeOK, NEW r \in Requests, RequestStep(r), NEW s \in Takes(req'[r])
  PROVE  s \in Takes(req[r]) \/ s \in Live
<1> DEFINE q == req[r]
<1>q. q \in RequestType /\ req \in [Requests -> RequestType] /\ s \in Slots
  BY DEF TypeOK, Takes
<1>h. req'[r].pc \in HoldingPcs \cup {"collect"}
  BY DEF Takes
<1>k. ASSUME req'[r].ptr = q.ptr, q.pc \in HoldingPcs, req'[r].pc \in HoldingPcs
      PROVE  s \in Takes(q)
  BY <1>k, <1>q DEF Takes, HoldingPcs
<1>t. ~TryAnother(r) /\ ~Rotate(r)
  <2>1. ASSUME TryAnother(r) PROVE req'[r].pc \in {"sticky", "rotate", "refused"}
    BY <1>q, <2>1 DEF TryAnother, Select, RequestType
  <2>2. ASSUME Rotate(r) PROVE req'[r].pc = "rotate"
    BY <1>q, <2>2 DEF Rotate, RequestType
  <2> QED BY <1>h, <2>1, <2>2 DEF HoldingPcs
<1>1. ASSUME NEW kind \in Kinds, NEW key \in Keys \cup {NoKey}, Begin(r, kind, key)
      PROVE  FALSE
  <2>1. req'[r].pc = Select(key)
    BY <1>1, <1>q DEF Begin, Idle
  <2> QED BY <1>h, <2>1 DEF Select, HoldingPcs
<1>2. ~StickyLookup(r) /\ ~StickyInspect(r) /\ ~StickyCooling(r)
  <2>1. ASSUME StickyLookup(r) \/ StickyInspect(r) \/ StickyCooling(r)
        PROVE  req'[r].pc \in {"inspect", "cooling", "resolve"}
    BY <1>t, <1>q, <2>1 DEF StickyLookup, StickyInspect, StickyCooling, RequestType
  <2> QED BY <1>h, <2>1 DEF HoldingPcs
<1>3. CASE Scan(r)
  <2> DEFINE n == req'[r]
  <2>1. CASE n.pc = "prepare"
    BY <1>3, <2>1, ScanDoes DEF Takes, HoldingPcs
  <2>2. CASE n.pc = "collect" /\ q.pc # "collect"
    <3>1. n.found = {}
      BY <1>3, <2>2, ScanDoes
    <3> QED BY <2>2, <3>1 DEF Takes, HoldingPcs
  <2>3. CASE n.pc = "collect" /\ q.pc = "collect"
    <3>1. \A t \in n.found : t \in q.found \/ t \in Live
      BY <1>3, <2>3, ScanDoes
    <3> QED BY <2>3, <3>1 DEF Takes, HoldingPcs
  <2> QED BY <1>3, <1>h, <2>1, <2>2, <2>3, ScanDoes DEF HoldingPcs
<1>4. CASE GetNext(r)
  <2>1. PICK t \in q.found :
          req' = [req EXCEPT ![r] = [q EXCEPT !.pc = "prepare", !.ptr = t, !.found = {},
                                              !.cool = {}]]
    BY <1>4 DEF GetNext
  <2>2. req'[r].pc = "prepare" /\ req'[r].ptr = t /\ q.pc = "collect"
    BY <1>4, <2>1, <1>q DEF GetNext, RequestType
  <2> QED BY <2>2 DEF Takes, HoldingPcs
<1>5. ~NoneAvailable(r) /\ ~BuildFails(r) /\ ~Finish(r) /\ ~Return(r)
  <2>1. ASSUME NoneAvailable(r) PROVE req'[r].pc = "refused"
    BY <1>q, <2>1 DEF NoneAvailable, RequestType
  <2>2. ASSUME BuildFails(r) \/ Finish(r) \/ Return(r) PROVE req'[r].pc = "idle"
    BY <1>q, <2>2 DEF BuildFails, Finish, Return, Idle
  <2> QED BY <1>h, <2>1, <2>2 DEF HoldingPcs
<1>6. CASE StartRefresh(r) \/ RefreshOk(r) \/ Send(r) \/ Bind(r)
  <2>1. q.pc \in HoldingPcs /\ req'[r].ptr = q.ptr /\ req'[r].pc \in HoldingPcs
    <3>1. CASE StartRefresh(r) \/ RefreshOk(r)
      BY <1>q, <3>1 DEF StartRefresh, RefreshOk, RequestType, HoldingPcs
    <3>2. CASE Send(r)
      BY <1>q, <3>2 DEF Send, ReadyToSend, RequestType, HoldingPcs
    <3>3. CASE Bind(r)
      BY <1>q, <3>3 DEF Bind, RequestType, HoldingPcs
    <3> QED BY <1>6, <3>1, <3>2, <3>3
  <2> QED BY <1>k, <2>1
<1>7. ASSUME NEW answer \in Answers, AnswerSuccess(r, answer)
      PROVE  s \in Takes(q)
  <2>1. q.pc \in HoldingPcs /\ req'[r].ptr = q.ptr /\ req'[r].pc \in HoldingPcs
    BY <1>7, <1>q DEF AnswerSuccess, RequestType, HoldingPcs
  <2> QED BY <1>k, <2>1
<1>8. ~RefreshFail(r) /\ \A answer \in Answers : ~AnswerFailure(r, answer)
  BY <1>t DEF RefreshFail, AnswerFailure
<1> QED BY <1>1, <1>2, <1>3, <1>4, <1>5, <1>6, <1>7, <1>8 DEF RequestStep, Answering

\* A request that has taken something is not one of those that have yet to look.
LEMMA TakesMeansListed ==
  ASSUME NEW q, NEW s \in Takes(q)
  PROVE  q.pc \notin UnlistedPcs
BY DEF Takes, HoldingPcs, UnlistedPcs

\* The history follows a request that has begun to look at the list.
LEMMA ListedGrows ==
  ASSUME ListedStep, NEW r \in Requests, req'[r].pc \notin UnlistedPcs
  PROVE  listed'[r] = listed[r] \cup LiveIds'
BY DEF ListedStep

\* Steps that leave every slot's account alone.
LEMMA ListedNext ==
  ASSUME TypeOK, LocalsInv, ListedInv, ListedStep, Next
  PROVE  ListedInv'
<1>1. live' = live /\ \A s \in Slots : accounts'[s].id = accounts[s].id
  BY NextKeepsIds
<1>2. Live \subseteq Slots /\ Live' = Live
  BY <1>1, ListAssumption DEF TypeOK, Live, Slots
<1>3. LiveIds' = LiveIds
  BY <1>1, <1>2 DEF LiveIds
<1>4. ASSUME NEW r \in Requests, NEW s \in Takes(req'[r])
      PROVE  s \in Takes(req[r]) \/ s \in Live
  <2>1. CASE RequestStep(r)
    BY <1>4, <2>1, RequestTakesLive
  <2>2. CASE req'[r] = req[r]
    BY <1>4, <2>2
  <2>3. RequestStep(r) \/ req'[r] = req[r]
    BY EnvironmentKeepsRequests, OthersUnchanged DEF Next
  <2> QED BY <2>1, <2>2, <2>3
<1>5. ASSUME NEW r \in Requests, NEW s \in Takes(req'[r])
      PROVE  accounts'[s].id \in listed'[r]
  <2>1. listed'[r] = listed[r] \cup LiveIds
    BY <1>3, <1>5, TakesMeansListed, ListedGrows
  <2>2. s \in Slots /\ accounts'[s].id = accounts[s].id
    BY <1>1, <1>5 DEF Takes
  <2>3. s \in Takes(req[r]) => accounts[s].id \in listed[r]
    BY DEF ListedInv
  <2> QED BY <1>4, <1>5, <2>1, <2>2, <2>3 DEF LiveIds
<1> QED BY <1>5, ListedGrows DEF ListedInv

\* Steps of the operator: an account that comes to a slot was in the list, or is now.
LEMMA ListedOperator ==
  ASSUME ListedInv, ListedStep, req' = req,
         \A s \in Slots : accounts'[s].id \in {accounts[s].id} \cup LiveIds \cup LiveIds'
  PROVE  ListedInv'
<1>1. ASSUME NEW r \in Requests, NEW s \in Takes(req[r])
      PROVE  accounts'[s].id \in listed'[r]
  <2>1. req[r].pc \notin UnlistedPcs
    BY <1>1, TakesMeansListed
  <2>2. listed'[r] = listed[r] \cup LiveIds'
    BY <2>1, ListedGrows
  <2>3. accounts[s].id \in listed[r] /\ LiveIds \subseteq listed[r]
    BY <1>1, <2>1 DEF ListedInv
  <2>4. s \in Slots
    BY <1>1 DEF Takes
  <2> QED BY <2>2, <2>3, <2>4
<1> QED BY <1>1, ListedGrows DEF ListedInv

\* Every step keeps ListedInv.
LEMMA ListedKeeps ==
  ChurnInv /\ ListedInv /\ [ChurnNext /\ ListedStep]_lvars => ListedInv'
<1> SUFFICES ASSUME ChurnInv, ListedInv, [ChurnNext /\ ListedStep]_lvars PROVE ListedInv'
  OBVIOUS
<1>a. /\ Cap \in Nat /\ live \in 0..Cap /\ accounts \in [Slots -> SlotType]
      /\ Live = 1..live /\ Live \subseteq Slots
  BY ListAssumption DEF ChurnInv, TypeOK, Live, Slots
<1>1. CASE Next /\ ListedStep
  BY <1>1, ListedNext DEF ChurnInv
<1>2. ASSUME NEW id \in Removable, RemoveAccount(id), ListedStep PROVE ListedInv'
  <2>1. PICK i \in Live :
          accounts' = [s \in Slots |-> IF s \in i..(live - 1) THEN accounts[s + 1]
                                                              ELSE accounts[s]]
    BY <1>2 DEF RemoveAccount
  <2>2. ASSUME NEW s \in Slots PROVE accounts'[s].id \in {accounts[s].id} \cup LiveIds
    <3>1. CASE s \in i..(live - 1)
      <4>1. s + 1 \in Live /\ accounts'[s] = accounts[s + 1]
        BY <1>a, <2>1, <2>2, <3>1 DEF Slots
      <4> QED BY <4>1 DEF LiveIds
    <3>2. CASE s \notin i..(live - 1)
      BY <2>1, <2>2, <3>2
    <3> QED BY <3>1, <3>2
  <2>3. req' = req
    BY <1>2 DEF RemoveAccount
  <2> QED BY <1>2, <2>2, <2>3, ListedOperator
<1>3. ASSUME NEW id \in Removable, AddAccount(id), ListedStep PROVE ListedInv'
  <2>1. PICK t \in Slots : /\ t \in Live'
                           /\ accounts' = [accounts EXCEPT ![t] = Enrolled(id)]
    <3>1. CASE \E t \in Live : /\ accounts[t].id = id
                               /\ accounts' = [accounts EXCEPT ![t] = Enrolled(id)]
                               /\ live' = live
      BY <1>a, <3>1 DEF Live
    <3>2. CASE /\ ~Present(id) /\ live < Cap
               /\ accounts' = [accounts EXCEPT ![live + 1] = Enrolled(id)]
               /\ live' = live + 1
      <4>1. live + 1 \in Slots /\ live + 1 \in Live'
        BY <1>a, <3>2 DEF Live, Slots
      <4> QED BY <3>2, <4>1
    <3> QED BY <1>3, <3>1, <3>2 DEF AddAccount
  <2>2. ASSUME NEW s \in Slots PROVE accounts'[s].id \in {accounts[s].id} \cup LiveIds'
    <3>1. CASE s = t
      BY <2>1, <3>1 DEF LiveIds
    <3>2. CASE s # t
      BY <1>a, <2>1, <3>2
    <3> QED BY <3>1, <3>2
  <2>3. req' = req
    BY <1>3 DEF AddAccount
  <2> QED BY <1>3, <2>2, <2>3, ListedOperator
<1>4. ASSUME NEW id \in Removable, TestAccount(id), ListedStep PROVE ListedInv'
  BY <1>4, ListedOperator DEF TestAccount
<1>5. CASE UNCHANGED lvars
  BY <1>5 DEF lvars, vars, ListedInv, LiveIds, Live
<1> QED BY <1>1, <1>2, <1>3, <1>4, <1>5 DEF ChurnNext

\* Whatever is removed and shifted while a request scans the list and works with what it
\* found, it only ever works with an account that has been listed since its scan began.
THEOREM OnlyListedAccounts == ListedSpec => []WorksWithListed
<1> DEFINE Inv == ChurnInv /\ ListedInv
<1>1. ListedInit => Inv
  <2> SUFFICES ASSUME Init, NEW r \in Requests
               PROVE  Takes(req[r]) = {} /\ req[r].pc \in UnlistedPcs
    BY ChurnStart DEF ListedInit, ListedInv
  <2> QED BY DEF Init, Idle, Takes, HoldingPcs, UnlistedPcs
<1>2. Inv /\ [ChurnNext /\ ListedStep]_lvars => Inv'
  BY ListedKeeps, ChurnStep DEF lvars
<1>3. Inv => WorksWithListed
  <2> SUFFICES ASSUME Inv, NEW r \in Requests, req[r].pc \in HoldingPcs
               PROVE  accounts[req[r].ptr].id \in listed[r]
    BY DEF WorksWithListed
  <2>1. req[r].ptr \in Takes(req[r])
    BY DEF ChurnInv, TypeOK, RequestType, Takes
  <2> QED BY <2>1 DEF ListedInv
<1> QED BY <1>1, <1>2, <1>3, PTL DEF ListedSpec

=============================================================================
