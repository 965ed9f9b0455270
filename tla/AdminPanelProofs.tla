---------------------------- MODULE AdminPanelProofs ----------------------------
(***************************************************************************)
(* Theorems about the admin side of KiroPool: what the Microsoft login     *)
(* lets into the sessions of a running panel (ExternalIdp); then what the  *)
(* handlers share: sessions and throttle, client keys, the configuration   *)
(* and its file, the account list the panels are sent, and the sessions of *)
(* a Microsoft login.                                                      *)
(*                                                                         *)
(* For the second part a handler's way through its job is summed up once   *)
(* (Walks, AsksSave, Stores and the named steps of HandlerWays); each      *)
(* invariant then looks at those ways instead of at every action.          *)
(***************************************************************************)
EXTENDS AdminPanel, FiniteSetTheorems, TLAPS

\* What discovery accepts for an issuer makes, with a descriptor the first leg accepts, a
\* configuration that passes ValidateExternalIdpConfiguration (continueMicrosoftPortalLeg).
LEMMA DiscoveredIsValid ==
  ASSUME NEW d, NEW doc, d.client \in Clients, ValidScopes(d.scopes, d.client),
         ValidIssuer(d.issuer), DiscoveryAccepted(d.issuer, doc)
  PROVE  ValidConfiguration([client |-> d.client, issuer |-> d.issuer,
                             token |-> doc.token, scopes |-> d.scopes])
BY DEF ValidConfiguration, DiscoveryAccepted
-------------------------------------------------------------------------------
\* The configuration a session works with, as a function of the sessions: what
\* LegsAreBound needs to be inductive.
LegInv == msLeg = [s \in Sessions |-> msLeg[s]] /\ LegsAreBound

LEMMA LegInit == Init => LegInv
BY DEF Init, MsInit, LegInv, LegsAreBound

\* A leg that is dropped, or one that is kept, leaves the others as they are.
LEMMA LegDropped ==
  ASSUME LegInv, NEW s \in Sessions, msLeg' = [msLeg EXCEPT ![s] = NoConfiguration]
  PROVE  LegInv'
BY DEF LegInv, LegsAreBound

LEMMA LegKept ==
  ASSUME LegInv, msLeg' = msLeg
  PROVE  LegInv'
BY DEF LegInv, LegsAreBound

\* The jobs on Microsoft sessions name one.
JobsOnSessions == \A g \in Handlers : job[g].op = "ms_continue" => S(g) \in Sessions

LEMMA LegStep ==
  ASSUME LegInv, JobsOnSessions, NEW g \in Handlers, MsStep(g)
  PROVE  LegInv'
<1>1. CASE MsStart(g) BY <1>1, LegKept DEF MsStart
<1>2. CASE MsDetach(g) BY <1>2, LegKept DEF MsDetach
<1>3. CASE MsMark(g) BY <1>3, LegKept DEF MsMark
<1>4. CASE MsWipe(g)
  <2>1. PICK s \in Sessions : \/ msLeg' = [msLeg EXCEPT ![s] = NoConfiguration]
                              \/ msLeg' = msLeg
    BY <1>4 DEF MsWipe
  <2> QED BY <2>1, LegKept, LegDropped
<1>5. CASE MsLookUp(g) BY <1>5, LegKept DEF MsLookUp
<1>6. CASE MsContinue(g)
  <2>1. S(g) \in Sessions
    BY <1>6 DEF MsContinue, Doing, JobsOnSessions
  <2>2. msLeg' = [msLeg EXCEPT ![S(g)] = NoConfiguration] \/ msLeg' = msLeg
    BY <1>6 DEF MsContinue, Retire, Keep
  <2> QED BY <2>1, <2>2, LegKept, LegDropped
<1>7. CASE MsDiscovered(g)
  <2>1. S(g) \in Sessions
    BY <1>7 DEF MsDiscovered, Doing, JobsOnSessions
  <2>2. CASE msLeg' = msLeg BY <2>2, LegKept
  <2>3. CASE msLeg' = [msLeg EXCEPT ![S(g)] = NoConfiguration] BY <2>1, <2>3, LegDropped
  <2>4. CASE \E d \in Acceptable, doc \in Documents :
               /\ ValidIssuer(d.issuer)
               /\ DiscoveryAccepted(d.issuer, doc)
               /\ msLeg' = [msLeg EXCEPT ![S(g)] =
                              [client |-> d.client, issuer |-> d.issuer,
                               token |-> doc.token, scopes |-> d.scopes]]
    <3>1. PICK d \in Acceptable, doc \in Documents :
               /\ ValidIssuer(d.issuer)
               /\ DiscoveryAccepted(d.issuer, doc)
               /\ msLeg' = [msLeg EXCEPT ![S(g)] =
                              [client |-> d.client, issuer |-> d.issuer,
                               token |-> doc.token, scopes |-> d.scopes]]
      BY <2>4
    <3> DEFINE leg == [client |-> d.client, issuer |-> d.issuer,
                       token |-> doc.token, scopes |-> d.scopes]
    <3>2. ValidConfiguration(leg)
      BY <3>1, DiscoveredIsValid DEF Acceptable
    <3>3. msLeg' = [msLeg EXCEPT ![S(g)] = leg]
      BY <3>1
    <3> HIDE DEF leg
    <3> QED BY <2>1, <3>2, <3>3 DEF LegInv, LegsAreBound
  <2> QED BY <1>7, <2>2, <2>3, <2>4 DEF MsDiscovered, Retire, Keep
<1>8. CASE MsExchanged(g)
  <2>1. S(g) \in Sessions
    BY <1>8 DEF MsExchanged, Doing, JobsOnSessions
  <2> QED BY <1>8, <2>1, LegDropped DEF MsExchanged, Retire
<1>9. CASE MsLook(g)
  <2>1. S(g) \in Sessions
    BY <1>9 DEF MsLook, Doing, JobsOnSessions
  <2>2. msLeg' = [msLeg EXCEPT ![S(g)] = NoConfiguration] \/ msLeg' = msLeg
    BY <1>9 DEF MsLook
  <2> QED BY <2>1, <2>2, LegKept, LegDropped
<1>10. CASE MsUnlock(g) BY <1>10, LegKept DEF MsUnlock
<1> QED BY <1>1, <1>2, <1>3, <1>4, <1>5, <1>6, <1>7, <1>8, <1>9, <1>10 DEF MsStep

\* No handler's job changes, and only the Microsoft login touches its sessions.
LEMMA HandlersKeepJobs ==
  ASSUME NEW g \in Handlers, HandlerStep(g)
  PROVE  job' = job /\ (MsStep(g) \/ msLeg' = msLeg)
<1>1. CASE MsStep(g)
  BY <1>1 DEF MsStep, MsStart, MsDetach, MsMark, MsWipe, MsLookUp, MsContinue, MsDiscovered,
              MsExchanged, MsLook, MsUnlock, handlerVars
<1>2. CASE LoginStep(g) /\ UNCHANGED msVars
  BY <1>2 DEF LoginStep, StartIam, StartBuilderId, CleanUp, LookUpLogin, Forget, IamAnswer,
              PollAnswer, SlowDown, SsoNext, SsoStep, SsoFail, SsoToken, handlerVars, msVars
<1>3. CASE SaveStep(g) /\ UNCHANGED msVars
  BY <1>3 DEF SaveStep, Marshal, Truncate, Write, PointerWrite, StoreToken, SaveCalled, msVars
<1>4. CASE SessionStep(g) /\ UNCHANGED msVars
  BY <1>4 DEF SessionStep, Enter, LoginLocked, ComparePassword, RegisterLoginFail,
              ClearLoginFails, Issue, Logout, CheckCurrent, ReplacePassword, ResetSessions, msVars
<1>5. CASE LedgerStep(g) /\ UNCHANGED msVars
  BY <1>5 DEF LedgerStep, ValidateKey, CheckCredit, ServeTurn, Charge, KeyAdmin, msVars
<1>6. CASE FeedStep(g) /\ UNCHANGED msVars
  BY <1>6 DEF FeedStep, Publish, Visit, AddLog, ClearLogs, Subscribe, Deliver, handlerVars, msVars
<1>7. CASE AccountStep(g)
  BY <1>7 DEF AccountStep, AddGiven, ChangeAccount, ImportApiKey, Persist, AnnounceAccounts,
              Prepare, Refreshed, StoreRefreshed, ResolveArn, UsageFetched, QuotaFetched,
              PublishQuota, StoreModels, SetSyncedModels, SetStrategy, msVars
<1> QED BY <1>1, <1>2, <1>3, <1>4, <1>5, <1>6, <1>7 DEF HandlerStep

LEMMA OutsideKeepsJobs ==
  ASSUME OutsideStep
  PROVE  job' = job /\ msLeg' = msLeg
<1>1. CASE \E g \in Handlers : Unsubscribe(g) /\ UNCHANGED msVars
  BY <1>1 DEF Unsubscribe, msVars
<1>2. CASE \E g \in Handlers : NextTurn(g) /\ UNCHANGED msVars
  BY <1>2 DEF NextTurn, msVars
<1>3. CASE \E g \in Handlers : TryAgain(g) /\ UNCHANGED msVars
  BY <1>3 DEF TryAgain, msVars
<1>4. CASE \E g \in Handlers : Crash(g) /\ UNCHANGED msVars
  BY <1>4 DEF Crash, msVars
<1>5. CASE ThrottlePasses /\ UNCHANGED msVars
  BY <1>5 DEF ThrottlePasses, handlerVars, msVars
<1>6. CASE \E s \in Sessions : MsExpire(s)
  BY <1>6 DEF MsExpire, handlerVars
<1>7. CASE (\E s \in started : LoginExpires(s)) /\ UNCHANGED msVars
  BY <1>7 DEF LoginExpires, handlerVars, msVars
<1>8. CASE MainReturns /\ UNCHANGED msVars
  BY <1>8 DEF MainReturns, msVars
<1>9. CASE \E g \in Handlers : LoadList(g, mem.accounts) /\ UNCHANGED msVars
  BY <1>9 DEF LoadList, msVars
<1> QED BY <1>1, <1>2, <1>3, <1>4, <1>5, <1>6, <1>7, <1>8, <1>9 DEF OutsideStep

LEMMA LegNext ==
  ASSUME LegInv, JobsOnSessions, [Next]_vars
  PROVE  LegInv' /\ JobsOnSessions'
<1>1. CASE \E g \in Handlers : HandlerStep(g)
  <2>1. PICK g \in Handlers : HandlerStep(g)
    BY <1>1
  <2>2. job' = job /\ (MsStep(g) \/ msLeg' = msLeg)
    BY <2>1, HandlersKeepJobs
  <2> QED BY <2>1, <2>2, LegStep, LegKept DEF JobsOnSessions, S
<1>2. CASE OutsideStep
  BY <1>2, OutsideKeepsJobs, LegKept DEF JobsOnSessions, S
<1>3. CASE Restart
  BY <1>3 DEF Restart, LoadsAgain, MsForget, LegInv, LegsAreBound, JobsOnSessions, S
<1>4. CASE UNCHANGED vars
  BY <1>4, LegKept DEF vars, msVars, handlerVars, JobsOnSessions, S
<1> QED BY <1>1, <1>2, <1>3, <1>4 DEF Next, AtRest

\* In a running panel every session's second leg works with a configuration that passes
\* all checks, whatever the portal, the discovery documents and the other handlers do:
\* the code and its verifier go to the token endpoint of the tenant the issuer names.
THEOREM LegsStayBound == Spec => []LegsAreBound
<1>1. Init => LegInv /\ JobsOnSessions
  BY LegInit, JobsAssumption DEF Init, JobsOnSessions, S, MsOps
<1>2. LegInv /\ JobsOnSessions /\ [Next]_vars => LegInv' /\ JobsOnSessions'
  BY LegNext
<1>3. LegInv => LegsAreBound
  BY DEF LegInv
<1> QED BY <1>1, <1>2, <1>3, PTL DEF Spec
-------------------------------------------------------------------------------
\* NoSendOnClosed rests on the hub's lock, which is implicit in the labels: while somebody
\* publishes nobody leaves the hub, and who has left never comes back.
HubInv ==
  /\ at = [g \in Handlers |-> at[g]]
  /\ then = [g \in Handlers |-> then[g]]
  /\ \A g \in Handlers : then[g] # "publishing"
  /\ toVisit = [g \in Handlers |-> toVisit[g]]
  /\ hub \cap closed = {}
  /\ \A g \in Handlers : at[g] = "publishing" => toVisit[g] \subseteq hub
  /\ \A w \in closed : w \in Handlers /\ job[w].op = "watch" /\ at[w] = "done"

LEMMA HubInit == Init => HubInv
BY DEF Init, FeedInit, HubInv

LEMMA HubSafe == HubInv => NoSendOnClosed
BY DEF HubInv, NoSendOnClosed

\* A step of g that has nothing to do with the hub: it does not begin to publish, and a
\* subscriber that has returned stays where it is.
Elsewhere(g) ==
  /\ job' = job
  /\ UNCHANGED <<hub, closed, toVisit>>
  /\ \/ then' = then
     \/ \E l : l # "publishing" /\ then' = [then EXCEPT ![g] = l]
  /\ \/ at' = at
     \/ \E l :
          /\ l # "publishing"
          /\ at' = [at EXCEPT ![g] = l]
          /\ at[g] # "done" \/ job[g].op # "watch" \/ l = "done"

LEMMA HubElsewhere ==
  ASSUME HubInv, NEW g \in Handlers, Elsewhere(g)
  PROVE  HubInv'
<1>1. /\ at' = [h \in Handlers |-> at'[h]]
      /\ then' = [h \in Handlers |-> then'[h]]
      /\ \A h \in Handlers : then'[h] # "publishing"
  BY DEF Elsewhere, HubInv
<1>2. \A h \in Handlers : at'[h] = "publishing" => at[h] = "publishing"
  BY DEF Elsewhere, HubInv
<1>3. \A w \in closed : at'[w] = "done"
  BY DEF Elsewhere, HubInv
<1> QED BY <1>1, <1>2, <1>3 DEF Elsewhere, HubInv

LEMMA LoginElsewhere ==
  ASSUME HubInv, NEW g \in Handlers, UNCHANGED feedVars, MsStep(g) \/ LoginStep(g)
  PROVE  Elsewhere(g)
<1> USE DEF Elsewhere, Doing, Goto, feedVars, HubInv
<1>1. CASE MsStart(g) BY <1>1 DEF MsStart
<1>2. CASE MsDetach(g) BY <1>2 DEF MsDetach
<1>3. CASE MsMark(g) BY <1>3 DEF MsMark, handlerVars
<1>4. CASE MsWipe(g) BY <1>4 DEF MsWipe
<1>5. CASE MsLookUp(g) BY <1>5 DEF MsLookUp
<1>6. CASE MsContinue(g)
  <2>1. \E l \in {"ms_look", "ms_discovering", "ms_exchanging"} : at' = [at EXCEPT ![g] = l]
    BY <1>6 DEF MsContinue
  <2> QED BY <1>6, <2>1 DEF MsContinue
<1>7. CASE MsDiscovered(g) BY <1>7 DEF MsDiscovered
<1>8. CASE MsExchanged(g) BY <1>8 DEF MsExchanged
<1>9. CASE MsLook(g) BY <1>9 DEF MsLook
<1>10. CASE MsUnlock(g) BY <1>10 DEF MsUnlock
<1>11. CASE StartIam(g) BY <1>11 DEF StartIam, Refused
<1>12. CASE StartBuilderId(g) BY <1>12 DEF StartBuilderId, Refused
<1>13. CASE CleanUp(g) BY <1>13 DEF CleanUp
<1>14. CASE LookUpLogin(g) BY <1>14 DEF LookUpLogin
<1>15. CASE Forget(g) BY <1>15 DEF Forget
<1>16. CASE IamAnswer(g) BY <1>16 DEF IamAnswer, ReceiveToken
<1>17. CASE PollAnswer(g)
  <2>1. \E l \in {"done", "slower", "forget"} : at' = [at EXCEPT ![g] = l]
    BY <1>17 DEF PollAnswer, ReceiveToken
  <2> QED BY <1>17, <2>1 DEF PollAnswer
<1>18. CASE SlowDown(g) BY <1>18 DEF SlowDown
<1>19. CASE SsoNext(g) BY <1>19 DEF SsoNext
<1>20. CASE SsoStep(g) BY <1>20 DEF SsoStep, handlerVars
<1>21. CASE SsoFail(g) BY <1>21 DEF SsoFail
<1>22. CASE SsoToken(g) BY <1>22 DEF SsoToken
<1> QED BY <1>1, <1>2, <1>3, <1>4, <1>5, <1>6, <1>7, <1>8, <1>9, <1>10, <1>11, <1>12, <1>13,
           <1>14, <1>15, <1>16, <1>17, <1>18, <1>19, <1>20, <1>21, <1>22
        DEF MsStep, LoginStep

LEMMA PanelElsewhere ==
  ASSUME HubInv, NEW g \in Handlers, UNCHANGED feedVars, SaveStep(g) \/ SessionStep(g)
  PROVE  Elsewhere(g)
<1> USE DEF Elsewhere, Doing, Goto, Call, feedVars, HubInv
<1>1. CASE Marshal(g) BY <1>1 DEF Marshal
<1>2. CASE Truncate(g) BY <1>2 DEF Truncate
<1>3. CASE Write(g)
  <2>1. then[g] # "publishing"
    BY DEF HubInv
  <2> QED BY <1>3, <2>1 DEF Write
<1>4. CASE PointerWrite(g) BY <1>4 DEF PointerWrite
<1>5. CASE StoreToken(g) BY <1>5 DEF StoreToken
<1>6. CASE SaveCalled(g) BY <1>6 DEF SaveCalled
<1>7. CASE Enter(g) BY <1>7 DEF Enter
<1>8. CASE LoginLocked(g) BY <1>8 DEF LoginLocked
<1>9. CASE ComparePassword(g) BY <1>9 DEF ComparePassword
<1>10. CASE RegisterLoginFail(g) BY <1>10 DEF RegisterLoginFail
<1>11. CASE ClearLoginFails(g) BY <1>11 DEF ClearLoginFails
<1>12. CASE Issue(g) BY <1>12 DEF Issue
<1>13. CASE Logout(g) BY <1>13 DEF Logout
<1>14. CASE CheckCurrent(g) BY <1>14 DEF CheckCurrent
<1>15. CASE ReplacePassword(g) BY <1>15 DEF ReplacePassword
<1>16. CASE ResetSessions(g) BY <1>16 DEF ResetSessions
<1> QED BY <1>1, <1>2, <1>3, <1>4, <1>5, <1>6, <1>7, <1>8, <1>9, <1>10, <1>11, <1>12, <1>13,
           <1>14, <1>15, <1>16
        DEF SaveStep, SessionStep

LEMMA LedgerElsewhere ==
  ASSUME HubInv, NEW g \in Handlers, LedgerStep(g)
  PROVE  Elsewhere(g)
<1> USE DEF Elsewhere, Doing, Goto, Call, Announce, feedVars, HubInv
<1>1. CASE ValidateKey(g) BY <1>1 DEF ValidateKey
<1>2. CASE CheckCredit(g) BY <1>2 DEF CheckCredit
<1>3. CASE ServeTurn(g) BY <1>3 DEF ServeTurn
<1>4. CASE Charge(g) BY <1>4 DEF Charge
<1>5. CASE KeyAdmin(g) BY <1>5 DEF KeyAdmin
<1> QED BY <1>1, <1>2, <1>3, <1>4, <1>5 DEF LedgerStep

LEMMA AccountElsewhere ==
  ASSUME HubInv, NEW g \in Handlers, AccountStep(g)
  PROVE  Elsewhere(g)
<1> USE DEF Elsewhere, Doing, Goto, Call, Announce, feedVars, HubInv
<1>1. CASE AddGiven(g) BY <1>1 DEF AddGiven
<1>2. CASE ChangeAccount(g) BY <1>2 DEF ChangeAccount
<1>3. CASE ImportApiKey(g) BY <1>3 DEF ImportApiKey
<1>4. CASE Persist(g) BY <1>4 DEF Persist
<1>5. CASE AnnounceAccounts(g) BY <1>5 DEF AnnounceAccounts
<1>6. CASE Prepare(g) BY <1>6 DEF Prepare, Preparing, AfterPrepare
<1>7. CASE QuotaFetched(g) BY <1>7 DEF QuotaFetched
<1>8. CASE PublishQuota(g) BY <1>8 DEF PublishQuota
<1>9. CASE StoreModels(g) BY <1>9 DEF StoreModels
<1>10. CASE SetSyncedModels(g) BY <1>10 DEF SetSyncedModels
<1>11. CASE SetStrategy(g) BY <1>11 DEF SetStrategy
<1>12. CASE Refreshed(g) BY <1>12 DEF Refreshed, Preparing
<1>13. CASE StoreRefreshed(g) BY <1>13 DEF StoreRefreshed, Preparing, AfterPrepare
<1>14. CASE ResolveArn(g) BY <1>14 DEF ResolveArn, Preparing, AfterPrepare
<1>15. CASE UsageFetched(g) BY <1>15 DEF UsageFetched, Preparing
<1> QED BY <1>1, <1>2, <1>3, <1>4, <1>5, <1>6, <1>7, <1>8, <1>9, <1>10, <1>11, <1>12, <1>13,
           <1>14, <1>15
        DEF AccountStep

\* The steps of the hub itself.
LEMMA HubFeed ==
  ASSUME HubInv, NEW g \in Handlers, FeedStep(g) \/ LoadList(g, mem.accounts) \/ Unsubscribe(g)
  PROVE  HubInv'
<1>1. CASE Publish(g)
  BY <1>1 DEF Publish, Goto, HubInv
<1>2. CASE Visit(g)
  <2>1. PICK w \in toVisit[g] : /\ toVisit' = [toVisit EXCEPT ![g] = @ \ {w}]
                                /\ at' = [at EXCEPT ![g] = IF toVisit'[g] = {} THEN then[g]
                                                                             ELSE "publishing"]
    BY <1>2 DEF Visit, Goto
  <2>2. UNCHANGED <<hub, closed, job, then>> /\ at[g] = "publishing"
    BY <1>2 DEF Visit
  <2> QED BY <2>1, <2>2 DEF HubInv
<1>3. CASE AddLog(g)
  <2>1. Elsewhere(g)
    BY <1>3 DEF AddLog, Call, Goto, Elsewhere
  <2> QED BY <2>1, HubElsewhere
<1>4. CASE ClearLogs(g)
  <2>1. Elsewhere(g)
    BY <1>4 DEF ClearLogs, Doing, Goto, Elsewhere
  <2> QED BY <2>1, HubElsewhere
<1>5. CASE Deliver(g)
  <2>1. Elsewhere(g)
    BY <1>5 DEF Deliver, handlerVars, Elsewhere
  <2> QED BY <2>1, HubElsewhere
<1>6. CASE Subscribe(g)
  BY <1>6 DEF Subscribe, Doing, Goto, HubInv
<1>7. CASE Unsubscribe(g)
  BY <1>7 DEF Unsubscribe, Watching, HubUnlocked, Doing, Goto, HubInv
<1>8. CASE LoadList(g, mem.accounts)
  BY <1>8 DEF LoadList, Doing, Goto, HubInv
<1> QED BY <1>1, <1>2, <1>3, <1>4, <1>5, <1>6, <1>7, <1>8 DEF FeedStep

LEMMA HubHandler ==
  ASSUME HubInv, NEW g \in Handlers, HandlerStep(g)
  PROVE  HubInv'
<1>1. CASE (MsStep(g) \/ LoginStep(g)) /\ UNCHANGED feedVars
  BY <1>1, LoginElsewhere, HubElsewhere
<1>2. CASE (SaveStep(g) \/ SessionStep(g)) /\ UNCHANGED feedVars
  BY <1>2, PanelElsewhere, HubElsewhere
<1>3. CASE LedgerStep(g)
  BY <1>3, LedgerElsewhere, HubElsewhere
<1>4. CASE FeedStep(g)
  BY <1>4, HubFeed
<1>5. CASE AccountStep(g)
  BY <1>5, AccountElsewhere, HubElsewhere
<1> QED BY <1>1, <1>2, <1>3, <1>4, <1>5 DEF HandlerStep

\* Steps from outside that move no handler, or one that is no subscriber.
LEMMA HubUntouched ==
  ASSUME HubInv, UNCHANGED <<at, then, job, hub, closed, toVisit>>
  PROVE  HubInv'
BY DEF HubInv

LEMMA HubOutside ==
  ASSUME HubInv, OutsideStep
  PROVE  HubInv'
<1>1. CASE \E g \in Handlers : Unsubscribe(g)
  BY <1>1, HubFeed
<1>2. CASE \E g \in Handlers : NextTurn(g)
  <2>1. PICK g \in Handlers : NextTurn(g)
    BY <1>2
  <2>2. Elsewhere(g)
    BY <2>1 DEF NextTurn, Doing, Goto, feedVars, Elsewhere
  <2> QED BY <2>2, HubElsewhere
<1>3. CASE \E g \in Handlers : TryAgain(g) /\ UNCHANGED feedVars
  <2>1. PICK g \in Handlers : TryAgain(g) /\ UNCHANGED feedVars
    BY <1>3
  <2>2. Elsewhere(g)
    BY <2>1 DEF TryAgain, Doing, Goto, feedVars, Elsewhere
  <2> QED BY <2>2, HubElsewhere
<1>4. CASE \E g \in Handlers : Crash(g) /\ UNCHANGED feedVars
  <2>1. PICK g \in Handlers : Crash(g) /\ UNCHANGED feedVars
    BY <1>4
  <2>2. Elsewhere(g)
    BY <2>1 DEF Crash, Doing, Goto, feedVars, Elsewhere
  <2> QED BY <2>2, HubElsewhere
<1>5. CASE ThrottlePasses /\ UNCHANGED feedVars
  BY <1>5, HubUntouched DEF ThrottlePasses, handlerVars, feedVars
<1>6. CASE (\E s \in Sessions : MsExpire(s)) /\ UNCHANGED feedVars
  BY <1>6, HubUntouched DEF MsExpire, handlerVars, feedVars
<1>7. CASE (\E s \in started : LoginExpires(s)) /\ UNCHANGED feedVars
  BY <1>7, HubUntouched DEF LoginExpires, handlerVars, feedVars
<1>8. CASE MainReturns /\ UNCHANGED feedVars
  BY <1>8, HubUntouched DEF MainReturns, feedVars
<1>9. CASE \E g \in Handlers : LoadList(g, mem.accounts)
  BY <1>9, HubFeed
<1> QED BY <1>1, <1>2, <1>3, <1>4, <1>5, <1>6, <1>7, <1>8, <1>9 DEF OutsideStep

LEMMA HubRestart ==
  ASSUME HubInv, Restart
  PROVE  HubInv'
<1>1. /\ at' = [g \in Handlers |-> IF at[g] = "arrived" THEN "arrived" ELSE "done"]
      /\ then' = then /\ job' = job
      /\ hub' = {} /\ closed' = {} /\ toVisit' = [g \in Handlers |-> {}]
  BY DEF Restart, LoadsAgain, ForgetFeed
<1> QED BY <1>1 DEF HubInv

\* No event is ever sent on a closed channel, for any number of handlers, subscribers and
\* publishers: EventHub.Publish and the unsubscribing in apiEvents exclude each other.
THEOREM PublishNeverPanics == Spec => []NoSendOnClosed
<1>1. Init => HubInv
  BY HubInit
<1>2. HubInv /\ [Next]_vars => HubInv'
  <2> SUFFICES ASSUME HubInv, [Next]_vars PROVE HubInv'
    OBVIOUS
  <2>1. CASE \E g \in Handlers : HandlerStep(g) BY <2>1, HubHandler
  <2>2. CASE OutsideStep BY <2>2, HubOutside
  <2>3. CASE Restart BY <2>3, HubRestart
  <2>4. CASE UNCHANGED vars BY <2>4, HubUntouched DEF vars, handlerVars, feedVars
  <2> QED BY <2>1, <2>2, <2>3, <2>4 DEF Next, AtRest
<1> QED BY <1>1, <1>2, HubSafe, PTL DEF Spec

--------------------------------------------------------------------------------
\* The labels at which a handler is in the middle of something the invariants follow.
Watched ==
  {"compare", "failed", "clear", "issue", "replace", "reset", "credit", "serving", "charge",
   "log", "save", "truncate", "write", "announce", "publish", "publishing"}

\* The labels of a Microsoft login under a session's lock, or with sessions to discard.
MsLabels ==
  {"ms_lock", "ms_discovering", "ms_exchanging", "ms_look", "ms_unlock", "ms_discarding"}

\* Where a handler goes on after a save or a publication.
Returns ==
  {"done", "announce", "reset", "next", "usage", "models", "overlay", "publish_quota", "log"}

ListOps ==
  {"add", "remove", "disable", "api_key", "ms_continue", "iam_complete", "bid_poll", "sso_import"}

\* Which jobs get to a label, and with what to return to.
Legal(op, label, next) ==
  /\ next \in Returns
  /\ label \in {"persist", "announce"} => op \in ListOps
  /\ label = "forget" => op \in {"iam_complete", "bid_poll"}
  /\ label \in {"replace", "reset"} => op = "set_password"
  /\ label \in {"compare", "failed", "clear"} => op = "login"
  /\ label \in {"credit", "serving", "charge"} => op = "turn"
  /\ label \in {"save", "truncate", "write"} =>
       /\ op \notin {"login", "turn"}
       /\ op \in ListOps <=> next = "announce"
       /\ op = "set_password" <=> next = "reset"
       /\ next \notin {"log", "next"}
  /\ label \in {"publish", "publishing"} => next \in {"done", "next", "log"}

\* Every handler has a label and a place to return to.
Labelled == at = [g \in Handlers |-> at[g]] /\ then = [g \in Handlers |-> then[g]]

\* Sessions to discard are discarded by the handler that took them from the table, which
\* does nothing else until it has.
Discarding ==
  \A g \in Handlers, s \in Sessions :
    <<g, s>> \in marking \cup wiping => at[g] = "ms_discarding"

\* Handlers are where their jobs may take them.
ControlInv ==
  /\ Labelled
  /\ \A g \in Handlers : Legal(job[g].op, at[g], then[g])
  /\ Discarding

\* The feed as the invariants see it, but for an event of a job that has no list to publish.
FeedKept(g) ==
  /\ UNCHANGED <<hub, toVisit, offered, skipped>>
  /\ \/ event' = event
     \/ job[g].op \notin ListOps /\ \E e : event' = [event EXCEPT ![g] = e]

\* A step of g that has nothing to do with a Microsoft login.
Away(g) ==
  /\ UNCHANGED msVars
  /\ at'[g] = at[g] \/ (at[g] \notin MsLabels /\ at'[g] \notin MsLabels)

\* A handler goes from one label nobody watches to another, or stays.
Walks(g) ==
  /\ UNCHANGED <<job, then, configVars, sessionVars>>
  /\ FeedKept(g)
  /\ MsStep(g) \/ Away(g)
  /\ at' = [at EXCEPT ![g] = at'[g]]
  /\ \/ at'[g] = at[g]
     \/ /\ at[g] \notin Watched \cup {"done"} /\ at'[g] \notin Watched \cup {"arrived", "listed"}
        /\ at'[g] = "persist" => job[g].op \in ListOps
        /\ at'[g] = "forget" => job[g].op \in {"iam_complete", "bid_poll"}

\* A save without a change, by a job that neither changes accounts nor passwords.
AsksSave(g) ==
  /\ UNCHANGED <<job, configVars, sessionVars, msVars>>
  /\ FeedKept(g)
  /\ job[g].op \notin ListOps \cup {"login", "turn", "set_password"}
  /\ at[g] \notin Watched \cup MsLabels \cup {"done"}
  /\ Call(g, "save", then'[g])
  /\ then'[g] \in Returns \ {"announce", "reset", "log", "next"}

\* A change, and the call of Save that follows: the password by set_password only, the
\* accounts by the jobs that announce them (a refresher stores those there are).
Stores(g) ==
  /\ UNCHANGED <<job, sessionVars, feedVars, msVars>>
  /\ job[g].op \notin {"login", "turn"}
  /\ at[g] \notin (Watched \cup MsLabels \cup {"done"}) \ {"replace"}
  /\ Call(g, "save", then'[g])
  /\ then'[g] \in Returns \ {"log", "next"}
  /\ job[g].op \in ListOps <=> then'[g] = "announce"
  /\ job[g].op = "set_password" <=> then'[g] = "reset"
  /\ \E value :
       \/ Store(g, "accounts", value) /\ (job[g].op \in ListOps \/ value = mem.accounts)
       \/ Store(g, "password", value) /\ job[g].op = "set_password"
       \/ Store(g, "models", value)

\* A change in an account by its ID, and the call of Save or of ResolveProfileArn.
Amends(g) ==
  /\ UNCHANGED <<job, sessionVars, feedVars, msVars>>
  /\ job[g].op \in {"test", "quota", "sync"}
  /\ at[g] \in {"refreshed", "resolving", "fetched"}
  /\ SetInAccount(g)
  /\ \/ Call(g, "save", then'[g]) /\ then'[g] \in {"usage", "models", "publish_quota"}
     \/ Goto(g, "resolving") /\ then' = then

\* The quota's publication.
AsksPublish(g) ==
  /\ UNCHANGED <<job, configVars, sessionVars, msVars>>
  /\ FeedKept(g)
  /\ job[g].op = "quota"
  /\ at[g] \notin Watched \cup MsLabels \cup {"done"}
  /\ Call(g, "publish", "done")

\* Everything a handler does.
Ways(g) ==
  \/ Walks(g) \/ AsksSave(g) \/ Stores(g) \/ Amends(g) \/ AsksPublish(g)
  \/ /\ Marshal(g) \/ Truncate(g) \/ Write(g) \/ PointerWrite(g)
     /\ UNCHANGED <<msVars, sessionVars, feedVars>>
  \/ /\ \/ LoginLocked(g) \/ ComparePassword(g) \/ RegisterLoginFail(g) \/ ClearLoginFails(g)
        \/ Issue(g) \/ Logout(g) \/ CheckCurrent(g) \/ ResetSessions(g)
     /\ UNCHANGED <<msVars, feedVars>>
  \/ LedgerStep(g) /\ UNCHANGED <<msVars, sessionVars>>
  \/ (Publish(g) \/ Visit(g) \/ AddLog(g)) /\ UNCHANGED <<msVars, configVars, sessionVars>>
  \/ Subscribe(g) /\ UNCHANGED <<msVars, configVars, sessionVars>>
  \/ AnnounceAccounts(g)

LEMMA MsWays ==
  ASSUME ControlInv, Labelled, NEW g \in Handlers, MsStep(g),
         UNCHANGED <<loginVars, configVars, sessionVars, feedVars, overlay>>
  PROVE  Walks(g)
<1> USE DEF Labelled, Walks, FeedKept, Watched, MsLabels, Away, Doing, Goto, feedVars
<1>1. CASE MsStart(g) BY <1>1 DEF MsStart
<1>2. CASE MsDetach(g) BY <1>2 DEF MsDetach
<1>3. CASE MsMark(g) BY <1>3 DEF MsMark, handlerVars
<1>4. CASE MsWipe(g)
  <2>1. at[g] = "ms_discarding"
    BY <1>4 DEF MsWipe, ControlInv, Discarding
  <2> QED BY <1>4, <2>1 DEF MsWipe
<1>5. CASE MsLookUp(g) BY <1>5 DEF MsLookUp
<1>6. CASE MsContinue(g)
  <2>1. \E l \in {"ms_look", "ms_discovering", "ms_exchanging"} : at' = [at EXCEPT ![g] = l]
    BY <1>6 DEF MsContinue
  <2> QED BY <1>6, <2>1 DEF MsContinue
<1>7. CASE MsDiscovered(g) BY <1>7 DEF MsDiscovered
<1>8. CASE MsExchanged(g) BY <1>8 DEF MsExchanged
<1>9. CASE MsLook(g) BY <1>9 DEF MsLook
<1>10. CASE MsUnlock(g) BY <1>10 DEF MsUnlock, ListOps
<1> QED BY <1>1, <1>2, <1>3, <1>4, <1>5, <1>6, <1>7, <1>8, <1>9, <1>10 DEF MsStep

LEMMA LoginWays ==
  ASSUME ControlInv, Labelled, NEW g \in Handlers, LoginStep(g),
         UNCHANGED <<msVars, configVars, sessionVars, feedVars, overlay>>
  PROVE  Walks(g)
<1> USE DEF Labelled, Walks, FeedKept, Watched, MsLabels, Away, Doing, Goto, feedVars
<1>1. CASE StartIam(g) BY <1>1 DEF StartIam, Refused
<1>2. CASE StartBuilderId(g) BY <1>2 DEF StartBuilderId, Refused
<1>3. CASE CleanUp(g) BY <1>3 DEF CleanUp
<1>4. CASE LookUpLogin(g) BY <1>4 DEF LookUpLogin
<1>5. CASE Forget(g)
  <2>1. job[g].op \in ListOps
    BY <1>5 DEF Forget, ControlInv, Legal, ListOps
  <2> QED BY <1>5, <2>1 DEF Forget
<1>6. CASE IamAnswer(g) BY <1>6 DEF IamAnswer, ReceiveToken
<1>7. CASE PollAnswer(g)
  <2>1. \E l \in {"done", "slower", "forget"} : at' = [at EXCEPT ![g] = l]
    BY <1>7 DEF PollAnswer, ReceiveToken
  <2> QED BY <1>7, <2>1 DEF PollAnswer
<1>8. CASE SlowDown(g) BY <1>8 DEF SlowDown
<1>9. CASE SsoNext(g) BY <1>9 DEF SsoNext
<1>10. CASE SsoStep(g) BY <1>10 DEF SsoStep, handlerVars
<1>11. CASE SsoFail(g) BY <1>11 DEF SsoFail
<1>12. CASE SsoToken(g) BY <1>12 DEF SsoToken, ListOps
<1> QED BY <1>1, <1>2, <1>3, <1>4, <1>5, <1>6, <1>7, <1>8, <1>9, <1>10, <1>11, <1>12
        DEF LoginStep

LEMMA SaveWays ==
  ASSUME ControlInv, Labelled, NEW g \in Handlers, SaveStep(g),
         UNCHANGED <<msVars, loginVars, sessionVars, feedVars, overlay>>
  PROVE  Ways(g)
<1>1. CASE StoreToken(g)
  <2>1. Stores(g)
    BY <1>1 DEF StoreToken, Stores, Labelled, Call, Goto, Doing, Watched, MsLabels, Away, Returns, ListOps
  <2> QED BY <2>1 DEF Ways
<1>2. CASE SaveCalled(g)
  <2>1. AsksSave(g)
    BY <1>2 DEF SaveCalled, AsksSave, Labelled, Call, Goto, FeedKept, Watched, MsLabels, Away, Returns, ListOps, feedVars
  <2> QED BY <2>1 DEF Ways
<1> QED BY <1>1, <1>2 DEF SaveStep, Ways

LEMMA SessionWays ==
  ASSUME ControlInv, Labelled, NEW g \in Handlers, SessionStep(g),
         UNCHANGED <<msVars, loginVars, feedVars, overlay>>
  PROVE  Ways(g)
<1>1. CASE Enter(g)
  <2>1. Walks(g)
    BY <1>1 DEF Enter, Walks, Labelled, Call, Goto, FeedKept, Watched, MsLabels, Away, feedVars
  <2> QED BY <2>1 DEF Ways
<1>2. CASE ReplacePassword(g)
  <2>1. Stores(g)
    BY <1>2 DEF ReplacePassword, Stores, Labelled, Call, Goto, Doing, Watched, MsLabels, Away, Returns, ListOps
  <2> QED BY <2>1 DEF Ways
<1> QED BY <1>1, <1>2 DEF SessionStep, Ways

LEMMA FeedWays ==
  ASSUME ControlInv, Labelled, NEW g \in Handlers, FeedStep(g),
         UNCHANGED <<msVars, configVars, sessionVars>>
  PROVE  Ways(g)
<1>1. CASE ClearLogs(g)
  <2>1. Walks(g)
    BY <1>1 DEF ClearLogs, Walks, Labelled, Call, Goto, FeedKept, Doing, Watched, MsLabels, Away
  <2> QED BY <2>1 DEF Ways
<1>2. CASE Deliver(g)
  <2>1. Walks(g)
    BY <1>2 DEF Deliver, Walks, Labelled, Away, FeedKept, handlerVars
  <2> QED BY <2>1 DEF Ways
<1> QED BY <1>1, <1>2 DEF FeedStep, Ways

LEMMA AccountWays ==
  ASSUME ControlInv, Labelled, NEW g \in Handlers, AccountStep(g)
  PROVE  Ways(g)
<1> USE DEF Labelled, FeedKept, Call, Goto, Watched, MsLabels, Away, Doing, feedVars
<1>1. CASE AddGiven(g)
  <2>1. Walks(g) \/ Stores(g)
    BY <1>1 DEF AddGiven, Walks, Stores, Returns, ListOps
  <2> QED BY <2>1 DEF Ways
<1>2. CASE ChangeAccount(g)
  <2>1. Walks(g) \/ Stores(g)
    BY <1>2 DEF ChangeAccount, Walks, Stores, Returns, ListOps
  <2> QED BY <2>1 DEF Ways
<1>3. CASE ImportApiKey(g)
  <2>1. Walks(g)
    BY <1>3 DEF ImportApiKey, Walks, ListOps
  <2> QED BY <2>1 DEF Ways
<1>4. CASE Persist(g)
  <2>1. job[g].op \in ListOps
    BY <1>4 DEF Persist, ControlInv, Legal
  <2>2. Stores(g)
    BY <1>4, <2>1 DEF Persist, Stores, Returns, ListOps
  <2> QED BY <2>2 DEF Ways
<1>5. CASE AnnounceAccounts(g) BY <1>5 DEF Ways
<1>6. CASE Prepare(g)
  <2>1. Walks(g) \/ AsksSave(g)
    BY <1>6 DEF Prepare, Preparing, AfterPrepare, Walks, AsksSave, Returns, ListOps
  <2> QED BY <2>1 DEF Ways
<1>7. CASE QuotaFetched(g)
  <2>1. Walks(g) \/ Amends(g)
    BY <1>7 DEF QuotaFetched, Walks, Amends
  <2> QED BY <2>1 DEF Ways
<1>8. CASE PublishQuota(g)
  <2>1. AsksPublish(g)
    BY <1>8 DEF PublishQuota, Announce, AsksPublish, ListOps
  <2> QED BY <2>1 DEF Ways
<1>12. CASE Refreshed(g)
  <2>1. Walks(g)
    BY <1>12 DEF Refreshed, Preparing, Walks
  <2> QED BY <2>1 DEF Ways
<1>13. CASE StoreRefreshed(g)
  <2>1. Amends(g)
    BY <1>13 DEF StoreRefreshed, Preparing, AfterPrepare, Amends
  <2> QED BY <2>1 DEF Ways
<1>14. CASE ResolveArn(g)
  <2>1. Walks(g) \/ Amends(g)
    BY <1>14 DEF ResolveArn, Preparing, AfterPrepare, Walks, Amends
  <2> QED BY <2>1 DEF Ways
<1>15. CASE UsageFetched(g)
  <2>1. Walks(g)
    BY <1>15 DEF UsageFetched, Preparing, Walks
  <2> QED BY <2>1 DEF Ways
<1>9. CASE StoreModels(g)
  <2>1. Walks(g) \/ Stores(g)
    BY <1>9 DEF StoreModels, Walks, Stores, Returns, ListOps
  <2> QED BY <2>1 DEF Ways
<1>10. CASE SetSyncedModels(g)
  <2>1. Walks(g)
    BY <1>10 DEF SetSyncedModels, Walks
  <2> QED BY <2>1 DEF Ways
<1>11. CASE SetStrategy(g)
  <2>1. AsksSave(g)
    BY <1>11 DEF SetStrategy, AsksSave, Returns, ListOps
  <2> QED BY <2>1 DEF Ways
<1> QED BY <1>1, <1>2, <1>3, <1>4, <1>5, <1>6, <1>7, <1>8, <1>9, <1>10, <1>11, <1>12, <1>13,
           <1>14, <1>15
        DEF AccountStep

LEMMA HandlerWays ==
  ASSUME ControlInv, NEW g \in Handlers, HandlerStep(g)
  PROVE  Ways(g)
<1>0. Labelled
  BY DEF ControlInv
<1>1. CASE MsStep(g) /\ UNCHANGED <<loginVars, configVars, sessionVars, feedVars, overlay>>
  BY <1>0, <1>1, MsWays DEF Ways
<1>2. CASE LoginStep(g) /\ UNCHANGED <<msVars, configVars, sessionVars, feedVars, overlay>>
  BY <1>0, <1>2, LoginWays DEF Ways
<1>3. CASE SaveStep(g) /\ UNCHANGED <<msVars, loginVars, sessionVars, feedVars, overlay>>
  BY <1>0, <1>3, SaveWays
<1>4. CASE SessionStep(g) /\ UNCHANGED <<msVars, loginVars, feedVars, overlay>>
  BY <1>0, <1>4, SessionWays
<1>5. CASE LedgerStep(g) /\ UNCHANGED <<msVars, sessionVars>>
  BY <1>5 DEF Ways
<1>6. CASE FeedStep(g) /\ UNCHANGED <<msVars, configVars, sessionVars>>
  BY <1>0, <1>6, FeedWays
<1>7. CASE AccountStep(g)
  BY <1>0, <1>7, AccountWays
<1> QED BY <1>1, <1>2, <1>3, <1>4, <1>5, <1>6, <1>7 DEF HandlerStep

\* What a step from outside does to the handlers: one that is unwatched moves, or none.
Strolls(g) ==
  /\ at' = [at EXCEPT ![g] = at'[g]]
  /\ \/ job[g].op = "watch" /\ at[g] \in {"watching", "listed"} /\ at'[g] \in {"listed", "done"}
     \/ job[g].op = "turn" /\ at[g] = "done" /\ at'[g] = "arrived"
     \/ job[g].op = "login" /\ at[g] = "done" /\ at'[g] = "arrived" /\ g \notin sessions
     \/ job[g].op = "crash" /\ at[g] = "arrived" /\ at'[g] = "done"

OutsideWays ==
  /\ UNCHANGED <<job, then, configVars, event, toVisit, skipped>>
  /\ hub' = hub \/ \E w \in Handlers : hub' = hub \ {w}
  /\ \/ UNCHANGED offered /\ \A w \in Handlers : at'[w] = "listed" => at[w] = "listed"
     \/ \E w \in Handlers : LoadList(w, mem.accounts)
  /\ \/ \E g \in Handlers : Strolls(g) /\ UNCHANGED sessionVars
     \/ at' = at /\ (UNCHANGED sessionVars \/ ThrottlePasses)

LEMMA OutsideHasWays ==
  ASSUME Labelled, OutsideStep
  PROVE  OutsideWays
<1> USE DEF OutsideWays, Doing, Goto, feedVars
<1>1. CASE \E g \in Handlers : Unsubscribe(g) /\ UNCHANGED <<configVars, sessionVars>>
  <2>1. PICK g \in Handlers : Unsubscribe(g) /\ UNCHANGED <<configVars, sessionVars>>
    BY <1>1
  <2>2. Strolls(g) /\ at' = [at EXCEPT ![g] = "done"]
    BY <2>1 DEF Unsubscribe, Watching, Strolls, Labelled
  <2> QED BY <2>1, <2>2 DEF Unsubscribe, Labelled
<1>9. CASE \E g \in Handlers : LoadList(g, mem.accounts) /\ UNCHANGED <<configVars, sessionVars>>
  <2>1. PICK g \in Handlers : LoadList(g, mem.accounts) /\ UNCHANGED <<configVars, sessionVars>>
    BY <1>9
  <2>2. Strolls(g)
    BY <2>1 DEF LoadList, Strolls, Labelled
  <2> QED BY <2>1, <2>2 DEF LoadList
<1>2. CASE \E g \in Handlers : NextTurn(g) /\ UNCHANGED sessionVars
  <2>1. PICK g \in Handlers : NextTurn(g) /\ UNCHANGED sessionVars
    BY <1>2
  <2>2. Strolls(g)
    BY <2>1 DEF NextTurn, Strolls, Labelled
  <2> QED BY <2>1, <2>2 DEF NextTurn, Labelled
<1>3. CASE \E g \in Handlers : TryAgain(g) /\ UNCHANGED feedVars
  <2>1. PICK g \in Handlers : TryAgain(g) /\ UNCHANGED feedVars
    BY <1>3
  <2>2. Strolls(g)
    BY <2>1 DEF TryAgain, Strolls, Labelled
  <2> QED BY <2>1, <2>2 DEF TryAgain, Labelled
<1>4. CASE \E g \in Handlers : Crash(g) /\ UNCHANGED <<sessionVars, feedVars>>
  <2>1. PICK g \in Handlers : Crash(g) /\ UNCHANGED <<sessionVars, feedVars>>
    BY <1>4
  <2>2. Strolls(g)
    BY <2>1 DEF Crash, Strolls, Labelled
  <2> QED BY <2>1, <2>2 DEF Crash, Labelled
<1>5. CASE ThrottlePasses /\ UNCHANGED feedVars
  BY <1>5 DEF ThrottlePasses, handlerVars
<1>6. CASE (\E s \in Sessions : MsExpire(s)) /\ UNCHANGED <<configVars, sessionVars, feedVars>>
  BY <1>6 DEF MsExpire, handlerVars
<1>7. CASE (\E s \in started : LoginExpires(s)) /\ UNCHANGED <<configVars, sessionVars, feedVars>>
  BY <1>7 DEF LoginExpires, handlerVars
<1>8. CASE MainReturns /\ UNCHANGED <<sessionVars, feedVars>>
  BY <1>8 DEF MainReturns
<1> QED BY <1>1, <1>2, <1>3, <1>4, <1>5, <1>6, <1>7, <1>8, <1>9 DEF OutsideStep

-------------------------------------------------------------------------------
\* A step of g that takes it to a legal place; none takes it back to where it came in, or
\* on from where it has returned.
Steps(g) ==
  /\ job' = job
  /\ at'[g] = "arrived" => at[g] = "arrived"
  /\ at'[g] = "listed" => at[g] = "listed"
  /\ at[g] = "done" => at'[g] = "done"
  /\ at' = [at EXCEPT ![g] = at'[g]] /\ then' = [then EXCEPT ![g] = then'[g]]
  /\ Legal(job[g].op, at'[g], then'[g])
  /\ MsStep(g) \/ Away(g)

LEMMA WaysAreLegal ==
  ASSUME ControlInv, NEW g \in Handlers, Ways(g)
  PROVE  Steps(g)
<1>0. Labelled /\ Legal(job[g].op, at[g], then[g])
  BY DEF ControlInv
<1> USE DEF Labelled, Steps, Legal, Away, MsLabels, Doing, Goto, Call
<1>1. CASE Walks(g) BY <1>0, <1>1 DEF Walks, Watched
<1>2. CASE AsksSave(g) BY <1>0, <1>2 DEF AsksSave, ListOps, Returns
<1>3. CASE Stores(g) BY <1>0, <1>3 DEF Stores, Returns
<1>4. CASE AsksPublish(g) BY <1>0, <1>4 DEF AsksPublish, Returns
<1>5. CASE Marshal(g) /\ UNCHANGED msVars
  BY <1>0, <1>5 DEF Marshal
<1>6. CASE Truncate(g) /\ UNCHANGED msVars
  BY <1>0, <1>6 DEF Truncate
<1>7. CASE Write(g) /\ UNCHANGED msVars
  BY <1>0, <1>7 DEF Write, Returns
<1>8. CASE PointerWrite(g) /\ UNCHANGED msVars
  BY <1>0, <1>8 DEF PointerWrite
<1>9. CASE LoginLocked(g) /\ UNCHANGED msVars
  BY <1>0, <1>9 DEF LoginLocked
<1>10. CASE ComparePassword(g) /\ UNCHANGED msVars
  BY <1>0, <1>10 DEF ComparePassword
<1>11. CASE RegisterLoginFail(g) /\ UNCHANGED msVars
  BY <1>0, <1>11 DEF RegisterLoginFail
<1>12. CASE ClearLoginFails(g) /\ UNCHANGED msVars
  BY <1>0, <1>12 DEF ClearLoginFails
<1>13. CASE Issue(g) /\ UNCHANGED msVars
  BY <1>0, <1>13 DEF Issue
<1>14. CASE Logout(g) /\ UNCHANGED msVars
  BY <1>0, <1>14 DEF Logout
<1>15. CASE CheckCurrent(g) /\ UNCHANGED msVars
  BY <1>0, <1>15 DEF CheckCurrent
<1>16. CASE ResetSessions(g) /\ UNCHANGED msVars
  BY <1>0, <1>16 DEF ResetSessions
<1>17. CASE ValidateKey(g) /\ UNCHANGED msVars
  BY <1>0, <1>17 DEF ValidateKey
<1>18. CASE CheckCredit(g) /\ UNCHANGED msVars
  BY <1>0, <1>18 DEF CheckCredit
<1>19. CASE ServeTurn(g) /\ UNCHANGED msVars
  BY <1>0, <1>19 DEF ServeTurn
<1>20. CASE Charge(g) /\ UNCHANGED msVars
  BY <1>0, <1>20 DEF Charge, Returns
<1>21. CASE KeyAdmin(g) /\ UNCHANGED msVars
  BY <1>0, <1>21 DEF KeyAdmin, ListOps, Returns
<1>22. CASE Publish(g) /\ UNCHANGED msVars
  BY <1>0, <1>22 DEF Publish, Returns
<1>23. CASE Visit(g) /\ UNCHANGED msVars
  <2>1. at' = [at EXCEPT ![g] = then[g]] \/ at' = [at EXCEPT ![g] = "publishing"]
    BY <1>23 DEF Visit
  <2> QED BY <1>0, <1>23, <2>1 DEF Visit, Returns
<1>24. CASE AddLog(g) /\ UNCHANGED msVars
  BY <1>0, <1>24 DEF AddLog, Returns
<1>25. CASE Subscribe(g) /\ UNCHANGED msVars
  BY <1>0, <1>25 DEF Subscribe
<1>26. CASE AnnounceAccounts(g) BY <1>0, <1>26 DEF AnnounceAccounts, Returns
<1>27. CASE Amends(g) BY <1>0, <1>27 DEF Amends, ListOps, Returns
<1> QED BY <1>1, <1>2, <1>3, <1>4, <1>5, <1>6, <1>7, <1>8, <1>9, <1>10, <1>11, <1>12, <1>13,
           <1>14, <1>15, <1>16, <1>17, <1>18, <1>19, <1>20, <1>21, <1>22, <1>23, <1>24, <1>25,
           <1>26, <1>27
        DEF Ways, LedgerStep

LEMMA DiscardingKept ==
  ASSUME Labelled, Discarding, NEW g \in Handlers, Away(g), at' = [at EXCEPT ![g] = at'[g]]
  PROVE  Discarding'
BY DEF Labelled, Discarding, Away, MsLabels, msVars

LEMMA DiscardingStep ==
  ASSUME Labelled, Discarding, NEW g \in Handlers, MsStep(g)
  PROVE  Discarding'
<1> USE DEF Labelled, Discarding, Doing, Goto
<1>1. CASE MsStart(g) BY <1>1 DEF MsStart
<1>2. CASE MsDetach(g) BY <1>2 DEF MsDetach
<1>3. CASE MsMark(g) BY <1>3 DEF MsMark, handlerVars
<1>4. CASE MsWipe(g) BY <1>4 DEF MsWipe
<1>5. CASE MsLookUp(g) BY <1>5 DEF MsLookUp
<1>6. CASE MsContinue(g)
  <2>1. \E l \in {"ms_look", "ms_discovering", "ms_exchanging"} : at' = [at EXCEPT ![g] = l]
    BY <1>6 DEF MsContinue
  <2> QED BY <1>6, <2>1 DEF MsContinue
<1>7. CASE MsDiscovered(g) BY <1>7 DEF MsDiscovered
<1>8. CASE MsExchanged(g) BY <1>8 DEF MsExchanged
<1>9. CASE MsLook(g) BY <1>9 DEF MsLook
<1>10. CASE MsUnlock(g) BY <1>10 DEF MsUnlock
<1> QED BY <1>1, <1>2, <1>3, <1>4, <1>5, <1>6, <1>7, <1>8, <1>9, <1>10 DEF MsStep

LEMMA ControlNext ==
  ASSUME ControlInv, [Next]_vars
  PROVE  ControlInv'
<1>1. CASE \E g \in Handlers : HandlerStep(g)
  <2>1. PICK g \in Handlers : Ways(g)
    BY <1>1, HandlerWays
  <2>2. Steps(g)
    BY <2>1, WaysAreLegal
  <2>3. Labelled' /\ \A h \in Handlers : Legal(job[h].op, at[h], then[h])'
    BY <2>2 DEF Steps, ControlInv, Labelled
  <2>4. Discarding'
    BY <2>2, DiscardingStep, DiscardingKept DEF Steps, ControlInv
  <2> QED BY <2>3, <2>4 DEF ControlInv
<1>2. CASE OutsideStep
  <2>1. OutsideWays
    BY <1>2, OutsideHasWays DEF ControlInv
  <2>2. \A h \in Handlers : \/ at'[h] = at[h]
                            \/ at[h] # "ms_discarding" /\ at'[h] \in {"arrived", "listed", "done"}
    <3>1. CASE at' = at
      BY <3>1
    <3>2. CASE \E g \in Handlers : Strolls(g)
      BY <3>2 DEF Strolls, ControlInv, Labelled
    <3> QED BY <2>1, <3>1, <3>2 DEF OutsideWays
  <2>3. Labelled' /\ \A h \in Handlers : Legal(job[h].op, at[h], then[h])'
    BY <2>1, <2>2 DEF OutsideWays, Strolls, ControlInv, Labelled, Legal
  <2>4. UNCHANGED <<marking, wiping>>
    BY <1>2 DEF OutsideStep, msVars, MsExpire
  <2>5. Discarding'
    BY <2>2, <2>4 DEF Discarding, ControlInv
  <2> QED BY <2>3, <2>5 DEF ControlInv
<1>3. CASE Restart
  <2>1. /\ at' = [g \in Handlers |-> IF at[g] = "arrived" THEN "arrived" ELSE "done"]
        /\ UNCHANGED <<job, then>> /\ marking' = {} /\ wiping' = {}
    BY <1>3 DEF Restart, LoadsAgain, MsForget
  <2> QED BY <2>1 DEF ControlInv, Labelled, Discarding, Legal
<1>4. CASE UNCHANGED vars
  BY <1>4 DEF vars, handlerVars, msVars, ControlInv, Labelled, Discarding
<1> QED BY <1>1, <1>2, <1>3, <1>4 DEF Next, AtRest

LEMMA ControlStart == Init => ControlInv
BY DEF Init, MsInit, ControlInv, Labelled, Discarding, Legal, Returns
-------------------------------------------------------------------------------
\* Configurations are configurations wherever there is one: in memory, in the file, and
\* in what a handler is about to write.
ConfigInv ==
  /\ IsConfig(mem)
  /\ Readable(disk) => IsConfig(disk)
  /\ snapshot = [g \in Handlers |-> snapshot[g]]
  /\ \A g \in Handlers : at[g] \in Saving => IsConfig(snapshot[g])

\* A change is counted, and its handler knows the count.
Counted(g) ==
  \/ UNCHANGED <<mem, stamp>>
  \/ mem'.version = mem.version + 1 /\ stamp' = [stamp EXCEPT ![g] = mem.version + 1]

LEMMA ConfigFields ==
  ASSUME NEW accounts, NEW keys \in [Keys -> KeyStates], NEW password, NEW models,
         NEW version \in Nat
  PROVE  IsConfig([accounts |-> accounts, keys |-> keys, password |-> password,
                   models |-> models, version |-> version])
BY DEF IsConfig

\* Storing one field leaves the others.
LEMMA StoreAccounts ==
  ASSUME IsConfig(mem), NEW g, NEW value, Store(g, "accounts", value)
  PROVE  /\ IsConfig(mem') /\ Counted(g)
         /\ mem'.accounts = value /\ mem'.keys = mem.keys /\ mem'.password = mem.password
<1>1. CASE value = mem.accounts
  BY <1>1 DEF Store, Counted
<1>2. CASE value # mem.accounts
  <2>1. /\ mem' = [mem EXCEPT !.accounts = value, !.version = @ + 1]
        /\ stamp' = [stamp EXCEPT ![g] = mem.version + 1]
    BY <1>2 DEF Store
  <2>2. mem' = [accounts |-> value, keys |-> mem.keys, password |-> mem.password, models |-> mem.models,
                version |-> mem.version + 1]
    BY <2>1 DEF IsConfig
  <2>3. mem.keys \in [Keys -> KeyStates] /\ mem.version + 1 \in Nat
    BY DEF IsConfig
  <2>4. IsConfig(mem')
    BY <2>2, <2>3, ConfigFields
  <2> QED BY <2>1, <2>2, <2>4 DEF Counted
<1> QED BY <1>1, <1>2

LEMMA StorePassword ==
  ASSUME IsConfig(mem), NEW g, NEW value, Store(g, "password", value)
  PROVE  /\ IsConfig(mem') /\ Counted(g)
         /\ mem'.accounts = mem.accounts /\ mem'.keys = mem.keys /\ mem'.password = value
<1>1. CASE value = mem.password
  BY <1>1 DEF Store, Counted
<1>2. CASE value # mem.password
  <2>1. /\ mem' = [mem EXCEPT !.password = value, !.version = @ + 1]
        /\ stamp' = [stamp EXCEPT ![g] = mem.version + 1]
    BY <1>2 DEF Store
  <2>2. mem' = [accounts |-> mem.accounts, keys |-> mem.keys, password |-> value, models |-> mem.models,
                version |-> mem.version + 1]
    BY <2>1 DEF IsConfig
  <2>3. mem.keys \in [Keys -> KeyStates] /\ mem.version + 1 \in Nat
    BY DEF IsConfig
  <2>4. IsConfig(mem')
    BY <2>2, <2>3, ConfigFields
  <2> QED BY <2>1, <2>2, <2>4 DEF Counted
<1> QED BY <1>1, <1>2

LEMMA StoreModelList ==
  ASSUME IsConfig(mem), NEW g, NEW value, Store(g, "models", value)
  PROVE  /\ IsConfig(mem') /\ Counted(g)
         /\ UNCHANGED <<mem.accounts, mem.keys, mem.password>>
<1>1. CASE value = mem.models
  BY <1>1 DEF Store, Counted
<1>2. CASE value # mem.models
  <2>1. /\ mem' = [mem EXCEPT !.models = value, !.version = @ + 1]
        /\ stamp' = [stamp EXCEPT ![g] = mem.version + 1]
    BY <1>2 DEF Store
  <2>2. mem' = [accounts |-> mem.accounts, keys |-> mem.keys, password |-> mem.password, models |-> value,
                version |-> mem.version + 1]
    BY <2>1 DEF IsConfig
  <2>3. mem.keys \in [Keys -> KeyStates] /\ mem.version + 1 \in Nat
    BY DEF IsConfig
  <2>4. IsConfig(mem')
    BY <2>2, <2>3, ConfigFields
  <2> QED BY <2>1, <2>2, <2>4 DEF Counted
<1> QED BY <1>1, <1>2

LEMMA StoreKeys ==
  ASSUME IsConfig(mem), NEW g, NEW value \in [Keys -> KeyStates], Store(g, "keys", value)
  PROVE  /\ IsConfig(mem') /\ Counted(g)
         /\ mem'.accounts = mem.accounts /\ mem'.keys = value /\ mem'.password = mem.password
<1>1. CASE value = mem.keys
  BY <1>1 DEF Store, Counted
<1>2. CASE value # mem.keys
  <2>1. /\ mem' = [mem EXCEPT !.keys = value, !.version = @ + 1]
        /\ stamp' = [stamp EXCEPT ![g] = mem.version + 1]
    BY <1>2 DEF Store
  <2>2. mem' = [accounts |-> mem.accounts, keys |-> value, password |-> mem.password, models |-> mem.models,
                version |-> mem.version + 1]
    BY <2>1 DEF IsConfig
  <2>3. mem.keys \in [Keys -> KeyStates] /\ mem.version + 1 \in Nat
    BY DEF IsConfig
  <2>4. IsConfig(mem')
    BY <2>2, <2>3, ConfigFields
  <2> QED BY <2>1, <2>2, <2>4 DEF Counted
<1> QED BY <1>1, <1>2

\* What a change by an administrator does to memory.
LEMMA StoresEffect ==
  ASSUME IsConfig(mem), NEW g \in Handlers, Stores(g)
  PROVE  /\ LockFree /\ IsConfig(mem') /\ Counted(g)
         /\ UNCHANGED <<disk, snapshot, acked, unsaved, straddled>>
         /\ mem'.keys = mem.keys
         /\ mem'.accounts = mem.accounts \/ job[g].op \in ListOps
         /\ mem'.password = mem.password \/ job[g].op = "set_password"
<1>1. PICK value : \/ Store(g, "accounts", value) /\ (job[g].op \in ListOps \/ value = mem.accounts)
                   \/ Store(g, "password", value) /\ job[g].op = "set_password"
                   \/ Store(g, "models", value)
  BY DEF Stores
<1>2. LockFree /\ UNCHANGED <<disk, snapshot, acked, unsaved, straddled>>
  BY <1>1 DEF Store
<1> QED BY <1>1, <1>2, StoreAccounts, StorePassword, StoreModelList

\* What the turns and the operator do to the keys.
LEMMA ChargeEffect ==
  ASSUME IsConfig(mem), NEW g \in Handlers, Charge(g)
  PROVE  \E cost \in 0..MaxCost :
           /\ mem'.keys = IF mem.keys[KeyOf(g)].there
                          THEN [mem.keys EXCEPT ![KeyOf(g)].credits = @ + cost] ELSE mem.keys
           /\ LockFree /\ IsConfig(mem') /\ Counted(g)
           /\ UNCHANGED <<disk, snapshot, acked, unsaved, straddled>>
           /\ mem'.accounts = mem.accounts /\ mem'.password = mem.password
<1>1. PICK cost \in 0..MaxCost :
        Store(g, "keys", IF mem.keys[KeyOf(g)].there
                         THEN [mem.keys EXCEPT ![KeyOf(g)].credits = @ + cost] ELSE mem.keys)
  BY DEF Charge
<1> DEFINE value == IF mem.keys[KeyOf(g)].there
                    THEN [mem.keys EXCEPT ![KeyOf(g)].credits = @ + cost] ELSE mem.keys
<1>2. value \in [Keys -> KeyStates]
  <2>1. mem.keys \in [Keys -> KeyStates] /\ cost \in Nat
    BY LedgerLimits DEF IsConfig
  <2>2. CASE KeyOf(g) \in Keys
    <3>1. mem.keys[KeyOf(g)] \in KeyStates
      BY <2>1, <2>2
    <3>2. [mem.keys[KeyOf(g)] EXCEPT !.credits = @ + cost] \in KeyStates
      BY <2>1, <3>1 DEF KeyStates
    <3> QED BY <2>1, <3>2
  <2>3. CASE KeyOf(g) \notin Keys
    BY <2>1, <2>3
  <2> QED BY <2>2, <2>3
<1>3. Store(g, "keys", value)
  BY <1>1
<1>4. LockFree /\ UNCHANGED <<disk, snapshot, acked, unsaved, straddled>>
  BY <1>3 DEF Store
<1>5. mem'.keys = value /\ IsConfig(mem') /\ Counted(g)
      /\ mem'.accounts = mem.accounts /\ mem'.password = mem.password
  <2> HIDE DEF value
  <2> QED BY <1>2, <1>3, StoreKeys
<1> QED BY <1>4, <1>5

KeysChanged(g) ==
  \/ job[g].op = "add_key"
     /\ mem'.keys = [mem.keys EXCEPT ![KeyOf(g)] = [there |-> TRUE, on |-> TRUE, credits |-> 0]]
  \/ mem'.keys = [mem.keys EXCEPT ![KeyOf(g)].there = FALSE]
  \/ mem'.keys = [mem.keys EXCEPT ![KeyOf(g)].on = ~@]

LEMMA KeyAdminEffect ==
  ASSUME IsConfig(mem), NEW g \in Handlers, KeyAdmin(g)
  PROVE  \/ UNCHANGED configVars /\ at' = [at EXCEPT ![g] = "done"]
         \/ /\ KeysChanged(g)
            /\ LockFree /\ IsConfig(mem') /\ Counted(g)
            /\ UNCHANGED <<disk, snapshot, acked, unsaved, straddled>>
            /\ mem'.accounts = mem.accounts /\ mem'.password = mem.password
            /\ at' = [at EXCEPT ![g] = "save"]
<1>1. CASE UNCHANGED configVars /\ Goto(g, "done")
  BY <1>1 DEF Goto
<1>2. ASSUME NEW value \in [Keys -> KeyStates], Store(g, "keys", value), Call(g, "save", "done"),
             \/ /\ job[g].op = "add_key"
                /\ value = [mem.keys EXCEPT ![KeyOf(g)] =
                                           [there |-> TRUE, on |-> TRUE, credits |-> 0]]
             \/ value = [mem.keys EXCEPT ![KeyOf(g)].there = FALSE]
             \/ value = [mem.keys EXCEPT ![KeyOf(g)].on = ~@]
      PROVE  /\ KeysChanged(g)
             /\ LockFree /\ IsConfig(mem') /\ Counted(g)
             /\ UNCHANGED <<disk, snapshot, acked, unsaved, straddled>>
             /\ mem'.accounts = mem.accounts /\ mem'.password = mem.password
             /\ at' = [at EXCEPT ![g] = "save"]
  <2>1. LockFree /\ UNCHANGED <<disk, snapshot, acked, unsaved, straddled>>
    BY <1>2 DEF Store
  <2>2. mem'.keys = value /\ IsConfig(mem') /\ Counted(g)
        /\ mem'.accounts = mem.accounts /\ mem'.password = mem.password
    BY <1>2, StoreKeys
  <2> QED BY <1>2, <2>1, <2>2 DEF KeysChanged, Call, Goto
<1> DEFINE Added == [mem.keys EXCEPT ![KeyOf(g)] = [there |-> TRUE, on |-> TRUE, credits |-> 0]]
           Removed == [mem.keys EXCEPT ![KeyOf(g)].there = FALSE]
           Toggled == [mem.keys EXCEPT ![KeyOf(g)].on = ~@]
<1>3. Added \in [Keys -> KeyStates] /\ Removed \in [Keys -> KeyStates]
      /\ Toggled \in [Keys -> KeyStates]
  BY DEF IsConfig, KeyStates
<1>4. \/ UNCHANGED configVars /\ Goto(g, "done")
      \/ /\ Call(g, "save", "done")
         /\ \/ job[g].op = "add_key" /\ Store(g, "keys", Added)
            \/ Store(g, "keys", Removed)
            \/ Store(g, "keys", Toggled)
  BY DEF KeyAdmin
<1> HIDE DEF Added, Removed, Toggled
<1>5. CASE job[g].op = "add_key" /\ Store(g, "keys", Added) /\ Call(g, "save", "done")
  BY <1>2, <1>3, <1>5 DEF Added
<1>6. CASE Store(g, "keys", Removed) /\ Call(g, "save", "done")
  BY <1>2, <1>3, <1>6 DEF Removed
<1>7. CASE Store(g, "keys", Toggled) /\ Call(g, "save", "done")
  BY <1>2, <1>3, <1>7 DEF Toggled
<1> QED BY <1>1, <1>4, <1>5, <1>6, <1>7

LEMMA PointerEffect ==
  ASSUME IsConfig(mem), NEW g \in Handlers, PointerWrite(g)
  PROVE  /\ IsConfig(mem') /\ mem'.version = mem.version + 1
         /\ mem'.accounts = mem.accounts /\ mem'.keys = mem.keys /\ mem'.password = mem.password
<1>1. mem' = [mem EXCEPT !.version = @ + 1]
  BY DEF PointerWrite
<1>2. mem' = [accounts |-> mem.accounts, keys |-> mem.keys, password |-> mem.password,
              models |-> mem.models, version |-> mem.version + 1]
  BY <1>1 DEF IsConfig
<1>3. mem.keys \in [Keys -> KeyStates] /\ mem.version + 1 \in Nat
  BY DEF IsConfig
<1>4. IsConfig(mem')
  BY <1>2, <1>3, ConfigFields
<1> QED BY <1>2, <1>4

LEMMA AmendEffect ==
  ASSUME IsConfig(mem), NEW g \in Handlers, SetInAccount(g)
  PROVE  /\ LockFree /\ IsConfig(mem') /\ Counted(g)
         /\ UNCHANGED <<disk, snapshot, acked, unsaved, straddled>>
         /\ mem'.accounts = mem.accounts /\ mem'.keys = mem.keys /\ mem'.password = mem.password
<1>1. CASE UNCHANGED <<mem, stamp>>
  BY <1>1 DEF SetInAccount, Counted
<1>2. CASE /\ mem' = [mem EXCEPT !.version = @ + 1]
           /\ stamp' = [stamp EXCEPT ![g] = mem.version + 1]
  <2>1. mem' = [accounts |-> mem.accounts, keys |-> mem.keys, password |-> mem.password,
                models |-> mem.models, version |-> mem.version + 1]
    BY <1>2 DEF IsConfig
  <2>2. mem.keys \in [Keys -> KeyStates] /\ mem.version + 1 \in Nat
    BY DEF IsConfig
  <2>3. IsConfig(mem')
    BY <2>1, <2>2, ConfigFields
  <2> QED BY <1>2, <2>1, <2>3 DEF SetInAccount, Counted
<1> QED BY <1>1, <1>2 DEF SetInAccount

\* A step that neither changes the configuration nor saves it.
Idles(g) ==
  /\ UNCHANGED configVars
  /\ at'[g] = at[g] \/ (at[g] \notin Saving /\ at'[g] \notin Saving)

\* The ways of a handler by what they do to the configuration.
LEMMA ConfigWays ==
  ASSUME ControlInv, NEW g \in Handlers, Ways(g)
  PROVE  \/ Idles(g) \/ Stores(g) \/ Marshal(g) \/ Truncate(g) \/ Write(g) \/ PointerWrite(g)
         \/ Charge(g) \/ KeyAdmin(g) \/ Amends(g)
<1>0. Labelled /\ Legal(job[g].op, at[g], then[g])
  BY DEF ControlInv
<1> USE DEF Labelled, Idles, Saving, Doing, Goto, Call
<1>1. CASE Walks(g) BY <1>0, <1>1 DEF Walks, Watched, configVars
<1>2. CASE AsksSave(g) BY <1>0, <1>2 DEF AsksSave, Watched, configVars
<1>3. CASE AsksPublish(g) BY <1>0, <1>3 DEF AsksPublish, Watched, configVars
<1>4. CASE LoginLocked(g) BY <1>0, <1>4 DEF LoginLocked
<1>5. CASE ComparePassword(g) BY <1>0, <1>5 DEF ComparePassword
<1>6. CASE RegisterLoginFail(g) BY <1>0, <1>6 DEF RegisterLoginFail
<1>7. CASE ClearLoginFails(g) BY <1>0, <1>7 DEF ClearLoginFails
<1>8. CASE Issue(g) BY <1>0, <1>8 DEF Issue
<1>9. CASE Logout(g) BY <1>0, <1>9 DEF Logout
<1>10. CASE CheckCurrent(g) BY <1>0, <1>10 DEF CheckCurrent
<1>11. CASE ResetSessions(g) BY <1>0, <1>11 DEF ResetSessions
<1>12. CASE ValidateKey(g) BY <1>0, <1>12 DEF ValidateKey
<1>13. CASE CheckCredit(g) BY <1>0, <1>13 DEF CheckCredit
<1>14. CASE ServeTurn(g) BY <1>0, <1>14 DEF ServeTurn
<1>15. CASE Publish(g) /\ UNCHANGED configVars
  BY <1>0, <1>15 DEF Publish, Legal
<1>16. CASE Visit(g) /\ UNCHANGED configVars
  <2>1. at' = [at EXCEPT ![g] = then[g]] \/ at' = [at EXCEPT ![g] = "publishing"]
    BY <1>16 DEF Visit
  <2> QED BY <1>0, <1>16, <2>1 DEF Visit, Legal
<1>17. CASE AddLog(g) /\ UNCHANGED configVars BY <1>0, <1>17 DEF AddLog
<1>18. CASE Subscribe(g) /\ UNCHANGED configVars BY <1>0, <1>18 DEF Subscribe
<1>19. CASE AnnounceAccounts(g) BY <1>0, <1>19 DEF AnnounceAccounts
<1> QED BY <1>1, <1>2, <1>3, <1>4, <1>5, <1>6, <1>7, <1>8, <1>9, <1>10, <1>11, <1>12, <1>13,
           <1>14, <1>15, <1>16, <1>17, <1>18, <1>19
        DEF Ways, LedgerStep

LEMMA ConfigHandler ==
  ASSUME ControlInv, ConfigInv, NEW g \in Handlers, Ways(g)
  PROVE  ConfigInv'
<1>0. Labelled /\ Legal(job[g].op, at[g], then[g]) /\ IsConfig(mem) /\ Steps(g)
  BY WaysAreLegal DEF ControlInv, ConfigInv
<1>1. ASSUME IsConfig(mem'), UNCHANGED <<disk, snapshot>>, at'[g] \notin Saving
      PROVE  ConfigInv'
  BY <1>0, <1>1 DEF Labelled, Steps, ConfigInv
<1>2. CASE Idles(g)
  BY <1>0, <1>2 DEF Idles, Labelled, Steps, ConfigInv, configVars
<1>3. CASE Stores(g)
  <2>1. at'[g] = "save"
    BY <1>0, <1>3 DEF Stores, Call, Goto, Labelled
  <2> QED BY <1>0, <1>1, <1>3, <2>1, StoresEffect DEF Saving
<1>4. CASE Marshal(g)
  BY <1>0, <1>4 DEF Marshal, Goto, Labelled, ConfigInv, Saving
<1>5. CASE Truncate(g)
  BY <1>0, <1>5 DEF Truncate, Goto, Labelled, ConfigInv, Saving, Readable
<1>6. CASE Write(g)
  <2>1. disk' \in {disk, snapshot[g], Torn} /\ mem' = mem
    BY <1>6 DEF Write
  <2>2. IsConfig(snapshot[g])
    BY <1>6 DEF Write, ConfigInv, Saving
  <2>3. Readable(disk') => IsConfig(disk')
    BY <2>1, <2>2 DEF ConfigInv, Readable
  <2>4. then[g] \notin Saving
    BY <1>0 DEF Legal, Returns, Saving
  <2> QED BY <1>0, <1>6, <2>1, <2>3, <2>4 DEF Write, Goto, Labelled, ConfigInv, Readable
<1>7. CASE PointerWrite(g)
  <2>1. at'[g] = "renewed" /\ UNCHANGED <<disk, snapshot>>
    BY <1>0, <1>7 DEF PointerWrite, Goto, Labelled
  <2> QED BY <1>0, <1>1, <1>7, <2>1, PointerEffect DEF Saving
<1>8. CASE Charge(g)
  <2>1. at'[g] = "publish"
    BY <1>0, <1>8 DEF Charge, Call, Goto, Labelled
  <2> QED BY <1>0, <1>1, <1>8, <2>1, ChargeEffect DEF Saving
<1>9. CASE KeyAdmin(g)
  <2>1. at'[g] \in {"done", "save"} /\ IsConfig(mem') /\ UNCHANGED <<disk, snapshot>>
    BY <1>0, <1>9, KeyAdminEffect DEF Labelled, configVars
  <2> QED BY <1>1, <2>1 DEF Saving
<1>10. CASE Amends(g)
  <2>1. at'[g] \notin Saving /\ IsConfig(mem') /\ UNCHANGED <<disk, snapshot>>
    BY <1>0, <1>10, AmendEffect DEF Amends, Call, Goto, Labelled, Saving
  <2> QED BY <1>1, <2>1
<1> QED BY <1>2, <1>3, <1>4, <1>5, <1>6, <1>7, <1>8, <1>9, <1>10, ConfigWays

\* What the program starts with after a crash is what the file held, but for the password.
LEMMA RestartEffect ==
  ASSUME ConfigInv, Restart
  PROVE  /\ Readable(disk) /\ IsConfig(mem') /\ disk' = mem'
         /\ mem'.keys = disk.keys /\ mem'.accounts = disk.accounts
         /\ mem'.version \in {disk.version, disk.version + 1}
         /\ at' = [g \in Handlers |-> IF at[g] = "arrived" THEN "arrived" ELSE "done"]
         /\ snapshot' = [g \in Handlers |-> NoSnapshot]
         /\ UNCHANGED <<stamp, acked, unsaved, straddled, job, then>>
<1>1. Readable(disk) /\ IsConfig(disk)
  BY DEF Restart, LoadsAgain, ConfigInv
<1>2. CASE mem' = disk
  BY <1>1, <1>2 DEF Restart, LoadsAgain
<1>3. CASE mem' = [disk EXCEPT !.password = Changeme, !.version = @ + 1]
  <2>1. mem' = [accounts |-> disk.accounts, keys |-> disk.keys, password |-> Changeme,
                models |-> disk.models, version |-> disk.version + 1]
    BY <1>1, <1>3 DEF IsConfig
  <2>2. disk.keys \in [Keys -> KeyStates] /\ disk.version + 1 \in Nat
    BY <1>1 DEF IsConfig
  <2>3. IsConfig(mem')
    BY <2>1, <2>2, ConfigFields
  <2> QED BY <1>1, <2>1, <2>3 DEF Restart, LoadsAgain
<1> QED BY <1>2, <1>3 DEF Restart, LoadsAgain

LEMMA ConfigNext ==
  ASSUME ControlInv, ConfigInv, [Next]_vars
  PROVE  ConfigInv'
<1>1. CASE \E g \in Handlers : HandlerStep(g)
  BY <1>1, HandlerWays, ConfigHandler
<1>2. CASE OutsideStep
  <2>1. OutsideWays
    BY <1>2, OutsideHasWays DEF ControlInv
  <2>2. UNCHANGED <<mem, disk, snapshot>>
    BY <2>1 DEF OutsideWays, configVars
  <2>3. \A g \in Handlers : at'[g] \in Saving => at[g] \in Saving
    BY <2>1 DEF OutsideWays, Strolls, ControlInv, Labelled, Saving
  <2> QED BY <2>2, <2>3 DEF ConfigInv, Readable
<1>3. CASE Restart
  BY <1>3, RestartEffect DEF ConfigInv, Saving
<1>4. CASE UNCHANGED vars
  BY <1>4 DEF vars, handlerVars, configVars, ConfigInv
<1> QED BY <1>1, <1>2, <1>3, <1>4 DEF Next, AtRest

LEMMA ConfigStart == Init => ConfigInv
BY ConfigAssumption DEF Init, ConfigInit, ConfigInv, Saving

\* Both hold always: what the proofs below start from.
LEMMA PanelAlways == Spec => [](ControlInv /\ ConfigInv)
<1>1. Init => ControlInv /\ ConfigInv
  BY ControlStart, ConfigStart
<1>2. ControlInv /\ ConfigInv /\ [Next]_vars => ControlInv' /\ ConfigInv'
  BY ControlNext, ConfigNext
<1> QED BY <1>1, <1>2, PTL DEF Spec
-------------------------------------------------------------------------------
\* What a handler's step may make of the file, and of what is on its way there.
LEMMA FileWays ==
  ASSUME ControlInv, ConfigInv, NEW g \in Handlers, Ways(g)
  PROVE  /\ disk' \in {disk, Empty, Torn} \/ (at[g] = "write" /\ disk' = snapshot[g])
         /\ \A h \in Handlers : at'[h] \in Saving =>
              \/ at[h] \in Saving /\ snapshot'[h] = snapshot[h]
              \/ snapshot'[h] = mem
<1>0. Labelled /\ Legal(job[g].op, at[g], then[g]) /\ IsConfig(mem) /\ Steps(g)
      /\ snapshot = [h \in Handlers |-> snapshot[h]]
  BY WaysAreLegal DEF ControlInv, ConfigInv
<1>1. CASE Idles(g)
  BY <1>0, <1>1 DEF Idles, Labelled, Steps, configVars
<1>2. CASE UNCHANGED <<disk, snapshot>> /\ at'[g] \notin Saving
  BY <1>0, <1>2 DEF Labelled, Steps
<1>3. CASE Stores(g)
  <2>1. at'[g] = "save"
    BY <1>0, <1>3 DEF Stores, Call, Goto, Labelled
  <2> QED BY <1>0, <1>2, <1>3, <2>1, StoresEffect DEF Saving
<1>4. CASE Marshal(g)
  BY <1>0, <1>4 DEF Marshal, Goto, Labelled, Saving
<1>5. CASE Truncate(g)
  BY <1>0, <1>5 DEF Truncate, Goto, Labelled, Saving
<1>6. CASE Write(g)
  <2>1. then[g] \notin Saving
    BY <1>0 DEF Legal, Returns, Saving
  <2> QED BY <1>0, <1>6, <2>1 DEF Write, Goto, Labelled
<1>7. CASE PointerWrite(g)
  <2>1. at'[g] = "renewed" /\ UNCHANGED <<disk, snapshot>>
    BY <1>0, <1>7 DEF PointerWrite, Goto, Labelled
  <2> QED BY <1>2, <2>1 DEF Saving
<1>8. CASE Charge(g)
  <2>1. at'[g] = "publish"
    BY <1>0, <1>8 DEF Charge, Call, Goto, Labelled
  <2> QED BY <1>0, <1>2, <1>8, <2>1, ChargeEffect DEF Saving
<1>9. CASE KeyAdmin(g)
  <2>1. at'[g] \in {"done", "save"} /\ UNCHANGED <<disk, snapshot>>
    BY <1>0, <1>9, KeyAdminEffect DEF Labelled, configVars
  <2> QED BY <1>2, <2>1 DEF Saving
<1>10. CASE Amends(g)
  <2>1. at'[g] \notin Saving /\ UNCHANGED <<disk, snapshot>>
    BY <1>0, <1>10 DEF Amends, SetInAccount, Call, Goto, Labelled, Saving
  <2> QED BY <1>2, <2>1
<1> QED BY <1>1, <1>3, <1>4, <1>5, <1>6, <1>7, <1>8, <1>9, <1>10, ConfigWays

-------------------------------------------------------------------------------
\* KeyOvershoot by key: the turns that use it, and those of them that are past the door.
TurnsOf(k) == {g \in Handlers : job[g].op = "turn" /\ job[g].id = k}
Spending(k) == {g \in TurnsOf(k) : at[g] \in {"serving", "charge"}}

Bound(k) == CreditLimit - 1 + MaxCost * Cardinality(TurnsOf(k))
Overshoot(k, keys, n) == keys[k].there => keys[k].credits + MaxCost * n <= Bound(k)

\* The file, and what is about to be written to it, hold keys within the bound too: a
\* restart takes them over.
KeysInv ==
  /\ \A k \in Keys : Overshoot(k, mem.keys, Cardinality(Spending(k)))
  /\ Readable(disk) => \A k \in Keys : Overshoot(k, disk.keys, 0)
  /\ \A g \in Handlers : at[g] \in Saving => \A k \in Keys : Overshoot(k, snapshot[g].keys, 0)

LEMMA KeysSafe == KeysInv => KeyOvershoot
<1>1. \A k \in Keys : Spending(k) = PastDoor \cap TurnsOf(k)
  BY DEF Spending, TurnsOf, PastDoor
<1> QED BY <1>1 DEF KeysInv, Overshoot, Bound, KeyOvershoot, TurnsOf

LEMMA MoreCostMore ==
  ASSUME NEW cost \in Nat, NEW m \in Nat, NEW n \in Nat, m <= n
  PROVE  cost * m <= cost * n
OBVIOUS

LEMMA TurnsAreFinite ==
  ASSUME IsFiniteSet(Handlers), NEW k
  PROVE  /\ IsFiniteSet(TurnsOf(k)) /\ Cardinality(TurnsOf(k)) \in Nat
         /\ IsFiniteSet(Spending(k)) /\ Cardinality(Spending(k)) \in Nat
         /\ Cardinality(Spending(k)) <= Cardinality(TurnsOf(k))
<1>1. TurnsOf(k) \subseteq Handlers /\ Spending(k) \subseteq TurnsOf(k)
  BY DEF TurnsOf, Spending
<1> QED BY <1>1, FS_Subset, FS_CardinalityType

LEMMA BoundKept ==
  ASSUME job' = job, NEW k
  PROVE  Bound(k)' = Bound(k)
BY DEF Bound, TurnsOf

\* A key below its limit is within the bound, however many of its turns are past the door.
LEMMA BelowLimit ==
  ASSUME IsFiniteSet(Handlers), NEW k, NEW n \in Nat, n <= Cardinality(TurnsOf(k))
  PROVE  MaxCost * n \in Nat /\ Bound(k) \in Int /\ CreditLimit - 1 + MaxCost * n <= Bound(k)
<1> DEFINE t == Cardinality(TurnsOf(k))
<1>1. t \in Nat
  BY TurnsAreFinite
<1>2. n <= t
  OBVIOUS
<1> HIDE DEF t
<1>3. MaxCost * n <= MaxCost * t
  BY <1>1, <1>2, MoreCostMore, LedgerLimits
<1>4. MaxCost * n \in Nat /\ MaxCost * t \in Nat
  BY <1>1, LedgerLimits
<1>5. Bound(k) = CreditLimit - 1 + MaxCost * t
  BY DEF Bound, t
<1> QED BY <1>3, <1>4, <1>5, LedgerLimits

\* Fewer turns past the door, and a key that is as it was or has nothing spent.
LEMMA OvershootKept ==
  ASSUME IsFiniteSet(Handlers), job' = job, NEW k \in Keys, NEW keys \in [Keys -> KeyStates],
         NEW after \in [Keys -> KeyStates], NEW m \in Nat, NEW n \in Nat, n <= m,
         m <= Cardinality(TurnsOf(k)), Overshoot(k, keys, m),
         after[k].there =>
           \/ after[k].credits = 0
           \/ keys[k].there /\ after[k].credits = keys[k].credits
  PROVE  Overshoot(k, after, n)
<1>1. keys[k].credits \in Nat /\ after[k].credits \in Nat
  BY DEF KeyStates
<1>2. MaxCost * n <= MaxCost * m
  BY MoreCostMore, LedgerLimits
<1>3. MaxCost * m \in Nat /\ Bound(k) \in Int /\ CreditLimit - 1 + MaxCost * m <= Bound(k)
  BY BelowLimit
<1>4. MaxCost * n \in Nat
  BY LedgerLimits
<1> QED BY <1>1, <1>2, <1>3, <1>4, LedgerLimits DEF Overshoot

\* A step that changes no key and lets no turn through the door.
Keyless(g) ==
  /\ mem'.keys = mem.keys
  /\ at'[g] \in {"serving", "charge"} => at[g] \in {"serving", "charge"}

LEMMA KeyWays ==
  ASSUME ControlInv, IsConfig(mem), NEW g \in Handlers, Ways(g)
  PROVE  Keyless(g) \/ CheckCredit(g) \/ Charge(g) \/ KeyAdmin(g)
<1>0. Labelled /\ Legal(job[g].op, at[g], then[g])
  BY DEF ControlInv
<1> USE DEF Labelled, Keyless, Doing, Goto, Call, configVars
<1>1. CASE Walks(g) BY <1>0, <1>1 DEF Walks, Watched
<1>2. CASE AsksSave(g) BY <1>0, <1>2 DEF AsksSave
<1>3. CASE Stores(g)
  <2>1. at'[g] = "save"
    BY <1>0, <1>3 DEF Stores
  <2> QED BY <1>3, <2>1, StoresEffect
<1>4. CASE AsksPublish(g) BY <1>0, <1>4 DEF AsksPublish
<1>5. CASE Marshal(g) BY <1>0, <1>5 DEF Marshal
<1>6. CASE Truncate(g) BY <1>0, <1>6 DEF Truncate
<1>7. CASE Write(g) BY <1>0, <1>7 DEF Write, Legal, Returns
<1>8. CASE PointerWrite(g)
  <2>1. at'[g] = "renewed"
    BY <1>0, <1>8 DEF PointerWrite
  <2> QED BY <1>8, <2>1, PointerEffect
<1>9. CASE LoginLocked(g) BY <1>0, <1>9 DEF LoginLocked
<1>10. CASE ComparePassword(g) BY <1>0, <1>10 DEF ComparePassword
<1>11. CASE RegisterLoginFail(g) BY <1>0, <1>11 DEF RegisterLoginFail
<1>12. CASE ClearLoginFails(g) BY <1>0, <1>12 DEF ClearLoginFails
<1>13. CASE Issue(g) BY <1>0, <1>13 DEF Issue
<1>14. CASE Logout(g) BY <1>0, <1>14 DEF Logout
<1>15. CASE CheckCurrent(g) BY <1>0, <1>15 DEF CheckCurrent
<1>16. CASE ResetSessions(g) BY <1>0, <1>16 DEF ResetSessions
<1>17. CASE ValidateKey(g) BY <1>0, <1>17 DEF ValidateKey
<1>18. CASE ServeTurn(g) BY <1>0, <1>18 DEF ServeTurn
<1>19. CASE Publish(g) /\ UNCHANGED configVars BY <1>0, <1>19 DEF Publish, Legal
<1>20. CASE Visit(g) /\ UNCHANGED configVars
  <2>1. at' = [at EXCEPT ![g] = then[g]] \/ at' = [at EXCEPT ![g] = "publishing"]
    BY <1>20 DEF Visit
  <2> QED BY <1>0, <1>20, <2>1 DEF Visit, Legal
<1>21. CASE AddLog(g) /\ UNCHANGED configVars BY <1>0, <1>21 DEF AddLog
<1>22. CASE Subscribe(g) /\ UNCHANGED configVars BY <1>0, <1>22 DEF Subscribe
<1>23. CASE AnnounceAccounts(g) BY <1>0, <1>23 DEF AnnounceAccounts
<1>24. CASE Amends(g)
  <2>1. at'[g] \in {"save", "resolving"}
    BY <1>0, <1>24 DEF Amends
  <2> QED BY <1>24, <2>1, AmendEffect DEF Amends
<1> QED BY <1>1, <1>2, <1>3, <1>4, <1>5, <1>6, <1>7, <1>8, <1>9, <1>10, <1>11, <1>12, <1>13,
           <1>14, <1>15, <1>16, <1>17, <1>18, <1>19, <1>20, <1>21, <1>22, <1>23, <1>24
        DEF Ways, LedgerStep

\* The door: CheckCredit lets a turn through while its key has credit; Charge takes one
\* turn's cost and the turn at the same time.
LEMMA KeysInMemory ==
  ASSUME IsFiniteSet(Handlers), ControlInv, ConfigInv, KeysInv, NEW g \in Handlers, Ways(g),
         ConfigInv', NEW k \in Keys
  PROVE  Overshoot(k, mem'.keys, Cardinality(Spending(k)'))
<1> DEFINE n == Cardinality(Spending(k))
           m == Cardinality(Spending(k)')
<1>0. /\ Labelled /\ Steps(g) /\ IsConfig(mem) /\ IsConfig(mem') /\ job' = job
      /\ mem.keys \in [Keys -> KeyStates] /\ mem'.keys \in [Keys -> KeyStates]
      /\ Overshoot(k, mem.keys, n)
  BY WaysAreLegal DEF ControlInv, ConfigInv, KeysInv, IsConfig, Steps
<1>1. /\ IsFiniteSet(Spending(k)) /\ n \in Nat /\ n <= Cardinality(TurnsOf(k))
      /\ IsFiniteSet(Spending(k)') /\ m \in Nat /\ m <= Cardinality(TurnsOf(k))
  <2>1. Spending(k)' \subseteq TurnsOf(k)
    BY <1>0 DEF TurnsOf, Spending
  <2> QED BY <2>1, TurnsAreFinite, FS_Subset, FS_CardinalityType
<1>2. ASSUME Spending(k)' \subseteq Spending(k),
             mem'.keys[k].there =>
               \/ mem'.keys[k].credits = 0
               \/ mem.keys[k].there /\ mem'.keys[k].credits = mem.keys[k].credits
      PROVE  Overshoot(k, mem'.keys, m)
  <2>1. m <= n
    BY <1>1, <1>2, FS_Subset
  <2> HIDE DEF n, m
  <2> QED BY <1>0, <1>1, <1>2, <2>1, OvershootKept
<1>3. CASE Keyless(g)
  <2>1. Spending(k)' \subseteq Spending(k)
    BY <1>0, <1>3 DEF Keyless, Spending, TurnsOf, Steps, Labelled
  <2> QED BY <1>2, <1>3, <2>1 DEF Keyless
<1>4. CASE CheckCredit(g)
  <2>1. mem' = mem
    BY <1>4 DEF CheckCredit, configVars
  <2>2. CASE ~OverCredit(mem.keys[KeyOf(g)]) /\ KeyOf(g) = k
    <3>1. mem.keys[k].there => mem.keys[k].credits <= CreditLimit - 1
      BY <1>0, <2>2, LedgerLimits DEF OverCredit, KeyStates
    <3>2. MaxCost * m \in Nat /\ Bound(k) \in Int /\ CreditLimit - 1 + MaxCost * m <= Bound(k)
      <4> HIDE DEF m
      <4> QED BY <1>1, BelowLimit
    <3>3. mem.keys[k].credits \in Nat
      BY <1>0 DEF KeyStates
    <3> QED BY <2>1, <3>1, <3>2, <3>3, LedgerLimits DEF Overshoot
  <2>3. CASE OverCredit(mem.keys[KeyOf(g)]) \/ KeyOf(g) # k
    <3>1. Spending(k)' \subseteq Spending(k)
      BY <1>0, <1>4, <2>3 DEF CheckCredit, Goto, KeyOf, Spending, TurnsOf, Labelled
    <3> QED BY <1>2, <2>1, <3>1
  <2> QED BY <2>2, <2>3
<1>5. CASE Charge(g)
  <2>1. Spending(k)' = Spending(k) \ {g} /\ job[g].op = "turn" /\ at[g] = "charge"
    BY <1>0, <1>5 DEF Charge, Call, Goto, Doing, Spending, TurnsOf, Labelled
  <2>2. PICK cost \in 0..MaxCost :
          mem'.keys = IF mem.keys[KeyOf(g)].there
                      THEN [mem.keys EXCEPT ![KeyOf(g)].credits = @ + cost] ELSE mem.keys
    BY <1>0, <1>5, ChargeEffect
  <2>3. CASE KeyOf(g) # k \/ ~mem.keys[KeyOf(g)].there
    <3>1. mem'.keys[k] = mem.keys[k]
      BY <1>0, <2>2, <2>3
    <3> QED BY <1>2, <2>1, <3>1
  <2>4. CASE KeyOf(g) = k /\ mem.keys[k].there
    <3>1. g \in Spending(k)
      BY <2>1, <2>4 DEF Spending, TurnsOf, KeyOf
    <3>2. m = n - 1
      BY <1>1, <2>1, <3>1, FS_RemoveElement
    <3>3. mem'.keys[k].credits = mem.keys[k].credits + cost /\ mem.keys[k].credits \in Nat
      BY <1>0, <2>2, <2>4 DEF KeyStates
    <3> HIDE DEF n, m
    <3>4. MaxCost * m = MaxCost * n - MaxCost /\ MaxCost * n \in Nat
      BY <1>1, <3>2, LedgerLimits
    <3>5. Bound(k) \in Int
      BY <1>1, BelowLimit
    <3>6. mem.keys[k].credits + MaxCost * n <= Bound(k)
      BY <1>0, <2>4 DEF Overshoot
    <3>7. mem'.keys[k].credits + MaxCost * m <= Bound(k)
      <4> DEFINE before == MaxCost * n
      <4>1. before \in Nat /\ MaxCost * m = before - MaxCost
        BY <3>4
      <4>2. mem.keys[k].credits + before <= Bound(k)
        BY <3>6
      <4> HIDE DEF before
      <4> QED BY <4>1, <4>2, <3>3, <3>5, LedgerLimits
    <3> QED BY <3>7 DEF Overshoot, m
  <2> QED BY <2>3, <2>4
<1>6. CASE KeyAdmin(g)
  <2>1. Spending(k)' \subseteq Spending(k)
    BY <1>0, <1>6, KeyAdminEffect DEF Spending, TurnsOf, Labelled
  <2>2. mem'.keys[k].there => \/ mem'.keys[k].credits = 0
                              \/ mem.keys[k].there /\ mem'.keys[k].credits = mem.keys[k].credits
    <3>1. mem' = mem \/ KeysChanged(g)
      BY <1>0, <1>6, KeyAdminEffect DEF configVars
    <3> QED BY <1>0, <3>1 DEF KeysChanged, KeyStates
  <2> QED BY <1>2, <2>1, <2>2
<1> QED BY <1>0, <1>3, <1>4, <1>5, <1>6, KeyWays

LEMMA KeysHandler ==
  ASSUME IsFiniteSet(Handlers), ControlInv, ConfigInv, KeysInv, NEW g \in Handlers, Ways(g),
         ConfigInv'
  PROVE  KeysInv'
<1> DEFINE Within(keys) == \A k \in Keys : Overshoot(k, keys, 0)
<1>1. job' = job
  BY WaysAreLegal DEF Steps
<1>2. \A k \in Keys : Bound(k)' = Bound(k)
  BY <1>1, BoundKept
<1>3. \A k \in Keys : Overshoot(k, mem.keys, Cardinality(Spending(k)))'
  BY <1>2, KeysInMemory DEF Overshoot
<1>4. Within(mem.keys)
  BY TurnsAreFinite, OvershootKept, <1>1 DEF KeysInv, ConfigInv, IsConfig
<1>5. Readable(disk') => Within(disk'.keys)
  BY FileWays DEF KeysInv, Readable, Saving
<1>6. \A h \in Handlers : at'[h] \in Saving => Within(snapshot'[h].keys)
  BY <1>4, FileWays DEF KeysInv
<1> QED BY <1>2, <1>3, <1>5, <1>6 DEF KeysInv, Overshoot, Readable

LEMMA KeysOutside ==
  ASSUME ControlInv, KeysInv, OutsideStep
  PROVE  KeysInv'
<1>1. OutsideWays
  BY OutsideHasWays DEF ControlInv
<1>2. UNCHANGED <<mem, disk, snapshot, job>>
  BY <1>1 DEF OutsideWays, configVars
<1>3. \A g \in Handlers : at'[g] = at[g] \/ {at[g], at'[g]} \subseteq {"watching", "listed", "arrived", "done"}
  BY <1>1 DEF OutsideWays, Strolls, ControlInv, Labelled
<1>4. \A k \in Keys : Bound(k)' = Bound(k)
  BY <1>2, BoundKept
<1>5. \A k \in Keys : Spending(k)' = Spending(k)
  BY <1>2, <1>3 DEF Spending, TurnsOf
<1>6. \A g \in Handlers : at'[g] \in Saving => at[g] \in Saving
  BY <1>3 DEF Saving
<1> QED BY <1>2, <1>4, <1>5, <1>6 DEF KeysInv, Overshoot, Readable

\* A restart forgets the turns under way and takes over the keys of the file.
LEMMA KeysRestart ==
  ASSUME ConfigInv, KeysInv, Restart
  PROVE  KeysInv'
<1>1. /\ \A g \in Handlers : at'[g] \in {"arrived", "done"}
      /\ disk' = mem' /\ mem'.keys = disk.keys /\ job' = job /\ Readable(disk)
  BY RestartEffect
<1>2. \A k \in Keys : Bound(k)' = Bound(k)
  BY <1>1, BoundKept
<1>3. \A k \in Keys : Cardinality(Spending(k))' = 0
  BY <1>1, FS_EmptySet DEF Spending, TurnsOf
<1> QED BY <1>1, <1>2, <1>3 DEF KeysInv, Overshoot, Saving

\* Concurrent turns overdraw a key by at most what they can cost, whatever becomes of the
\* key meanwhile, and over restarts: if the first configuration has no key that is used up.
THEOREM KeysOverdrawnBounded ==
  ASSUME IsFiniteSet(Handlers),
         \A k \in Keys : FirstConfig.keys[k].there => FirstConfig.keys[k].credits < CreditLimit
  PROVE  Spec => []KeyOvershoot
<1>1. Init => KeysInv
  <2> SUFFICES ASSUME Init PROVE KeysInv
    OBVIOUS
  <2>1. mem = FirstConfig /\ disk = FirstConfig /\ \A g \in Handlers : at[g] \in {"arrived", "done"}
    BY DEF Init, ConfigInit
  <2>2. \A k \in Keys : Cardinality(Spending(k)) = 0
    BY <2>1, FS_EmptySet DEF Spending, TurnsOf
  <2>3. \A k \in Keys : Overshoot(k, FirstConfig.keys, 0)
    <3> SUFFICES ASSUME NEW k \in Keys PROVE Overshoot(k, FirstConfig.keys, 0)
      OBVIOUS
    <3>0. 0 \in Nat /\ 0 <= Cardinality(TurnsOf(k))
      BY TurnsAreFinite
    <3>1. MaxCost * 0 \in Nat /\ Bound(k) \in Int /\ CreditLimit - 1 + MaxCost * 0 <= Bound(k)
      BY <3>0, BelowLimit
    <3>2. FirstConfig.keys[k].credits \in Nat
      BY ConfigAssumption DEF IsConfig, KeyStates
    <3> QED BY <3>1, <3>2, LedgerLimits DEF Overshoot
  <2> QED BY <2>1, <2>2, <2>3 DEF KeysInv, Saving
<1>2. ControlInv /\ ConfigInv /\ KeysInv /\ (ControlInv /\ ConfigInv)' /\ [Next]_vars => KeysInv'
  <2> SUFFICES ASSUME ControlInv, ConfigInv, KeysInv, ConfigInv', [Next]_vars PROVE KeysInv'
    OBVIOUS
  <2>1. CASE \E g \in Handlers : HandlerStep(g) BY <2>1, HandlerWays, KeysHandler
  <2>2. CASE OutsideStep BY <2>2, KeysOutside
  <2>3. CASE Restart BY <2>3, KeysRestart
  <2>4. CASE UNCHANGED vars
    <3>1. \A k \in Keys : Bound(k)' = Bound(k) /\ Spending(k)' = Spending(k)
      BY <2>4, BoundKept DEF vars, handlerVars, Spending, TurnsOf
    <3> QED BY <2>4, <3>1 DEF vars, handlerVars, configVars, KeysInv, Overshoot, Readable
  <2> QED BY <2>1, <2>2, <2>3, <2>4 DEF Next, AtRest
<1> QED BY <1>1, <1>2, KeysSafe, PanelAlways, PTL DEF Spec
-------------------------------------------------------------------------------
\* A step that touches no session, throttle or password.
Sessionless(g) ==
  /\ UNCHANGED sessionVars /\ mem'.password = mem.password
  /\ at'[g] = at[g] \/ at'[g] \notin {"compare", "failed", "clear", "issue"}
  /\ at'[g] = at[g] \/ at[g] \notin {"compare", "failed", "clear", "issue", "replace", "reset"}
  /\ job[g].op = "set_password" /\ at[g] \in {"save", "truncate", "write"} =>
       at'[g] \in {"save", "truncate", "write", "reset"}

LEMMA SessionlessWays ==
  ASSUME ControlInv, IsConfig(mem), NEW g \in Handlers, Ways(g)
  PROVE  \/ Sessionless(g) \/ (Stores(g) /\ job[g].op = "set_password")
         \/ LoginLocked(g) \/ ComparePassword(g) \/ RegisterLoginFail(g) \/ ClearLoginFails(g)
         \/ Issue(g) \/ Logout(g) \/ ResetSessions(g)
<1>0. Labelled /\ Legal(job[g].op, at[g], then[g])
  BY DEF ControlInv
<1> USE DEF Labelled, Sessionless, Doing, Goto, Call, configVars, sessionVars
<1>1. CASE Walks(g) BY <1>0, <1>1 DEF Walks, Watched
<1>2. CASE AsksSave(g) BY <1>0, <1>2 DEF AsksSave, Watched
<1>3. CASE Stores(g) /\ job[g].op # "set_password"
  <2>1. at'[g] = "save" /\ at[g] \notin Watched \ {"replace"}
    BY <1>0, <1>3 DEF Stores
  <2>2. mem'.password = mem.password /\ UNCHANGED sessionVars
    BY <1>3, StoresEffect DEF Stores
  <2>3. at[g] # "replace"
    BY <1>0, <1>3 DEF Legal
  <2> QED BY <1>3, <2>1, <2>2, <2>3 DEF Watched
<1>4. CASE AsksPublish(g) BY <1>0, <1>4 DEF AsksPublish, Watched
<1>5. CASE Marshal(g) /\ UNCHANGED sessionVars BY <1>0, <1>5 DEF Marshal
<1>6. CASE Truncate(g) /\ UNCHANGED sessionVars BY <1>0, <1>6 DEF Truncate
<1>7. CASE Write(g) /\ UNCHANGED sessionVars BY <1>0, <1>7 DEF Write, Legal, Returns
<1>8. CASE PointerWrite(g) /\ UNCHANGED sessionVars
  <2>1. at'[g] = "renewed" /\ at[g] = "arrived"
    BY <1>0, <1>8 DEF PointerWrite
  <2> QED BY <1>8, <2>1, PointerEffect
<1>9. CASE CheckCurrent(g) BY <1>0, <1>9 DEF CheckCurrent
<1>10. CASE ValidateKey(g) /\ UNCHANGED sessionVars BY <1>0, <1>10 DEF ValidateKey
<1>11. CASE CheckCredit(g) /\ UNCHANGED sessionVars BY <1>0, <1>11 DEF CheckCredit
<1>12. CASE ServeTurn(g) /\ UNCHANGED sessionVars BY <1>0, <1>12 DEF ServeTurn
<1>13. CASE Charge(g) /\ UNCHANGED sessionVars
  <2>1. at'[g] = "publish" /\ at[g] = "charge"
    BY <1>0, <1>13 DEF Charge
  <2> QED BY <1>13, <2>1, ChargeEffect
<1>14. CASE KeyAdmin(g) /\ UNCHANGED sessionVars
  <2>1. at'[g] \in {"save", "done"} /\ at[g] = "routed"
    BY <1>0, <1>14 DEF KeyAdmin
  <2> QED BY <1>14, <2>1, KeyAdminEffect
<1>15. CASE Publish(g) /\ UNCHANGED <<configVars, sessionVars>>
  BY <1>0, <1>15 DEF Publish, Legal
<1>16. CASE Visit(g) /\ UNCHANGED <<configVars, sessionVars>>
  <2>1. at' = [at EXCEPT ![g] = then[g]] \/ at' = [at EXCEPT ![g] = "publishing"]
    BY <1>16 DEF Visit
  <2> QED BY <1>0, <1>16, <2>1 DEF Visit, Legal
<1>17. CASE AddLog(g) /\ UNCHANGED <<configVars, sessionVars>> BY <1>0, <1>17 DEF AddLog
<1>18. CASE Subscribe(g) /\ UNCHANGED <<configVars, sessionVars>>
  BY <1>0, <1>18 DEF Subscribe
<1>19. CASE AnnounceAccounts(g) BY <1>0, <1>19 DEF AnnounceAccounts
<1>20. CASE Amends(g)
  <2>1. at'[g] \in {"save", "resolving"} /\ at[g] \in {"refreshed", "resolving", "fetched"}
    BY <1>0, <1>20 DEF Amends
  <2> QED BY <1>20, <2>1, AmendEffect DEF Amends
<1> QED BY <1>1, <1>2, <1>3, <1>4, <1>5, <1>6, <1>7, <1>8, <1>9, <1>10, <1>11, <1>12, <1>13,
           <1>14, <1>15, <1>16, <1>17, <1>18, <1>19, <1>20
        DEF Ways, LedgerStep

-------------------------------------------------------------------------------
\* A change of the password is on its way from the store to the end of the sessions.
Rotating == \E g \in Handlers : /\ job[g].op = "set_password"
                                /\ at[g] \in {"save", "truncate", "write", "reset"}
Current(c) == under[c] = mem.password \/ c \in racers \/ Rotating

\* RotationEndsSessions, with the cookies about to be given.
CookieInv ==
  /\ under = [c \in Cookies |-> under[c]]
  /\ sessions \subseteq Cookies
  /\ \A c \in sessions : Current(c)
  /\ \A g \in Handlers : at[g] \in {"clear", "issue"} => Current(g)

LEMMA CookieSafe == CookieInv => RotationEndsSessions
BY DEF CookieInv, Current, Rotating, RotationEndsSessions

LEMMA CookieHandler ==
  ASSUME ControlInv, IsConfig(mem), CookieInv, NEW g \in Handlers, Ways(g)
  PROVE  CookieInv'
<1>0. Labelled /\ Steps(g) /\ Legal(job[g].op, at[g], then[g])
  BY WaysAreLegal DEF ControlInv
<1>1. CASE Sessionless(g)
  <2>1. Rotating => Rotating'
    BY <1>0, <1>1 DEF Rotating, Sessionless, Steps, Labelled
  <2>2. \A c : Current(c) => Current(c)'
    BY <1>1, <2>1 DEF Current, Sessionless, sessionVars
  <2>3. \A h \in Handlers : at'[h] \in {"clear", "issue"} => at[h] \in {"clear", "issue"}
    BY <1>0, <1>1 DEF Sessionless, Steps, Labelled
  <2> QED BY <1>1, <2>2, <2>3 DEF CookieInv, Sessionless, sessionVars
<1>2. CASE Stores(g) /\ job[g].op = "set_password"
  <2>1. at' = [at EXCEPT ![g] = "save"] /\ UNCHANGED sessionVars
    BY <1>2 DEF Stores, Call, Goto
  <2>2. Rotating'
    BY <1>0, <1>2, <2>1 DEF Rotating, Steps, Labelled
  <2> QED BY <2>1, <2>2 DEF CookieInv, Current, sessionVars
<1>3. ASSUME mem' = mem, UNCHANGED <<under, racers>>, sessions' \subseteq sessions \cup {g},
             job[g].op # "set_password" \/ at[g] \notin {"save", "truncate", "write", "reset"},
             \/ at'[g] \notin {"clear", "issue"} /\ sessions' \subseteq sessions
             \/ at[g] \in {"clear", "issue"}
      PROVE  CookieInv'
  <2>1. Rotating => Rotating'
    BY <1>0, <1>3 DEF Rotating, Steps, Labelled
  <2>2. \A c : Current(c) => Current(c)'
    BY <1>3, <2>1 DEF Current
  <2>3. \A h \in Handlers : at'[h] \in {"clear", "issue"} => Current(h)
    BY <1>0, <1>3 DEF CookieInv, Steps, Labelled
  <2>4. \A c \in sessions' : Current(c)
    BY <1>3 DEF CookieInv
  <2> QED BY <1>3, <2>2, <2>3, <2>4 DEF CookieInv, Cookies
<1>4. CASE LoginLocked(g)
  BY <1>0, <1>3, <1>4 DEF LoginLocked, Doing, Goto, Labelled, configVars, sessionVars
<1>5. CASE ComparePassword(g)
  <2>1. under' = [under EXCEPT ![g] = mem.password] /\ UNCHANGED <<mem, sessions, racers>>
        /\ job[g].op = "login"
    BY <1>5 DEF ComparePassword, Doing, configVars
  <2>2. Rotating => Rotating'
    BY <1>0, <2>1 DEF Rotating, Steps, Labelled
  <2>3. \A c \in Cookies : Current(c) => Current(c)'
    BY <2>1, <2>2 DEF Current, CookieInv
  <2>4. Current(g)'
    BY <2>1 DEF Current, CookieInv, Cookies
  <2>5. \A h \in Handlers : h # g => at'[h] = at[h]
    BY <1>0 DEF Steps, Labelled
  <2> QED BY <2>1, <2>3, <2>4, <2>5 DEF CookieInv, Cookies
<1>6. CASE RegisterLoginFail(g)
  BY <1>0, <1>3, <1>6 DEF RegisterLoginFail, Doing, Goto, Labelled, configVars
<1>7. CASE ClearLoginFails(g)
  BY <1>0, <1>3, <1>7 DEF ClearLoginFails, Doing, Goto, Labelled, configVars
<1>8. CASE Issue(g)
  BY <1>0, <1>3, <1>8 DEF Issue, Goto, Labelled, configVars
<1>9. CASE Logout(g)
  BY <1>0, <1>3, <1>9 DEF Logout, Doing, Goto, Labelled, configVars
<1>10. CASE ResetSessions(g)
  <2>1. /\ sessions' = {} /\ racers' = {h \in Handlers : InProgress(h)}
        /\ under' = [under EXCEPT ![g] = job[g].id.new] /\ at[g] = "reset"
    BY <1>10 DEF ResetSessions, Doing
  <2>2. \A h \in Handlers : at'[h] \in {"clear", "issue"} => h \in racers'
    BY <1>0, <2>1 DEF Steps, Labelled, InProgress
  <2> QED BY <2>1, <2>2 DEF CookieInv, Current
<1> QED BY <1>1, <1>2, <1>4, <1>5, <1>6, <1>7, <1>8, <1>9, <1>10, SessionlessWays

LEMMA CookieOutside ==
  ASSUME ControlInv, CookieInv, OutsideStep
  PROVE  CookieInv'
<1>1. OutsideWays
  BY OutsideHasWays DEF ControlInv
<1>2. UNCHANGED <<mem, job, sessions, under, racers>>
  BY <1>1 DEF OutsideWays, configVars, sessionVars, ThrottlePasses
<1>3. \A g \in Handlers : \/ at'[g] = at[g]
                          \/ {at[g], at'[g]} \subseteq {"watching", "listed", "arrived", "done"}
  BY <1>1 DEF OutsideWays, Strolls, ControlInv, Labelled
<1>4. Rotating => Rotating'
  BY <1>2, <1>3 DEF Rotating
<1> QED BY <1>2, <1>3, <1>4 DEF CookieInv, Current

\* A password change ends what was open under the old one, for any number of handlers,
\* changes and logins: whoever still has a cookie of an older password was under way when
\* the sessions were ended, or they are about to be.
THEOREM RotationHolds == Spec => []RotationEndsSessions
<1>1. Init => CookieInv
  BY DEF Init, SessionInit, ConfigInit, CookieInv, Current, Cookies
<1>2. ControlInv /\ ConfigInv /\ CookieInv /\ [Next]_vars => CookieInv'
  <2> SUFFICES ASSUME ControlInv, ConfigInv, CookieInv, [Next]_vars PROVE CookieInv'
    OBVIOUS
  <2>1. CASE \E g \in Handlers : HandlerStep(g)
    BY <2>1, HandlerWays, CookieHandler DEF ConfigInv
  <2>2. CASE OutsideStep BY <2>2, CookieOutside
  <2>3. CASE Restart
    <3>1. sessions' = {} /\ under' = under /\ \A g \in Handlers : at'[g] \in {"arrived", "done"}
      BY <2>3, RestartEffect DEF Restart, ForgetSessions
    <3> QED BY <3>1 DEF CookieInv
  <2>4. CASE UNCHANGED vars
    BY <2>4 DEF vars, handlerVars, configVars, sessionVars, CookieInv, Current, Rotating
  <2> QED BY <2>1, <2>2, <2>3, <2>4 DEF Next, AtRest
<1> QED BY <1>1, <1>2, CookieSafe, PanelAlways, PTL DEF Spec
-------------------------------------------------------------------------------
\* The logins whose guess is on its way to the throttle.
Guessing == {g \in Handlers : at[g] \in {"compare", "failed"}}

\* Before it locks, the throttle has counted every guess; once it has, no login joins those
\* that are comparing, and each guess takes one of them away.
GuessInv ==
  /\ fails \in 0..MaxLoginFails - 1 /\ guesses \in Nat
  /\ ~locked => guesses = fails
  /\ locked => guesses + Cardinality(Guessing) <= MaxLoginFails + Cardinality(Handlers) - 1

LEMMA GuessingFinite ==
  ASSUME IsFiniteSet(Handlers)
  PROVE  /\ IsFiniteSet(Guessing) /\ Cardinality(Guessing) \in Nat
         /\ IsFiniteSet(Guessing') /\ Cardinality(Guessing') \in Nat
         /\ Cardinality(Handlers) \in Nat /\ Cardinality(Guessing) <= Cardinality(Handlers)
<1>1. Guessing \subseteq Handlers /\ Guessing' \subseteq Handlers
  BY DEF Guessing
<1> QED BY <1>1, FS_Subset, FS_CardinalityType

LEMMA GuessSafe ==
  ASSUME IsFiniteSet(Handlers), GuessInv
  PROVE  GuessesBounded
BY GuessingFinite, SessionsLimits DEF GuessInv, GuessesBounded

\* Steps that do not touch the throttle and take no login to the comparison.
LEMMA GuessKept ==
  ASSUME IsFiniteSet(Handlers), GuessInv, UNCHANGED <<fails, locked, guesses>>,
         Guessing' \subseteq Guessing \/ ~locked
  PROVE  GuessInv'
<1>1. Guessing' \subseteq Guessing => Cardinality(Guessing') <= Cardinality(Guessing)
  BY GuessingFinite, FS_Subset
<1> QED BY <1>1, GuessingFinite, SessionsLimits DEF GuessInv

LEMMA GuessHandler ==
  ASSUME IsFiniteSet(Handlers), ControlInv, IsConfig(mem), GuessInv, NEW g \in Handlers, Ways(g)
  PROVE  GuessInv'
<1>0. Labelled /\ Steps(g)
  BY WaysAreLegal DEF ControlInv
<1>1. ASSUME UNCHANGED <<fails, locked, guesses>>,
             at'[g] \notin {"compare", "failed"} \/ at[g] \in {"compare", "failed"}
      PROVE  GuessInv'
  <2>1. Guessing' \subseteq Guessing
    BY <1>0, <1>1 DEF Guessing, Steps, Labelled
  <2> QED BY <1>1, <2>1, GuessKept
<1>2. CASE Sessionless(g)
  BY <1>1, <1>2 DEF Sessionless, sessionVars
<1>3. CASE Stores(g)
  BY <1>0, <1>1, <1>3 DEF Stores, Call, Goto, Labelled, sessionVars
<1>4. CASE LoginLocked(g)
  <2>1. CASE locked
    BY <1>0, <1>1, <1>4, <2>1 DEF LoginLocked, Goto, Labelled, sessionVars
  <2>2. CASE ~locked
    BY <1>4, <2>2, GuessKept DEF LoginLocked, sessionVars
  <2> QED BY <2>1, <2>2
<1>5. CASE ComparePassword(g)
  BY <1>1, <1>5 DEF ComparePassword, Doing
<1>6. CASE RegisterLoginFail(g)
  <2>1. g \in Guessing /\ Guessing' = Guessing \ {g}
    BY <1>0, <1>6 DEF RegisterLoginFail, Doing, Goto, Labelled, Guessing
  <2>2. Cardinality(Guessing') = Cardinality(Guessing) - 1
    BY <2>1, GuessingFinite, FS_RemoveElement
  <2>3. /\ fails' = IF fails + 1 >= MaxLoginFails THEN 0 ELSE fails + 1
        /\ locked' <=> (locked \/ fails + 1 >= MaxLoginFails)
        /\ guesses' = guesses + 1
    BY <1>6, Zenon DEF RegisterLoginFail
  <2> DEFINE n == Cardinality(Guessing)
             h == Cardinality(Handlers)
  <2>4. n \in Nat /\ h \in Nat /\ n <= h /\ Cardinality(Guessing)' = n - 1
    BY <2>2, GuessingFinite
  <2>5. locked => guesses + n <= MaxLoginFails + h - 1
    BY DEF GuessInv
  <2> HIDE DEF n, h
  <2>6. fails' \in 0..MaxLoginFails - 1 /\ guesses' \in Nat
        /\ (~locked' => guesses' = fails')
    <3>1. fails \in Int /\ fails >= 0 /\ fails <= MaxLoginFails - 1 /\ guesses \in Nat
      BY SessionsLimits DEF GuessInv
    <3>2. CASE fails + 1 >= MaxLoginFails
      <4>1. locked' /\ fails' = 0 /\ guesses' \in Nat
        BY <2>3, <3>1, <3>2
      <4> QED BY <4>1, SessionsLimits
    <3>3. CASE ~(fails + 1 >= MaxLoginFails)
      <4>1. (locked' <=> locked) /\ fails' = fails + 1 /\ guesses' = guesses + 1
        BY <2>3, <3>3
      <4>2. fails + 1 <= MaxLoginFails - 1
        BY <3>1, <3>3, SessionsLimits
      <4>3. ~locked' => guesses' = fails'
        BY <4>1 DEF GuessInv
      <4> QED BY <3>1, <4>1, <4>2, <4>3, SessionsLimits
    <3> QED BY <3>2, <3>3
  <2>7. locked' => guesses' + (n - 1) <= MaxLoginFails + h - 1
    <3>1. CASE locked
      BY <2>3, <2>4, <2>5, <3>1, SessionsLimits DEF GuessInv
    <3>2. CASE ~locked
      BY <2>3, <2>4, <3>2, SessionsLimits DEF GuessInv
    <3> QED BY <3>1, <3>2 DEF GuessInv
  <2> QED BY <2>4, <2>6, <2>7 DEF GuessInv, h
<1>7. CASE ClearLoginFails(g)
  BY <1>7, SessionsLimits DEF ClearLoginFails, GuessInv
<1>8. CASE Issue(g)
  BY <1>0, <1>1, <1>8 DEF Issue, Goto, Labelled
<1>9. CASE Logout(g)
  BY <1>0, <1>1, <1>9 DEF Logout, Goto, Labelled
<1>10. CASE ResetSessions(g)
  BY <1>0, <1>1, <1>10 DEF ResetSessions, Goto, Labelled
<1> QED BY <1>2, <1>3, <1>4, <1>5, <1>6, <1>7, <1>8, <1>9, <1>10, SessionlessWays

LEMMA GuessOutside ==
  ASSUME IsFiniteSet(Handlers), ControlInv, GuessInv, OutsideStep
  PROVE  GuessInv'
<1>1. OutsideWays
  BY OutsideHasWays DEF ControlInv
<1>2. CASE ThrottlePasses
  BY <1>2, SessionsLimits DEF ThrottlePasses, GuessInv
<1>3. CASE UNCHANGED sessionVars
  <2>1. Guessing' \subseteq Guessing
    BY <1>1 DEF OutsideWays, Strolls, ControlInv, Labelled, Guessing
  <2> QED BY <1>3, <2>1, GuessKept DEF sessionVars
<1> QED BY <1>1, <1>2, <1>3 DEF OutsideWays

\* From one address, at most MaxLoginFails wrong passwords are compared before the throttle
\* locks and one more for each other handler, for any number of handlers and any MaxLoginFails.
THEOREM LoginThrottled ==
  ASSUME IsFiniteSet(Handlers)
  PROVE  Spec => []GuessesBounded
<1>1. Init => GuessInv
  BY SessionsLimits DEF Init, SessionInit, GuessInv
<1>2. ControlInv /\ ConfigInv /\ GuessInv /\ [Next]_vars => GuessInv'
  <2> SUFFICES ASSUME ControlInv, ConfigInv, GuessInv, [Next]_vars PROVE GuessInv'
    OBVIOUS
  <2>1. CASE \E g \in Handlers : HandlerStep(g)
    BY <2>1, HandlerWays, GuessHandler DEF ConfigInv
  <2>2. CASE OutsideStep BY <2>2, GuessOutside
  <2>3. CASE Restart
    BY <2>3, SessionsLimits DEF Restart, ForgetSessions, GuessInv
  <2>4. CASE UNCHANGED vars
    BY <2>4 DEF vars, handlerVars, sessionVars, GuessInv, Guessing
  <2> QED BY <2>1, <2>2, <2>3, <2>4 DEF Next, AtRest
<1>3. GuessInv => GuessesBounded
  BY GuessSafe
<1> QED BY <1>1, <1>2, <1>3, PanelAlways, PTL DEF Spec
-------------------------------------------------------------------------------
\* A step that leaves the account list, and takes nobody off the way to its publication.
Listless(g) ==
  /\ FeedKept(g) /\ mem'.accounts = mem.accounts
  /\ job[g].op \in ListOps =>
       \/ at'[g] = at[g]
       \/ at[g] \notin {"save", "truncate", "write", "announce", "publish", "publishing"}
       \/ /\ at[g] \in {"save", "truncate", "write"}
          /\ at'[g] \in {"truncate", "write", "announce"}

LEMMA ListlessWays ==
  ASSUME ControlInv, IsConfig(mem), NEW g \in Handlers, Ways(g)
  PROVE  \/ Listless(g)
         \/ Stores(g) /\ job[g].op \in ListOps
         \/ (Publish(g) \/ Visit(g) \/ AddLog(g) \/ Subscribe(g)) /\ UNCHANGED configVars
         \/ AnnounceAccounts(g)
<1>0. Labelled /\ Legal(job[g].op, at[g], then[g])
  BY DEF ControlInv
<1> USE DEF Labelled, Listless, FeedKept, Doing, Goto, Call, configVars, feedVars
<1>1. CASE Walks(g) BY <1>0, <1>1 DEF Walks, Watched
<1>2. CASE AsksSave(g) BY <1>0, <1>2 DEF AsksSave, Watched
<1>3. CASE Stores(g) /\ job[g].op \notin ListOps
  <2>1. mem'.accounts = mem.accounts
    BY <1>3, StoresEffect
  <2> QED BY <1>3, <2>1 DEF Stores
<1>4. CASE AsksPublish(g) BY <1>0, <1>4 DEF AsksPublish, Watched
<1>5. CASE Marshal(g) /\ UNCHANGED feedVars BY <1>0, <1>5 DEF Marshal
<1>6. CASE Truncate(g) /\ UNCHANGED feedVars BY <1>0, <1>6 DEF Truncate
<1>7. CASE Write(g) /\ UNCHANGED feedVars BY <1>0, <1>7 DEF Write, Legal
<1>8. CASE PointerWrite(g) /\ UNCHANGED feedVars
  <2>1. at[g] = "arrived"
    BY <1>8 DEF PointerWrite
  <2> QED BY <1>8, <2>1, PointerEffect
<1>9. CASE LoginLocked(g) /\ UNCHANGED feedVars BY <1>9 DEF LoginLocked
<1>10. CASE ComparePassword(g) /\ UNCHANGED feedVars BY <1>10 DEF ComparePassword
<1>11. CASE RegisterLoginFail(g) /\ UNCHANGED feedVars BY <1>11 DEF RegisterLoginFail
<1>12. CASE ClearLoginFails(g) /\ UNCHANGED feedVars BY <1>12 DEF ClearLoginFails
<1>13. CASE Issue(g) /\ UNCHANGED feedVars BY <1>13 DEF Issue
<1>14. CASE Logout(g) /\ UNCHANGED feedVars BY <1>14 DEF Logout
<1>15. CASE CheckCurrent(g) /\ UNCHANGED feedVars BY <1>15 DEF CheckCurrent
<1>16. CASE ResetSessions(g) /\ UNCHANGED feedVars BY <1>16 DEF ResetSessions
<1>17. CASE ValidateKey(g) BY <1>17 DEF ValidateKey
<1>18. CASE CheckCredit(g) BY <1>18 DEF CheckCredit
<1>19. CASE ServeTurn(g) BY <1>19 DEF ServeTurn
<1>20. CASE Charge(g)
  <2>1. job[g].op \notin ListOps /\ FeedKept(g)
    BY <1>20 DEF Charge, Announce, ListOps
  <2> QED BY <1>20, <2>1, ChargeEffect
<1>21. CASE KeyAdmin(g)
  <2>1. at[g] = "routed" /\ FeedKept(g)
    BY <1>21 DEF KeyAdmin
  <2> QED BY <1>21, <2>1, KeyAdminEffect
<1>22. CASE Amends(g)
  <2>1. job[g].op \notin ListOps /\ UNCHANGED feedVars /\ mem'.accounts = mem.accounts
    BY <1>22, AmendEffect DEF Amends, ListOps
  <2> QED BY <2>1
<1> QED BY <1>1, <1>2, <1>3, <1>4, <1>5, <1>6, <1>7, <1>8, <1>9, <1>10, <1>11, <1>12, <1>13,
           <1>14, <1>15, <1>16, <1>17, <1>18, <1>19, <1>20, <1>21, <1>22
        DEF Ways, LedgerStep

\* A handler on the way from a change of the list to telling w about the list as it is.
OnTheWay(g, w) ==
  /\ job[g].op \in ListOps
  /\ \/ at[g] \in {"save", "truncate", "write", "announce"}
     \/ at[g] = "publish" /\ event[g] = AccountList(mem.accounts)
     \/ at[g] = "publishing" /\ event[g] = AccountList(mem.accounts) /\ w \in toVisit[g]

Told(w) == mem.accounts \in offered[w] \/ \E g \in Handlers : OnTheWay(g, w)

\* Whatever list a panel has not been sent, somebody has yet to publish: the list of now,
\* since every change is followed by a look at the list.
ListInv ==
  /\ hub \subseteq Handlers
  /\ event = [g \in Handlers |-> event[g]]
  /\ toVisit = [g \in Handlers |-> toVisit[g]]
  /\ offered = [g \in Handlers |-> offered[g]]
  /\ \A w \in hub \ skipped : at[w] = "listed" => Told(w)

LEMMA ListSafe == ListInv => CurrentListWasSent
<1>1. \A g \in Handlers : \A w : OnTheWay(g, w) => ListUnderWay(g)
  BY DEF OnTheWay, ListUnderWay, ListOps
<1> QED BY <1>1 DEF ListInv, Told, CurrentListWasSent

LEMMA ListHandler ==
  ASSUME ControlInv, IsConfig(mem), ListInv, NEW g \in Handlers, Ways(g)
  PROVE  ListInv'
<1>0. Labelled /\ Steps(g) /\ Legal(job[g].op, at[g], then[g])
  BY WaysAreLegal DEF ControlInv
<1>s. /\ job' = job /\ \A h \in Handlers : h # g => at'[h] = at[h]
      /\ \A h \in Handlers : at'[h] = "listed" => at[h] = "listed"
  BY <1>0 DEF Steps, Labelled
<1>1. CASE Listless(g)
  <2>1. \A h \in Handlers : job[h].op \in ListOps => event'[h] = event[h]
    BY <1>1 DEF Listless, FeedKept, ListInv
  <2>2. \A h \in Handlers : \A w : OnTheWay(h, w) => OnTheWay(h, w)'
    BY <1>0, <1>s, <1>1, <2>1 DEF Listless, FeedKept, OnTheWay
  <2>3. \A w : Told(w) => Told(w)'
    BY <1>1, <2>2 DEF Told, Listless, FeedKept
  <2> QED BY <1>s, <1>1, <2>3 DEF Listless, FeedKept, ListInv
<1>2. CASE Stores(g) /\ job[g].op \in ListOps
  <2>1. at'[g] = "save" /\ UNCHANGED feedVars
    BY <1>0, <1>2 DEF Stores, Call, Goto, Labelled
  <2>2. \A w : OnTheWay(g, w)'
    BY <1>s, <1>2, <2>1 DEF OnTheWay
  <2> QED BY <2>1, <2>2 DEF ListInv, Told, feedVars
<1>3. CASE AnnounceAccounts(g)
  <2>1. /\ at'[g] = "publish" /\ UNCHANGED <<mem, hub, toVisit, offered, skipped>>
        /\ event' = [event EXCEPT ![g] = AccountList(mem.accounts)] /\ at[g] = "announce"
    BY <1>0, <1>3 DEF AnnounceAccounts, Announce, Call, Goto, Labelled, configVars
  <2>2. \A w : OnTheWay(g, w)'
    BY <1>0, <1>s, <2>1 DEF OnTheWay, ListInv, Legal
  <2> QED BY <1>s, <2>1, <2>2 DEF ListInv, Told
<1>4. CASE Publish(g) /\ UNCHANGED configVars
  <2>1. /\ UNCHANGED <<mem, hub, event, offered, skipped>> /\ at[g] = "publish"
        /\ toVisit' = [toVisit EXCEPT ![g] = hub]
        /\ hub # {} => at'[g] = "publishing"
    BY <1>0, <1>4 DEF Publish, Goto, Labelled, configVars
  <2>2. \A h \in Handlers, w \in hub : OnTheWay(h, w) => OnTheWay(h, w)'
    BY <1>s, <2>1 DEF OnTheWay, ListInv
  <2> QED BY <1>s, <2>1, <2>2 DEF ListInv, Told
<1>5. CASE Visit(g) /\ UNCHANGED configVars
  <2>1. PICK v \in toVisit[g] :
          /\ toVisit' = [toVisit EXCEPT ![g] = @ \ {v}]
          /\ \/ /\ offered' = [offered EXCEPT ![v] =
                                 IF event[g].type = "accounts" THEN @ \cup {event[g].list} ELSE @]
                /\ UNCHANGED skipped
             \/ skipped' = skipped \cup {v} /\ UNCHANGED offered
          /\ at' = [at EXCEPT ![g] = IF toVisit'[g] = {} THEN then[g] ELSE "publishing"]
    BY <1>5 DEF Visit, Goto
  <2>2. UNCHANGED <<mem, hub, event>> /\ at[g] = "publishing"
    BY <1>5 DEF Visit, configVars
  <2>3. \A w \in hub' \ skipped' : at'[w] = "listed" => Told(w)'
    <3>1. \A w \in Handlers : offered[w] \subseteq offered'[w]
      BY <2>1 DEF ListInv
    <3>2. \A h \in Handlers : \A w : OnTheWay(h, w) /\ (h # g \/ w # v) => OnTheWay(h, w)'
      BY <1>0, <1>s, <2>1, <2>2 DEF OnTheWay, ListInv, Labelled
    <3>3. v \in hub \ skipped' /\ OnTheWay(g, v) => mem.accounts \in offered'[v]
      BY <2>1, <2>2 DEF OnTheWay, ListInv, AccountList
    <3> QED BY <1>s, <2>1, <2>2, <3>1, <3>2, <3>3 DEF Told, ListInv
  <2> QED BY <2>1, <2>2, <2>3 DEF ListInv
<1>6. CASE AddLog(g) /\ UNCHANGED configVars
  <2>1. /\ UNCHANGED <<mem, hub, toVisit, offered, skipped>> /\ at[g] = "log"
        /\ event' = [event EXCEPT ![g] = Log]
    BY <1>6 DEF AddLog, configVars
  <2>2. \A h \in Handlers : \A w : OnTheWay(h, w) => OnTheWay(h, w)'
    BY <1>s, <2>1 DEF OnTheWay, ListInv
  <2> QED BY <1>s, <2>1, <2>2 DEF ListInv, Told
<1>7. CASE Subscribe(g) /\ UNCHANGED configVars
  <2>1. /\ UNCHANGED <<mem, event, toVisit, offered, skipped>> /\ job[g].op = "watch"
        /\ hub' = hub \cup {g} /\ at'[g] = "watching"
    BY <1>0, <1>7 DEF Subscribe, Doing, Goto, Labelled, configVars
  <2>2. \A h \in Handlers : \A w : OnTheWay(h, w) => OnTheWay(h, w)'
    BY <1>s, <2>1 DEF OnTheWay, ListOps
  <2> QED BY <1>s, <2>1, <2>2 DEF ListInv, Told
<1> QED BY <1>1, <1>2, <1>3, <1>4, <1>5, <1>6, <1>7, ListlessWays

LEMMA ListOutside ==
  ASSUME ControlInv, ListInv, OutsideStep
  PROVE  ListInv'
<1>1. OutsideWays
  BY OutsideHasWays DEF ControlInv
<1>2. /\ UNCHANGED <<job, mem, event, toVisit, skipped>>
      /\ hub' \subseteq hub
  BY <1>1 DEF OutsideWays, configVars
<1>3. \A g \in Handlers : job[g].op \in ListOps => at'[g] = at[g]
  BY <1>1 DEF OutsideWays, Strolls, ControlInv, Labelled, ListOps
<1>4. \A g \in Handlers : \A w : OnTheWay(g, w) => OnTheWay(g, w)'
  BY <1>2, <1>3 DEF OnTheWay
<1>5. CASE UNCHANGED offered /\ \A w \in Handlers : at'[w] = "listed" => at[w] = "listed"
  BY <1>2, <1>4, <1>5 DEF ListInv, Told
<1>6. CASE \E w \in Handlers : LoadList(w, mem.accounts)
  <2>1. PICK v \in Handlers : LoadList(v, mem.accounts)
    BY <1>6
  <2>2. /\ offered' = [offered EXCEPT ![v] = @ \cup {mem.accounts}]
        /\ \A w \in Handlers : w # v => at'[w] = at[w]
    BY <2>1 DEF LoadList, Goto, ControlInv, Labelled
  <2>3. Told(v)' /\ \A w \in Handlers : Told(w) => Told(w)'
    BY <1>2, <1>4, <2>2 DEF ListInv, Told
  <2> QED BY <1>2, <2>2, <2>3 DEF ListInv
<1> QED BY <1>1, <1>5, <1>6 DEF OutsideWays

\* A panel that has loaded the list since it subscribed, and has missed no event, has been
\* sent the account list as it is, whenever nobody is on the way from a change of the list
\* to its publication: whatever the handlers, however they interleave, and over restarts.
THEOREM ListReachesPanels == Spec => []CurrentListWasSent
<1>1. Init => ListInv
  BY DEF Init, FeedInit, ListInv
<1>2. ControlInv /\ ConfigInv /\ ListInv /\ [Next]_vars => ListInv'
  <2> SUFFICES ASSUME ControlInv, ConfigInv, ListInv, [Next]_vars PROVE ListInv'
    OBVIOUS
  <2>1. CASE \E g \in Handlers : HandlerStep(g)
    BY <2>1, HandlerWays, ListHandler DEF ConfigInv
  <2>2. CASE OutsideStep BY <2>2, ListOutside
  <2>3. CASE Restart
    BY <2>3 DEF Restart, ForgetFeed, ListInv
  <2>4. CASE UNCHANGED vars
    BY <2>4 DEF vars, handlerVars, configVars, feedVars, ListInv, Told, OnTheWay
  <2> QED BY <2>1, <2>2, <2>3, <2>4 DEF Next, AtRest
<1> QED BY <1>1, <1>2, ListSafe, PanelAlways, PTL DEF Spec
-------------------------------------------------------------------------------
\* What a handler knows of its latest change.  One that has returned, or has been cut off
\* by a crash, may know of more than there is, unless it will save again: only the login
\* and the turn come back, and neither saves.
StampInv ==
  /\ stamp \in [Handlers -> Nat] /\ acked \in Nat
  /\ \A g \in Handlers :
       /\ job[g].op = "login" => stamp[g] = 0
       /\ at[g] = "arrived" /\ job[g].op # "turn" => stamp[g] = 0

\* What the saves under way have to do with each other, the memory and the file, as long
\* as the lock holds off every change: they all write the configuration as it is.
LockedInv ==
  /\ acked <= mem.version
  /\ \A g \in Handlers : stamp[g] <= mem.version \/ at[g] = "done" \/ job[g].op = "turn"
  /\ \A g \in Handlers : at[g] \in Saving => snapshot[g] = mem
  /\ (\E g \in Handlers : at[g] = "write") => disk \in {Empty, mem}
  /\ IF Readable(disk) THEN disk.version >= acked
                       ELSE unsaved \/ \E g \in Handlers : at[g] = "write"

FileInv == StampInv /\ (straddled \/ LockedInv)

LEMMA FileSafe == FileInv => AckedIsOnDisk
BY DEF FileInv, LockedInv, AckedIsOnDisk, Readable

\* A change, which the lock keeps apart from every save, leaves the file behind.
LEMMA FileChanged ==
  ASSUME ControlInv, ConfigInv, FileInv, NEW g \in Handlers, Steps(g), Counted(g), LockFree,
         job[g].op # "login", at'[g] \notin Saving \cup {"arrived"}, at[g] # "done",
         UNCHANGED <<disk, snapshot, acked, unsaved>>, straddled => straddled'
  PROVE  FileInv'
<1>0. /\ Labelled /\ IsConfig(mem) /\ mem.version \in Nat
      /\ job' = job
      /\ \A h \in Handlers : h # g => at'[h] = at[h]
      /\ \A h \in Handlers : at[h] \notin Saving
  BY DEF ControlInv, ConfigInv, IsConfig, Steps, Labelled, LockFree
<1>1. mem'.version \in {mem.version, mem.version + 1}
      /\ stamp' \in {stamp, [stamp EXCEPT ![g] = mem'.version]}
  BY DEF Counted
<1>2. StampInv'
  BY <1>0, <1>1 DEF FileInv, StampInv
<1>3. \A h \in Handlers : at'[h] \notin Saving
  BY <1>0
<1>4. LockedInv => LockedInv'
  <2> SUFFICES ASSUME LockedInv PROVE LockedInv'
    OBVIOUS
  <2>1. acked' <= mem'.version
    BY <1>0, <1>1 DEF LockedInv, FileInv, StampInv
  <2>2. \A h \in Handlers : stamp'[h] <= mem'.version \/ at'[h] = "done" \/ job'[h].op = "turn"
    <3> SUFFICES ASSUME NEW h \in Handlers, at'[h] # "done", job[h].op # "turn"
                 PROVE  stamp'[h] <= mem'.version
      BY <1>0
    <3>1. stamp[h] \in Nat /\ stamp[h] <= mem.version
      BY <1>0 DEF LockedInv, FileInv, StampInv
    <3>2. stamp'[h] = stamp[h] \/ stamp'[h] = mem'.version
      BY <1>1 DEF FileInv, StampInv
    <3> QED BY <1>0, <1>1, <3>1, <3>2
  <2>3. ~Readable(disk) => unsaved
    BY <1>0 DEF LockedInv, Saving
  <2> QED BY <1>3, <2>1, <2>2, <2>3 DEF LockedInv, Saving, Readable
<1> QED BY <1>2, <1>4 DEF FileInv

\* A save: it writes what is in memory, over nothing or over the same.
LEMMA FileWritten ==
  ASSUME ~IsConfig(Empty), ~IsConfig(Torn), ControlInv, ConfigInv, FileInv, NEW g \in Handlers,
         Write(g)
  PROVE  FileInv'
<1>0. /\ Labelled /\ IsConfig(mem) /\ mem.version \in Nat /\ Legal(job[g].op, at[g], then[g])
      /\ snapshot = [h \in Handlers |-> snapshot[h]]
  BY DEF ControlInv, ConfigInv, IsConfig
<1>1. /\ at[g] = "write" /\ at' = [at EXCEPT ![g] = then[g]]
      /\ snapshot' = [snapshot EXCEPT ![g] = NoSnapshot]
      /\ UNCHANGED <<mem, stamp, straddled, job>>
      /\ acked' = IF stamp[g] > acked THEN stamp[g] ELSE acked
  BY DEF Write, Goto
<1>2. then[g] \in Returns /\ job[g].op \notin {"login", "turn"}
  BY <1>0, <1>1 DEF Legal
<1>3. StampInv'
  BY <1>0, <1>1, <1>2 DEF FileInv, StampInv, Labelled, Returns
<1>4. ASSUME LockedInv
      PROVE  LockedInv'
  <2>1. stamp[g] <= mem.version /\ snapshot[g] = mem /\ disk \in {Empty, mem} /\ Readable(mem)
    BY <1>0, <1>1, <1>2, <1>4 DEF LockedInv, Saving, Readable
  <2>2. disk' = mem \/ (disk' = disk /\ unsaved')
    BY <2>1 DEF Write
  <2>3. acked' <= mem.version
    BY <1>1, <1>4, <2>1 DEF LockedInv
  <2>4. disk' \in {Empty, mem} /\ (disk' = Empty \/ disk'.version >= acked')
    BY <2>1, <2>2, <2>3, <1>0, <1>1 DEF FileInv, StampInv
  <2>5. \A h \in Handlers : stamp'[h] <= mem'.version \/ at'[h] = "done" \/ job'[h].op = "turn"
    BY <1>0, <1>1, <1>4, <2>1 DEF LockedInv, Labelled
  <2>6. \A h \in Handlers : at'[h] \in Saving => snapshot'[h] = mem'
    BY <1>0, <1>1, <1>2, <1>4 DEF LockedInv, Labelled, Saving, Returns
  <2>7. IF Readable(disk') THEN disk'.version >= acked' ELSE unsaved'
    BY <2>1, <2>2, <2>4 DEF Readable
  <2> QED BY <1>1, <2>3, <2>4, <2>5, <2>6, <2>7 DEF LockedInv
<1> QED BY <1>1, <1>3, <1>4 DEF FileInv

LEMMA FileHandler ==
  ASSUME ~IsConfig(Empty), ~IsConfig(Torn), ControlInv, ConfigInv, FileInv, NEW g \in Handlers,
         Ways(g)
  PROVE  FileInv'
<1>0. /\ Labelled /\ IsConfig(mem) /\ Legal(job[g].op, at[g], then[g]) /\ Steps(g)
      /\ snapshot = [h \in Handlers |-> snapshot[h]]
  BY WaysAreLegal DEF ControlInv, ConfigInv
<1>1. CASE Idles(g)
  <2>1. UNCHANGED <<mem, disk, snapshot, stamp, acked, unsaved, straddled, job>>
    BY <1>0, <1>1 DEF Idles, configVars, Steps
  <2>2. \A h \in Handlers : /\ at'[h] \in Saving \/ at[h] \in Saving => at'[h] = at[h]
                            /\ at'[h] = "arrived" => at[h] = "arrived"
                            /\ at[h] = "done" => at'[h] = "done"
    BY <1>0, <1>1 DEF Idles, Labelled, Steps
  <2>3. StampInv'
    BY <2>1, <2>2 DEF FileInv, StampInv
  <2>4. LockedInv => LockedInv'
    <3>1. \A h \in Handlers : at'[h] = "write" <=> at[h] = "write"
      BY <2>2 DEF Saving
    <3> QED BY <2>1, <2>2, <3>1 DEF LockedInv, Readable
  <2> QED BY <2>1, <2>3, <2>4 DEF FileInv
<1>2. CASE Stores(g)
  <2>1. at'[g] = "save" /\ job[g].op # "login" /\ at[g] # "done"
    BY <1>0, <1>2 DEF Stores, Call, Goto, Labelled
  <2> QED BY <1>0, <1>2, <2>1, StoresEffect, FileChanged DEF Saving
<1>3. CASE Marshal(g)
  <2>1. /\ at[g] = "save" /\ at' = [at EXCEPT ![g] = "truncate"]
        /\ snapshot' = [snapshot EXCEPT ![g] = mem]
        /\ UNCHANGED <<mem, disk, stamp, acked, unsaved, straddled, job>>
    BY <1>3 DEF Marshal, Goto
  <2>2. StampInv'
    BY <1>0, <2>1 DEF FileInv, StampInv, Labelled
  <2>3. LockedInv => LockedInv'
    <3>1. \A h \in Handlers : at'[h] = "write" <=> at[h] = "write"
      BY <1>0, <2>1 DEF Labelled
    <3> QED BY <1>0, <2>1, <3>1 DEF LockedInv, Labelled, Saving, Readable
  <2> QED BY <2>1, <2>2, <2>3 DEF FileInv
<1>4. CASE Truncate(g)
  <2>1. /\ at[g] = "truncate" /\ at' = [at EXCEPT ![g] = "write"] /\ disk' = Empty
        /\ UNCHANGED <<mem, snapshot, stamp, acked, unsaved, straddled, job>>
    BY <1>4 DEF Truncate, Goto
  <2>2. StampInv'
    BY <1>0, <2>1 DEF FileInv, StampInv, Labelled
  <2>3. LockedInv => LockedInv'
    BY <1>0, <2>1 DEF LockedInv, Labelled, Saving, Readable
  <2> QED BY <2>1, <2>2, <2>3 DEF FileInv
<1>5. CASE Write(g)
  BY <1>5, FileWritten
<1>6. CASE PointerWrite(g)
  <2>1. /\ at[g] = "arrived" /\ at'[g] = "renewed" /\ job[g].op = "renew"
        /\ stamp' = [stamp EXCEPT ![g] = mem.version + 1]
        /\ UNCHANGED <<disk, snapshot, acked, unsaved>>
        /\ straddled' = (straddled \/ ~LockFree)
    BY <1>0, <1>6 DEF PointerWrite, Doing, Goto, Labelled
  <2>2. Counted(g)
    BY <1>0, <1>6, <2>1, PointerEffect DEF Counted
  <2>3. CASE LockFree
    BY <1>0, <2>1, <2>2, <2>3, FileChanged DEF Saving
  <2>4. CASE ~LockFree
    <3>1. mem.version + 1 \in Nat
      BY <1>0 DEF IsConfig
    <3>2. StampInv'
      BY <1>0, <2>1, <3>1 DEF FileInv, StampInv, Steps, Labelled
    <3> QED BY <2>1, <2>4, <3>2 DEF FileInv
  <2> QED BY <2>3, <2>4
<1>7. CASE Charge(g)
  <2>1. at'[g] = "publish" /\ job[g].op = "turn" /\ at[g] = "charge"
    BY <1>0, <1>7 DEF Charge, Doing, Call, Goto, Labelled
  <2>2. LockFree /\ Counted(g) /\ UNCHANGED <<disk, snapshot, acked, unsaved, straddled>>
    BY <1>0, <1>7, ChargeEffect
  <2> QED BY <1>0, <2>1, <2>2, FileChanged DEF Saving
<1>8. CASE KeyAdmin(g)
  <2>1. at[g] = "routed" /\ job[g].op # "login"
    BY <1>8 DEF KeyAdmin
  <2>2. CASE UNCHANGED configVars /\ at' = [at EXCEPT ![g] = "done"]
    BY <1>0, <1>1, <2>1, <2>2 DEF Idles, Labelled, Saving
  <2>3. CASE ~(UNCHANGED configVars /\ at' = [at EXCEPT ![g] = "done"])
    <3>1. at'[g] = "save"
      BY <1>0, <1>8, <2>3, KeyAdminEffect DEF Labelled
    <3> QED BY <1>0, <1>8, <2>1, <2>3, <3>1, KeyAdminEffect, FileChanged DEF Saving
  <2> QED BY <2>2, <2>3
<1>9. CASE Amends(g)
  <2>1. /\ at'[g] \in {"save", "resolving"} /\ at[g] \in {"refreshed", "resolving", "fetched"}
        /\ job[g].op # "login"
    BY <1>0, <1>9 DEF Amends, Call, Goto, Labelled
  <2>2. LockFree /\ Counted(g) /\ UNCHANGED <<disk, snapshot, acked, unsaved, straddled>>
    BY <1>0, <1>9, AmendEffect DEF Amends
  <2> QED BY <1>0, <2>1, <2>2, FileChanged DEF Saving
<1> QED BY <1>1, <1>2, <1>3, <1>4, <1>5, <1>6, <1>7, <1>8, <1>9, ConfigWays

LEMMA FileOutside ==
  ASSUME ControlInv, ConfigInv, FileInv, OutsideStep
  PROVE  FileInv'
<1>1. OutsideWays
  BY OutsideHasWays DEF ControlInv
<1>2. UNCHANGED <<job, mem, disk, snapshot, stamp, acked, unsaved, straddled>>
  BY <1>1 DEF OutsideWays, configVars
<1>3. \A g \in Handlers :
        /\ at'[g] \in Saving \/ at[g] \in Saving => at'[g] = at[g]
        /\ at'[g] # at[g] =>
             \/ at'[g] = "done" \/ job[g].op = "turn" \/ job[g].op = "login"
             \/ at'[g] = "listed" /\ at[g] # "done"
  BY <1>1 DEF OutsideWays, Strolls, ControlInv, Labelled, Saving
<1>4. StampInv'
  BY <1>2, <1>3 DEF FileInv, StampInv
<1>5. LockedInv => LockedInv'
  <2>1. \A g \in Handlers : at'[g] = "write" <=> at[g] = "write"
    BY <1>3 DEF Saving
  <2>2. mem.version \in Nat
    BY DEF ConfigInv, IsConfig
  <2>3. LockedInv => \A g \in Handlers : stamp[g] <= mem.version \/ at'[g] = "done" \/ job[g].op = "turn"
    BY <1>3, <2>2 DEF LockedInv, FileInv, StampInv
  <2> QED BY <1>2, <1>3, <2>1, <2>3 DEF LockedInv, Readable
<1> QED BY <1>2, <1>4, <1>5 DEF FileInv

\* What was acknowledged is in a file the program can start from.
LEMMA FileRestart ==
  ASSUME ~IsConfig(Empty), ~IsConfig(Torn), ControlInv, ConfigInv, FileInv, Restart
  PROVE  FileInv'
<1>1. /\ Readable(disk) /\ IsConfig(disk) /\ IsConfig(mem') /\ disk' = mem'
      /\ mem'.version \in {disk.version, disk.version + 1}
      /\ at' = [g \in Handlers |-> IF at[g] = "arrived" THEN "arrived" ELSE "done"]
      /\ UNCHANGED <<stamp, acked, straddled, job>>
  BY RestartEffect DEF ConfigInv
<1>2. StampInv'
  BY <1>1 DEF FileInv, StampInv
<1>3. LockedInv => LockedInv'
  <2>1. disk.version \in Nat /\ mem'.version \in Nat
    BY <1>1 DEF IsConfig
  <2>2. LockedInv => acked' <= mem'.version
    BY <1>1, <2>1 DEF LockedInv, FileInv, StampInv
  <2>3. \A g \in Handlers : stamp'[g] <= mem'.version \/ at'[g] = "done" \/ job'[g].op = "turn"
    BY <1>1, <2>1 DEF FileInv, StampInv
  <2>4. Readable(mem') /\ \A g \in Handlers : at'[g] \notin Saving \cup {"write"}
    BY <1>1 DEF Readable, Saving
  <2> QED BY <1>1, <2>1, <2>2, <2>3, <2>4 DEF LockedInv, FileInv, StampInv, Readable
<1> QED BY <1>1, <1>2, <1>3 DEF FileInv

\* What a handler has reported as saved is in the file, however saves overlap, whichever
\* of them fail, and over crashes and restarts: unless a token is written through a pointer
\* while somebody saves.  A file that is empty or torn is no configuration.
THEOREM AcknowledgedIsKept ==
  ASSUME ~IsConfig(Empty), ~IsConfig(Torn)
  PROVE  Spec => []AckedIsOnDisk
<1>1. Init => FileInv
  <2> SUFFICES ASSUME Init PROVE FileInv
    OBVIOUS
  <2>1. /\ mem = FirstConfig /\ disk = FirstConfig /\ acked = 0 /\ straddled = FALSE
        /\ stamp = [g \in Handlers |-> 0] /\ \A g \in Handlers : at[g] \in {"arrived", "done"}
    BY DEF Init, ConfigInit
  <2>2. FirstConfig.version \in Nat /\ Readable(FirstConfig)
    BY ConfigAssumption DEF IsConfig, Readable
  <2> QED BY <2>1, <2>2 DEF FileInv, StampInv, LockedInv, Saving, Readable
<1>2. ControlInv /\ ConfigInv /\ FileInv /\ [Next]_vars => FileInv'
  <2> SUFFICES ASSUME ControlInv, ConfigInv, FileInv, [Next]_vars PROVE FileInv'
    OBVIOUS
  <2>1. CASE \E g \in Handlers : HandlerStep(g) BY <2>1, HandlerWays, FileHandler
  <2>2. CASE OutsideStep BY <2>2, FileOutside
  <2>3. CASE Restart BY <2>3, FileRestart
  <2>4. CASE UNCHANGED vars
    BY <2>4 DEF vars, handlerVars, configVars, FileInv, StampInv, LockedInv, Readable
  <2> QED BY <2>1, <2>2, <2>3, <2>4 DEF Next, AtRest
<1> QED BY <1>1, <1>2, FileSafe, PanelAlways, PTL DEF Spec
-------------------------------------------------------------------------------
\* The labels at which Continue holds the lock of its session.
Holding == {"ms_discovering", "ms_exchanging", "ms_look", "ms_unlock"}

\* The lock of a session is held by the handler that is between its lock and its unlock.
LockInv ==
  /\ msStage = [s \in Sessions |-> msStage[s]]
  /\ msLeg = [s \in Sessions |-> msLeg[s]]
  /\ msLock \in [Sessions -> Handlers \cup {NoHandler}]
  /\ \A g \in Handlers : job[g].op \in MsOps => S(g) \in Sessions
  /\ \A g \in Handlers : at[g] \in Holding => job[g].op = "ms_continue" /\ msLock[S(g)] = g
  /\ \A s \in Sessions : msLock[s] \in Handlers =>
       at[msLock[s]] \in Holding /\ S(msLock[s]) = s

\* Nothing is under way about a session that was never started.
Unstarted(s) ==
  /\ s \notin msTable \cup msCanceled
  /\ \A g \in Handlers : <<g, s>> \notin marking
  /\ \A g \in Handlers : job[g].op = "ms_continue" /\ S(g) = s => at[g] \notin Holding \cup {"ms_lock"}

\* Why a session that was canceled is wiped, or will be, or is in the gap.
Accounted(s) ==
  \/ s \notin msPortal /\ msLeg[s] = NoConfiguration
  \/ s \in missed
  \/ \E g \in Handlers : <<g, s>> \in marking \cup wiping
  \/ msLock[s] \in Handlers /\ at[msLock[s]] # "ms_unlock"

SecretInv ==
  /\ LockInv
  /\ msCanceled \subseteq Sessions
  /\ \A s \in Sessions : msStage[s] = "none" => Unstarted(s)
  /\ \A s \in msCanceled : Accounted(s)

LEMMA SecretSafe == SecretInv => SecretsWiped
BY HandlersAssumption DEF SecretInv, Accounted, SecretsWiped

\* A step of Continue that keeps the lock, or is no step of Continue, keeps LockInv.
LEMMA LockKept ==
  ASSUME Labelled, LockInv, NEW g \in Handlers, job' = job, msLock' = msLock,
         at' = [at EXCEPT ![g] = at'[g]], at'[g] \in Holding <=> at[g] \in Holding,
         msStage' = [s \in Sessions |-> msStage'[s]], msLeg' = [s \in Sessions |-> msLeg'[s]]
  PROVE  LockInv'
BY DEF Labelled, LockInv, S

LEMMA LockStep ==
  ASSUME ControlInv, LockInv, NEW g \in Handlers, MsStep(g)
  PROVE  LockInv'
<1>0. Labelled
  BY DEF ControlInv
<1> USE DEF Labelled, Holding, Doing, Goto, Retire, Keep
<1>1. CASE MsStart(g)
  <2>1. at'[g] \in {"done", "ms_discarding"} /\ at[g] = "routed" /\ msLock' = msLock /\ job' = job
        /\ at' = [at EXCEPT ![g] = at'[g]] /\ msLeg' = msLeg
        /\ msStage' \in {msStage, [msStage EXCEPT ![S(g)] = "portal"]}
    BY <1>0, <1>1 DEF MsStart
  <2> QED BY <1>0, <2>1, LockKept DEF LockInv
<1>2. CASE MsDetach(g)
  <2>1. at'[g] \in {"done", "ms_discarding"} /\ at[g] \in {"arrived", "routed"}
        /\ UNCHANGED <<msLock, job, msLeg, msStage>> /\ at' = [at EXCEPT ![g] = at'[g]]
    BY <1>0, <1>2 DEF MsDetach
  <2> QED BY <1>0, <2>1, LockKept DEF LockInv
<1>3. CASE MsMark(g)
  BY <1>3 DEF MsMark, handlerVars, LockInv, S
<1>4. CASE MsWipe(g)
  <2>1. /\ at' = at \/ (at[g] = "ms_discarding" /\ at' = [at EXCEPT ![g] = "done"])
        /\ UNCHANGED <<msLock, job, msStage>>
        /\ \E s \in Sessions : msLeg' \in {msLeg, [msLeg EXCEPT ![s] = NoConfiguration]}
    BY <1>4 DEF MsWipe, ControlInv, Discarding
  <2> QED BY <1>0, <2>1, LockKept DEF LockInv
<1>5. CASE MsLookUp(g)
  <2>1. at'[g] \in {"done", "ms_discarding", "ms_lock"} /\ at[g] = "routed"
        /\ UNCHANGED <<msLock, job, msLeg, msStage>> /\ at' = [at EXCEPT ![g] = at'[g]]
    BY <1>0, <1>5 DEF MsLookUp
  <2> QED BY <1>0, <2>1, LockKept DEF LockInv
<1>6. CASE MsContinue(g)
  <2>1. /\ \E l \in Holding : at' = [at EXCEPT ![g] = l]
        /\ msLock[S(g)] = NoHandler /\ msLock' = [msLock EXCEPT ![S(g)] = g]
        /\ msLeg' \in {msLeg, [msLeg EXCEPT ![S(g)] = NoConfiguration]}
        /\ UNCHANGED <<job, msStage>> /\ job[g].op = "ms_continue" /\ at[g] = "ms_lock"
    BY <1>0, <1>6 DEF MsContinue
  <2>2. S(g) \in Sessions
    BY <2>1 DEF LockInv, MsOps
  <2> QED BY <1>0, <2>1, <2>2, HandlersAssumption DEF LockInv, S
<1>7. CASE MsDiscovered(g)
  <2>1. at'[g] = "ms_look" /\ at[g] = "ms_discovering" /\ at' = [at EXCEPT ![g] = "ms_look"]
        /\ UNCHANGED <<msLock, job>>
        /\ msStage' \in {msStage, [msStage EXCEPT ![S(g)] = "provider"]}
        /\ \/ msLeg' = msLeg
           \/ \E leg : msLeg' = [msLeg EXCEPT ![S(g)] = leg]
    BY <1>0, <1>7 DEF MsDiscovered
  <2> QED BY <1>0, <2>1, LockKept DEF LockInv
<1>8. CASE MsExchanged(g)
  <2>1. at'[g] = "ms_look" /\ at[g] = "ms_exchanging" /\ at' = [at EXCEPT ![g] = "ms_look"]
        /\ UNCHANGED <<msLock, job, msStage>>
        /\ msLeg' = [msLeg EXCEPT ![S(g)] = NoConfiguration]
    BY <1>0, <1>8 DEF MsExchanged
  <2> QED BY <1>0, <2>1, LockKept DEF LockInv
<1>9. CASE MsLook(g)
  <2>1. at'[g] = "ms_unlock" /\ at[g] = "ms_look" /\ at' = [at EXCEPT ![g] = "ms_unlock"]
        /\ UNCHANGED <<msLock, job, msStage>>
        /\ msLeg' \in {msLeg, [msLeg EXCEPT ![S(g)] = NoConfiguration]}
    BY <1>0, <1>9 DEF MsLook
  <2> QED BY <1>0, <2>1, LockKept DEF LockInv
<1>10. CASE MsUnlock(g)
  <2>1. /\ \E l \in {"done", "persist"} : at' = [at EXCEPT ![g] = l]
        /\ msLock' = [msLock EXCEPT ![S(g)] = NoHandler]
        /\ UNCHANGED <<job, msStage, msLeg>> /\ job[g].op = "ms_continue" /\ at[g] = "ms_unlock"
    BY <1>0, <1>10 DEF MsUnlock
  <2>2. S(g) \in Sessions /\ msLock[S(g)] = g
    BY <2>1 DEF LockInv, MsOps
  <2> QED BY <1>0, <2>1, <2>2, HandlersAssumption DEF LockInv, S
<1> QED BY <1>1, <1>2, <1>3, <1>4, <1>5, <1>6, <1>7, <1>8, <1>9, <1>10 DEF MsStep

\* The stage of a session, and who is at it.
LEMMA UnstartedStep ==
  ASSUME ControlInv, SecretInv, NEW g \in Handlers, MsStep(g), Steps(g)
  PROVE  /\ msCanceled' \subseteq Sessions
         /\ \A s \in Sessions : msStage'[s] = "none" => Unstarted(s)'
<1>0. Labelled /\ LockInv /\ job' = job
  BY DEF ControlInv, SecretInv, Steps
<1>s. ASSUME msStage' = msStage, msTable' \subseteq msTable,
             \A s \in Sessions : \A h \in Handlers :
               <<h, s>> \in marking' => <<h, s>> \in marking \/ s \in msTable,
             \A s \in msCanceled' : \/ s \in msCanceled \/ (s \in Sessions /\ \E h \in Handlers : <<h, s>> \in marking)
                                    \/ /\ s \in Sessions /\ s = S(g) /\ job[g].op = "ms_continue"
                                       /\ at[g] \in Holding \cup {"ms_lock"},
             \A h \in Handlers : job[h].op = "ms_continue" /\ at'[h] \in Holding \cup {"ms_lock"} =>
               at[h] \in Holding \cup {"ms_lock"} \/ S(h) \in msTable
      PROVE  /\ msCanceled' \subseteq Sessions
             /\ \A s \in Sessions : msStage'[s] = "none" => Unstarted(s)'
  BY <1>0, <1>s DEF SecretInv, Unstarted, S
<1> USE DEF Labelled, Holding, Doing, Goto, Retire, Keep
<1>1. CASE MsStart(g)
  <2>1. /\ S(g) \in Sessions
        /\ msStage' \in {msStage, [msStage EXCEPT ![S(g)] = "portal"]}
        /\ msTable' \subseteq msTable \cup {S(g)} /\ (msStage' = msStage => msTable' \subseteq msTable)
        /\ \A h, s : <<h, s>> \in marking' => <<h, s>> \in marking \/ s \in msTable
        /\ msCanceled' = msCanceled
        /\ at'[g] \in {"done", "ms_discarding"}
        /\ \A h \in Handlers : h # g => at'[h] = at[h]
    BY <1>0, <1>1 DEF MsStart, LockInv, MsOps
  <2>2. \A s \in Sessions : msStage'[s] = "none" =>
          msStage[s] = "none" /\ (s = S(g) => msStage' = msStage)
    BY <1>0, <2>1 DEF LockInv
  <2> QED BY <1>0, <2>1, <2>2 DEF SecretInv, Unstarted, S
<1>2. CASE MsDetach(g)
  <2>1. /\ msStage' = msStage /\ msTable' \subseteq msTable /\ msCanceled' = msCanceled
        /\ \A h, s : <<h, s>> \in marking' => <<h, s>> \in marking \/ s \in msTable
        /\ at'[g] \in {"done", "ms_discarding"}
        /\ \A h \in Handlers : h # g => at'[h] = at[h]
    BY <1>0, <1>2 DEF MsDetach
  <2> QED BY <1>s, <2>1
<1>3. CASE MsMark(g)
  BY <1>s, <1>3 DEF MsMark, handlerVars
<1>4. CASE MsWipe(g)
  <2>1. /\ UNCHANGED <<msStage, msTable, msCanceled, marking>>
        /\ at' = at \/ at' = [at EXCEPT ![g] = "done"]
    BY <1>4 DEF MsWipe
  <2> QED BY <1>0, <1>s, <2>1
<1>5. CASE MsLookUp(g)
  <2>1. /\ UNCHANGED <<msStage, msCanceled>> /\ msTable' \subseteq msTable
        /\ \A h, s : <<h, s>> \in marking' => <<h, s>> \in marking \/ s \in msTable
        /\ at'[g] \in {"done", "ms_discarding"} \/ (at'[g] = "ms_lock" /\ S(g) \in msTable)
        /\ \A h \in Handlers : h # g => at'[h] = at[h]
    BY <1>0, <1>5 DEF MsLookUp
  <2> QED BY <1>s, <2>1
<1>6. CASE MsContinue(g)
  <2>1. /\ job[g].op = "ms_continue" /\ at[g] = "ms_lock" /\ UNCHANGED <<msStage, marking>>
        /\ msTable' \subseteq msTable /\ msCanceled' \subseteq msCanceled \cup {S(g)}
        /\ \A h \in Handlers : h # g => at'[h] = at[h]
    BY <1>0, <1>6 DEF MsContinue
  <2>2. S(g) \in Sessions
    BY <1>0, <2>1 DEF LockInv, MsOps
  <2> QED BY <1>s, <2>1, <2>2
<1>7. CASE MsDiscovered(g)
  <2>1. /\ job[g].op = "ms_continue" /\ at[g] = "ms_discovering" /\ UNCHANGED marking
        /\ msStage' \in {msStage, [msStage EXCEPT ![S(g)] = "provider"]}
        /\ msTable' \subseteq msTable /\ msCanceled' \subseteq msCanceled \cup {S(g)}
        /\ \A h \in Handlers : h # g => at'[h] = at[h]
    BY <1>0, <1>7 DEF MsDiscovered
  <2>2. S(g) \in Sessions
    BY <1>0, <2>1 DEF LockInv, MsOps
  <2>3. CASE msStage' = msStage
    BY <1>s, <2>1, <2>2, <2>3
  <2>4. CASE msStage' = [msStage EXCEPT ![S(g)] = "provider"]
    <3>1. \A s \in Sessions : msStage'[s] = "none" => msStage[s] = "none" /\ s # S(g)
      BY <1>0, <2>2, <2>4 DEF LockInv
    <3> QED BY <1>0, <2>1, <2>2, <3>1 DEF SecretInv, Unstarted, S
  <2> QED BY <2>1, <2>3, <2>4
<1>8. CASE MsExchanged(g)
  <2>1. /\ job[g].op = "ms_continue" /\ at[g] = "ms_exchanging" /\ UNCHANGED <<msStage, marking>>
        /\ msTable' \subseteq msTable /\ msCanceled' \subseteq msCanceled \cup {S(g)}
        /\ \A h \in Handlers : h # g => at'[h] = at[h]
    BY <1>0, <1>8 DEF MsExchanged
  <2>2. S(g) \in Sessions
    BY <1>0, <2>1 DEF LockInv, MsOps
  <2> QED BY <1>s, <2>1, <2>2
<1>9. CASE MsLook(g)
  <2>1. /\ at[g] = "ms_look" /\ UNCHANGED <<msStage, marking, msTable, msCanceled>>
        /\ \A h \in Handlers : h # g => at'[h] = at[h]
    BY <1>0, <1>9 DEF MsLook
  <2> QED BY <1>s, <2>1
<1>10. CASE MsUnlock(g)
  <2>1. /\ at[g] = "ms_unlock" /\ UNCHANGED <<msStage, marking, msTable, msCanceled>>
        /\ \A h \in Handlers : h # g => at'[h] = at[h]
    BY <1>0, <1>10 DEF MsUnlock
  <2> QED BY <1>s, <2>1
<1> QED BY <1>1, <1>2, <1>3, <1>4, <1>5, <1>6, <1>7, <1>8, <1>9, <1>10 DEF MsStep
\* The cancel and the holder of the lock between them: whichever looks last, looks away
\* from nothing but the gap.
LEMMA AccountedStep ==
  ASSUME ControlInv, SecretInv, NEW g \in Handlers, MsStep(g), Steps(g)
  PROVE  \A s \in msCanceled' : Accounted(s)'
<1> SUFFICES ASSUME NEW s \in msCanceled' PROVE Accounted(s)'
  OBVIOUS
<1>0. Labelled /\ LockInv /\ job' = job /\ LockInv' /\ (s \in msCanceled => Accounted(s))
      /\ msCanceled \subseteq Sessions
  BY LockStep DEF ControlInv, SecretInv, Steps
<1>k. ASSUME s \in msCanceled, missed \subseteq missed', marking \subseteq marking',
             wiping \subseteq wiping', msLock' = msLock,
             s \notin msPortal /\ msLeg[s] = NoConfiguration =>
               s \notin msPortal' /\ msLeg'[s] = NoConfiguration,
             msLock[s] \in Handlers /\ at[msLock[s]] # "ms_unlock" => at'[msLock[s]] # "ms_unlock"
      PROVE  Accounted(s)'
  BY <1>0, <1>k DEF Accounted
<1> USE DEF Labelled, Holding, Doing, Goto, Retire, Keep
<1>1. CASE MsStart(g)
  <2>1. /\ S(g) \in Sessions /\ msStage[S(g)] = "none"
        /\ marking \subseteq marking' /\ msPortal' \subseteq msPortal \cup {S(g)}
        /\ UNCHANGED <<msCanceled, msLeg, msLock, wiping, missed>>
        /\ at'[g] \in {"done", "ms_discarding"}
        /\ \A h \in Handlers : h # g => at'[h] = at[h]
    BY <1>0, <1>1 DEF MsStart, LockInv, MsOps
  <2>2. s # S(g)
    BY <2>1 DEF SecretInv, Unstarted
  <2> QED BY <1>k, <2>1, <2>2
<1>2. CASE MsDetach(g)
  <2>1. /\ marking \subseteq marking'
        /\ UNCHANGED <<msPortal, msCanceled, msLeg, msLock, wiping, missed>>
        /\ at'[g] \in {"done", "ms_discarding"}
        /\ \A h \in Handlers : h # g => at'[h] = at[h]
    BY <1>0, <1>2 DEF MsDetach
  <2> QED BY <1>k, <2>1
<1>3. CASE MsMark(g)
  <2>1. PICK t \in Sessions : /\ msCanceled' = msCanceled \cup {t}
                              /\ marking' = marking \ {<<g, t>>}
                              /\ wiping' = wiping \cup {<<g, t>>}
    BY <1>3 DEF MsMark
  <2>2. UNCHANGED <<at, msPortal, msLeg, msLock, missed>>
    BY <1>3 DEF MsMark, handlerVars
  <2>3. CASE s = t
    BY <2>1, <2>3 DEF Accounted
  <2>4. CASE s # t
    BY <1>0, <2>1, <2>2, <2>4 DEF Accounted
  <2> QED BY <2>3, <2>4
<1>4. CASE MsWipe(g)
  <2>1. PICK t \in Sessions :
          /\ IF msLock[t] = NoHandler
             THEN /\ msPortal' = msPortal \ {t}
                  /\ msLeg' = [msLeg EXCEPT ![t] = NoConfiguration]
                  /\ missed' = missed
             ELSE /\ missed' = IF at[msLock[t]] = "ms_unlock" THEN missed \cup {t} ELSE missed
                  /\ UNCHANGED <<msPortal, msLeg>>
          /\ wiping' = wiping \ {<<g, t>>}
    BY <1>4 DEF MsWipe
  <2>2. UNCHANGED <<msCanceled, msLock, marking>>
        /\ (at' = at \/ (at[g] = "ms_discarding" /\ at' = [at EXCEPT ![g] = "done"]))
    BY <1>4 DEF MsWipe, ControlInv, Discarding
  <2>3. \A h \in Handlers : at[h] # "ms_unlock" => at'[h] # "ms_unlock"
    BY <1>0, <2>2
  <2>4. CASE s = t /\ msLock[t] = NoHandler
    BY <1>0, <2>1, <2>4 DEF Accounted, LockInv
  <2>5. CASE s = t /\ msLock[t] # NoHandler
    <3>1. msLock[s] \in Handlers
      BY <1>0, <2>5 DEF LockInv
    <3> QED BY <2>1, <2>2, <2>3, <2>5, <3>1 DEF Accounted
  <2>6. CASE s # t
    <3>1. missed \subseteq missed' /\ msPortal' \subseteq msPortal /\ msLeg'[s] = msLeg[s]
      BY <1>0, <2>1, <2>2, <2>6 DEF LockInv
    <3> QED BY <1>0, <2>1, <2>2, <2>3, <2>6, <3>1 DEF Accounted
  <2> QED BY <2>4, <2>5, <2>6
<1>5. CASE MsLookUp(g)
  <2>1. /\ marking \subseteq marking'
        /\ UNCHANGED <<msPortal, msCanceled, msLeg, msLock, wiping, missed>>
        /\ at'[g] \in {"done", "ms_discarding", "ms_lock"}
        /\ \A h \in Handlers : h # g => at'[h] = at[h]
    BY <1>0, <1>5 DEF MsLookUp
  <2> QED BY <1>k, <2>1
<1>6. CASE MsContinue(g)
  <2>1. /\ job[g].op = "ms_continue" /\ at'[g] \in Holding \ {"ms_unlock"}
        /\ msLock[S(g)] = NoHandler /\ msLock' = [msLock EXCEPT ![S(g)] = g]
        /\ \/ UNCHANGED <<msCanceled, msPortal, msLeg>>
           \/ /\ msCanceled' = msCanceled \cup {S(g)} /\ msPortal' = msPortal \ {S(g)}
              /\ msLeg' = [msLeg EXCEPT ![S(g)] = NoConfiguration]
        /\ UNCHANGED <<marking, wiping, missed>>
        /\ \A h \in Handlers : h # g => at'[h] = at[h]
    BY <1>0, <1>6 DEF MsContinue
  <2>2. S(g) \in Sessions
    BY <1>0, <2>1 DEF LockInv, MsOps
  <2>3. CASE s = S(g)
    <3>1. msLock'[s] = g
      BY <1>0, <2>1, <2>2, <2>3 DEF LockInv
    <3> QED BY <2>1, <3>1 DEF Accounted
  <2>4. CASE s # S(g)
    <3>1. /\ s \in msCanceled /\ msLock'[s] = msLock[s] /\ msLeg'[s] = msLeg[s]
          /\ msPortal' \subseteq msPortal
      BY <1>0, <2>1, <2>2, <2>4 DEF LockInv
    <3>2. msLock[s] \in Handlers => at'[msLock[s]] = at[msLock[s]] \/ msLock[s] = g
      BY <2>1
    <3> QED BY <1>0, <2>1, <3>1, <3>2 DEF Accounted
  <2> QED BY <2>3, <2>4
<1>7. CASE MsDiscovered(g)
  <2>1. /\ job[g].op = "ms_continue" /\ at'[g] = "ms_look" /\ at[g] = "ms_discovering"
        /\ msCanceled' \subseteq msCanceled \cup {S(g)} /\ msPortal' \subseteq msPortal
        /\ \/ msLeg' = msLeg
           \/ \E leg : msLeg' = [msLeg EXCEPT ![S(g)] = leg]
        /\ UNCHANGED <<marking, wiping, missed, msLock>>
        /\ \A h \in Handlers : h # g => at'[h] = at[h]
    BY <1>0, <1>7 DEF MsDiscovered
  <2>2. S(g) \in Sessions /\ msLock[S(g)] = g
    BY <1>0, <2>1 DEF LockInv, MsOps
  <2>3. CASE s = S(g)
    BY <2>1, <2>2, <2>3 DEF Accounted
  <2>4. CASE s # S(g)
    <3>1. s \in msCanceled /\ msLeg'[s] = msLeg[s]
      BY <1>0, <2>1, <2>2, <2>4 DEF LockInv
    <3> QED BY <1>k, <2>1, <3>1
  <2> QED BY <2>3, <2>4
<1>8. CASE MsExchanged(g)
  <2>1. /\ job[g].op = "ms_continue" /\ at'[g] = "ms_look" /\ at[g] = "ms_exchanging"
        /\ msCanceled' = msCanceled \cup {S(g)} /\ msPortal' \subseteq msPortal
        /\ msLeg' = [msLeg EXCEPT ![S(g)] = NoConfiguration]
        /\ UNCHANGED <<marking, wiping, missed, msLock>>
        /\ \A h \in Handlers : h # g => at'[h] = at[h]
    BY <1>0, <1>8 DEF MsExchanged
  <2>2. S(g) \in Sessions /\ msLock[S(g)] = g
    BY <1>0, <2>1 DEF LockInv, MsOps
  <2>3. CASE s = S(g)
    BY <2>1, <2>2, <2>3 DEF Accounted
  <2>4. CASE s # S(g)
    <3>1. s \in msCanceled /\ msLeg'[s] = msLeg[s]
      BY <1>0, <2>1, <2>2, <2>4 DEF LockInv
    <3> QED BY <1>k, <2>1, <3>1
  <2> QED BY <2>3, <2>4
<1>9. CASE MsLook(g)
  <2>1. /\ job[g].op = "ms_continue" /\ at'[g] = "ms_unlock" /\ at[g] = "ms_look"
        /\ IF S(g) \in msCanceled
           THEN msPortal' = msPortal \ {S(g)} /\ msLeg' = [msLeg EXCEPT ![S(g)] = NoConfiguration]
           ELSE UNCHANGED <<msPortal, msLeg>>
        /\ UNCHANGED <<msCanceled, marking, wiping, missed, msLock>>
        /\ \A h \in Handlers : h # g => at'[h] = at[h]
    BY <1>0, <1>9 DEF MsLook
  <2>2. S(g) \in Sessions /\ msLock[S(g)] = g
    BY <1>0, <2>1 DEF LockInv, MsOps
  <2>3. CASE s = S(g)
    BY <1>0, <2>1, <2>2, <2>3 DEF Accounted, LockInv
  <2>4. CASE s # S(g)
    <3>1. msLock[s] # g
      BY <1>0, <2>1, <2>4 DEF LockInv
    <3>2. s \in msCanceled /\ msLeg'[s] = msLeg[s] /\ msPortal' \subseteq msPortal
      BY <1>0, <2>1, <2>2, <2>4 DEF LockInv
    <3> QED BY <1>k, <2>1, <3>1, <3>2
  <2> QED BY <2>3, <2>4
<1>10. CASE MsUnlock(g)
  <2>1. /\ job[g].op = "ms_continue" /\ at[g] = "ms_unlock" /\ at'[g] # "ms_unlock"
        /\ msLock' = [msLock EXCEPT ![S(g)] = NoHandler]
        /\ UNCHANGED <<msCanceled, msPortal, msLeg, marking, wiping, missed>>
        /\ \A h \in Handlers : h # g => at'[h] = at[h]
    BY <1>0, <1>10 DEF MsUnlock
  <2>2. S(g) \in Sessions /\ msLock[S(g)] = g
    BY <1>0, <2>1 DEF LockInv, MsOps
  <2>3. CASE s = S(g)
    BY <1>0, <2>1, <2>2, <2>3 DEF Accounted
  <2>4. CASE s # S(g)
    <3>1. msLock'[s] = msLock[s]
      BY <1>0, <2>1, <2>2, <2>4 DEF LockInv
    <3>2. msLock[s] \in Handlers => at'[msLock[s]] = at[msLock[s]] \/ at'[msLock[s]] # "ms_unlock"
      BY <2>1
    <3> QED BY <1>0, <2>1, <3>1, <3>2 DEF Accounted
  <2> QED BY <2>3, <2>4
<1> QED BY <1>1, <1>2, <1>3, <1>4, <1>5, <1>6, <1>7, <1>8, <1>9, <1>10 DEF MsStep

\* What has nothing to do with a login, by a handler or from outside, leaves it all.
LEMMA SecretKept ==
  ASSUME SecretInv, job' = job,
         UNCHANGED <<msTable, msStage, msCanceled, msPortal, msLeg, msLock, marking, wiping, missed>>,
         \A g \in Handlers : at'[g] = at[g] \/ (at[g] \notin MsLabels \cup Holding
                                              /\ at'[g] \notin MsLabels \cup Holding)
  PROVE  SecretInv'
<1>1. LockInv'
  BY DEF SecretInv, LockInv, S
<1>2. \A s \in Sessions : Unstarted(s) => Unstarted(s)'
  BY DEF Unstarted, S, MsLabels
<1>3. \A s \in msCanceled : Accounted(s)'
  BY DEF SecretInv, LockInv, Accounted, Holding
<1> QED BY <1>1, <1>2, <1>3 DEF SecretInv

LEMMA SecretsAlways == Spec => []SecretInv
<1>1. Init => SecretInv
  <2> SUFFICES ASSUME Init PROVE SecretInv
    OBVIOUS
  <2>1. /\ \A g \in Handlers : at[g] \in {"arrived", "done"} /\ (job[g].op \in MsOps => S(g) \in Sessions)
    BY JobsAssumption DEF Init, S
  <2>2. LockInv
    BY <2>1, HandlersAssumption DEF Init, MsInit, LockInv, Holding
  <2> QED BY <2>1, <2>2 DEF Init, MsInit, SecretInv, Unstarted, Holding
<1>2. ControlInv /\ ConfigInv /\ SecretInv /\ [Next]_vars => SecretInv'
  <2> SUFFICES ASSUME ControlInv, ConfigInv, SecretInv, [Next]_vars PROVE SecretInv'
    OBVIOUS
  <2>1. ASSUME NEW g \in Handlers, HandlerStep(g)
        PROVE  SecretInv'
    <3>1. Steps(g)
      BY <2>1, HandlerWays, WaysAreLegal
    <3>2. CASE MsStep(g)
      BY <3>1, <3>2, LockStep, UnstartedStep, AccountedStep DEF SecretInv
    <3>3. CASE Away(g)
      <4>1. \A h \in Handlers : h # g => at'[h] = at[h]
        BY <3>1 DEF Steps, ControlInv, Labelled
      <4> QED BY <3>1, <3>3, <4>1, SecretKept DEF Steps, Away, msVars, MsLabels, Holding
    <3> QED BY <3>1, <3>2, <3>3 DEF Steps
  <2>2. CASE OutsideStep
    <3>1. UNCHANGED <<msTable, msStage, msCanceled, msPortal, msLeg, msLock, marking, wiping, missed>>
      BY <2>2 DEF OutsideStep, msVars, MsExpire
    <3>2. OutsideWays
      BY <2>2, OutsideHasWays DEF ControlInv
    <3>3. \A g \in Handlers : at'[g] = at[g] \/ {at[g], at'[g]} \subseteq {"watching", "listed", "arrived", "done"}
      BY <3>2 DEF OutsideWays, Strolls, ControlInv, Labelled
    <3> QED BY <3>1, <3>2, <3>3, SecretKept DEF OutsideWays, MsLabels, Holding
  <2>3. CASE Restart
    <3>1. /\ msTable' = {} /\ msPortal' = {} /\ msLeg' = [s \in Sessions |-> NoConfiguration]
          /\ msLock' = [s \in Sessions |-> NoHandler] /\ marking' = {} /\ wiping' = {}
          /\ UNCHANGED <<msStage, msCanceled, missed, job>>
          /\ \A g \in Handlers : at'[g] \in {"arrived", "done"}
      BY <2>3 DEF Restart, MsForget, LoadsAgain
    <3>2. LockInv'
      BY <3>1, HandlersAssumption DEF SecretInv, LockInv, Holding, S
    <3> QED BY <3>1, <3>2 DEF SecretInv, Unstarted, Accounted, Holding
  <2>4. CASE UNCHANGED vars
    BY <2>4, SecretKept DEF vars, handlerVars, msVars
  <2> QED BY <2>1, <2>2, <2>3, <2>4 DEF Next, AtRest
<1> QED BY <1>1, <1>2, PanelAlways, PTL DEF Spec

\* Nothing of a login that was canceled or has ended is kept, however its callbacks, its
\* cancels and its timer interleave, for any number of sessions: but in the gap between
\* the last look at the mark and the unlock.
THEOREM SecretsAreWiped == Spec => []SecretsWiped
BY SecretsAlways, SecretSafe, PTL
-------------------------------------------------------------------------------
\* How far the import of a batch has got: a flow that runs is for one of its tokens.
BatchInv ==
  /\ batch \in [Handlers -> Nat \X Nat]
  /\ \A g \in Handlers : batch[g][1] <= Len(Batch)
  /\ \A g \in Handlers : at[g] = "flow" => batch[g][1] # Len(Batch)

\* A grant that is under way to the list is one.
GrantInv ==
  /\ grant = [g \in Handlers |-> grant[g]]
  /\ \A g \in Handlers : at[g] = "persist" => grant[g] # NoGrant
  /\ \A g \in Handlers : job[g].op \in {"iam_complete", "bid_poll"} =>
       job[g].id \in IamSessions \cup DeviceSessions
  /\ \A g \in Handlers : job[g].op \in {"add", "api_key"} => job[g].id \notin Logins
  /\ spent \subseteq IamSessions \cup DeviceSessions

\* Every account of a list that came from a login came by the handler that took it.
ByTakers(accounts, who) ==
  \A a \in accounts :
    /\ a = [login |-> a.login, by |-> a.by, on |-> a.on]
    /\ a.login \in Logins => a.by \in Handlers /\ a.by = who[a.login]

\* Who took the account of a login: nobody else ever has, since the login is used up.
Taken(who) ==
  /\ \A l \in Logins : who[l] # NoHandler => l \in msCanceled \cup spent
  /\ \A g \in Handlers : grant[g] # NoGrant /\ grant[g].login \in Logins => who[grant[g].login] = g
  /\ ByTakers(mem.accounts, who)
  /\ Readable(disk) => ByTakers(disk.accounts, who)
  /\ \A g \in Handlers : at[g] \in Saving => ByTakers(snapshot[g].accounts, who)
\* What a step of g does to grants, to the logins that are used up, and to the list.
NoMore == msCanceled \cup spent
Keeps(g) ==
  UNCHANGED <<grant, spent>> /\ msCanceled \subseteq msCanceled' /\ mem'.accounts = mem.accounts
Takes(g) ==
  /\ \E l, c : /\ grant' = [grant EXCEPT ![g] = [login |-> l, conf |-> c]]
               /\ \/ l \notin Logins /\ NoMore \subseteq NoMore'
                  \/ l \in Logins \ NoMore /\ NoMore \cup {l} \subseteq NoMore'
  /\ spent' \subseteq spent \cup IamSessions \cup DeviceSessions
  /\ mem' = mem
Drops(g) ==
  grant' = [grant EXCEPT ![g] = NoGrant] /\ UNCHANGED <<spent, msCanceled, mem>>
Lists(g) ==
  /\ UNCHANGED <<grant, spent, msCanceled>>
  /\ \A a \in mem'.accounts :
       \/ a \in mem.accounts \/ \E b \in mem.accounts : a = [b EXCEPT !.on = FALSE]
       \/ a.login \notin Logins /\ a = [login |-> a.login, by |-> a.by, on |-> a.on]
       \/ at[g] = "persist" /\ a = Account(grant[g].login, g)

TakeWays(g) ==
  /\ at'[g] = "persist" => grant'[g] # NoGrant \/ (at[g] = "persist" /\ grant'[g] = grant[g])
  /\ at'[g] = "flow" => at[g] = "flow" \/ LoginStep(g)
  /\ LoginStep(g) \/ UNCHANGED loginVars
  /\ Keeps(g) \/ Takes(g) \/ Drops(g) \/ Lists(g)

\* What stands for no grant is not one.
NoGrantIsNone == \A l, c : NoGrant # [login |-> l, conf |-> c]

LEMMA MsTakes ==
  ASSUME NoGrantIsNone, ControlInv, LockInv, GrantInv, NEW g \in Handlers, MsStep(g),
         UNCHANGED <<loginVars, configVars>>
  PROVE  TakeWays(g)
<1>0. Labelled /\ grant = [h \in Handlers |-> grant[h]] /\ mem' = mem /\ spent' = spent
      /\ UNCHANGED loginVars
  BY DEF ControlInv, GrantInv, loginVars, configVars
<1> USE DEF Labelled, TakeWays, Keeps, Doing, Goto, Retire, Keep
<1>1. CASE MsStart(g) BY <1>0, <1>1 DEF MsStart
<1>2. CASE MsDetach(g) BY <1>0, <1>2 DEF MsDetach
<1>3. CASE MsMark(g) BY <1>0, <1>3 DEF MsMark, handlerVars
<1>4. CASE MsWipe(g)
  <2>1. at' = at \/ at' = [at EXCEPT ![g] = "done"]
    BY <1>4 DEF MsWipe
  <2> QED BY <1>0, <1>4, <2>1 DEF MsWipe
<1>5. CASE MsLookUp(g) BY <1>0, <1>5 DEF MsLookUp
<1>6. CASE MsContinue(g)
  <2>1. \E l \in Holding : at' = [at EXCEPT ![g] = l]
    BY <1>6 DEF MsContinue, Holding
  <2> QED BY <1>0, <1>6, <2>1 DEF MsContinue, Holding
<1>7. CASE MsDiscovered(g) BY <1>0, <1>7 DEF MsDiscovered
<1>8. CASE MsExchanged(g)
  <2>1. at'[g] = "ms_look" /\ msCanceled' = msCanceled \cup {S(g)} /\ job[g].op = "ms_continue"
    BY <1>0, <1>8 DEF MsExchanged
  <2>2. CASE grant' = grant
    BY <1>0, <2>1, <2>2
  <2>3. CASE S(g) \notin msCanceled
             /\ grant' = [grant EXCEPT ![g] = [login |-> S(g), conf |-> msLeg[S(g)]]]
    <3>1. S(g) \in Sessions /\ S(g) \notin spent
      BY <2>1, IdsAssumption DEF LockInv, MsOps, GrantInv
    <3>2. S(g) \in Logins \ NoMore /\ NoMore \cup {S(g)} \subseteq NoMore'
      BY <1>0, <2>1, <2>3, <3>1 DEF Logins, NoMore
    <3>3. Takes(g)
      BY <1>0, <2>3, <3>2 DEF Takes
    <3> QED BY <2>1, <3>3
  <2> QED BY <1>8, <2>2, <2>3 DEF MsExchanged
<1>9. CASE MsLook(g) BY <1>0, <1>9 DEF MsLook
<1>10. CASE MsUnlock(g) BY <1>0, <1>10 DEF MsUnlock
<1> QED BY <1>1, <1>2, <1>3, <1>4, <1>5, <1>6, <1>7, <1>8, <1>9, <1>10 DEF MsStep

LEMMA LoginTakes ==
  ASSUME NoGrantIsNone, ControlInv, BatchInv, GrantInv, msCanceled \subseteq Sessions,
         NEW g \in Handlers, LoginStep(g), UNCHANGED <<msVars, configVars>>
  PROVE  TakeWays(g)
<1>0. Labelled /\ grant = [h \in Handlers |-> grant[h]] /\ mem' = mem /\ msCanceled' = msCanceled
  BY DEF ControlInv, GrantInv, msVars, configVars
<1> USE DEF Labelled, TakeWays, Keeps, Doing, Goto
<1>r. ASSUME ReceiveToken(g), job[g].op \in {"iam_complete", "bid_poll"}
      PROVE  TakeWays(g)
  <2>1. /\ Login(g) \notin spent /\ spent' = spent \cup {Login(g)} /\ at'[g] = "forget"
        /\ grant' = [grant EXCEPT ![g] = [login |-> Login(g), conf |-> NoConf]]
    BY <1>0, <1>r DEF ReceiveToken, Granted
  <2>2. Login(g) \in IamSessions \cup DeviceSessions
    BY <1>r DEF GrantInv, Login
  <2>3. Login(g) \in Logins \ NoMore /\ NoMore \cup {Login(g)} \subseteq NoMore'
    BY <1>0, <2>1, <2>2, IdsAssumption DEF Logins, NoMore
  <2> QED BY <1>0, <2>1, <2>2, <2>3 DEF Takes
<1>1. CASE StartIam(g) BY <1>0, <1>1 DEF StartIam, Refused
<1>2. CASE StartBuilderId(g) BY <1>0, <1>2 DEF StartBuilderId, Refused
<1>3. CASE CleanUp(g) BY <1>0, <1>3 DEF CleanUp
<1>4. CASE LookUpLogin(g) BY <1>0, <1>4 DEF LookUpLogin, loginVars
<1>5. CASE Forget(g) BY <1>0, <1>5 DEF Forget
<1>6. CASE IamAnswer(g)
  <2>1. CASE ReceiveToken(g) BY <1>6, <1>r, <2>1 DEF IamAnswer
  <2> QED BY <1>0, <1>6, <2>1 DEF IamAnswer
<1>7. CASE PollAnswer(g)
  <2>1. CASE ReceiveToken(g) BY <1>7, <1>r, <2>1 DEF PollAnswer
  <2> QED BY <1>0, <1>7, <2>1 DEF PollAnswer
<1>8. CASE SlowDown(g) BY <1>0, <1>8 DEF SlowDown
<1>9. CASE SsoNext(g) BY <1>0, <1>9 DEF SsoNext, loginVars
<1>10. CASE SsoStep(g) BY <1>0, <1>10 DEF SsoStep, handlerVars
<1>11. CASE SsoFail(g) BY <1>0, <1>11 DEF SsoFail
<1>12. CASE SsoToken(g)
  <2>1. /\ grant' = [grant EXCEPT ![g] = [login |-> CurrentToken(g), conf |-> NoConf]]
        /\ spent' = spent /\ at[g] = "flow"
    BY <1>12 DEF SsoToken, Granted
  <2>2. CurrentToken(g) \notin Logins
    <3>1. batch[g][1] \in Nat /\ batch[g][1] <= Len(Batch) /\ batch[g][1] # Len(Batch)
      BY <2>1 DEF BatchInv
    <3>2. Len(Batch) \in Nat /\ DOMAIN Batch = 1..Len(Batch)
      BY IdsAssumption
    <3>3. batch[g][1] + 1 \in DOMAIN Batch
      BY <3>1, <3>2
    <3> QED BY <3>3, IdsAssumption DEF CurrentToken
  <2>3. grant'[g] # NoGrant
    BY <1>0, <2>1 DEF NoGrantIsNone
  <2> QED BY <1>0, <2>1, <2>2, <2>3 DEF Takes, NoMore
<1> QED BY <1>1, <1>2, <1>3, <1>4, <1>5, <1>6, <1>7, <1>8, <1>9, <1>10, <1>11, <1>12
        DEF LoginStep

LEMMA ChangeTakes ==
  ASSUME ControlInv, ConfigInv, NEW g \in Handlers,
         (SaveStep(g) \/ SessionStep(g) \/ LedgerStep(g)) /\ UNCHANGED <<msVars, loginVars>>
  PROVE  TakeWays(g)
<1>0. /\ Labelled /\ IsConfig(mem) /\ then[g] \notin {"persist", "flow"}
      /\ msCanceled' = msCanceled /\ spent' = spent /\ UNCHANGED loginVars
  BY DEF ControlInv, ConfigInv, Legal, Returns, msVars, loginVars
<1> USE DEF Labelled, TakeWays, Keeps, Doing, Goto, Call, configVars
<1>1. CASE Marshal(g) BY <1>0, <1>1 DEF Marshal
<1>2. CASE Truncate(g) BY <1>0, <1>2 DEF Truncate
<1>3. CASE Write(g) BY <1>0, <1>3 DEF Write
<1>4. CASE PointerWrite(g)
  <2>1. mem'.accounts = mem.accounts
    BY <1>0, <1>4, PointerEffect
  <2> QED BY <1>0, <1>4, <2>1 DEF PointerWrite
<1>5. CASE StoreToken(g)
  <2>1. mem'.accounts = mem.accounts
    BY <1>0, <1>5, StoreAccounts DEF StoreToken
  <2> QED BY <1>0, <1>5, <2>1 DEF StoreToken
<1>6. CASE SaveCalled(g) BY <1>0, <1>6 DEF SaveCalled
<1>7. CASE Enter(g) BY <1>0, <1>7 DEF Enter
<1>8. CASE LoginLocked(g) BY <1>0, <1>8 DEF LoginLocked
<1>9. CASE ComparePassword(g) BY <1>0, <1>9 DEF ComparePassword
<1>10. CASE RegisterLoginFail(g) BY <1>0, <1>10 DEF RegisterLoginFail
<1>11. CASE ClearLoginFails(g) BY <1>0, <1>11 DEF ClearLoginFails
<1>12. CASE Issue(g) BY <1>0, <1>12 DEF Issue
<1>13. CASE Logout(g) BY <1>0, <1>13 DEF Logout
<1>14. CASE CheckCurrent(g) BY <1>0, <1>14 DEF CheckCurrent
<1>15. CASE ReplacePassword(g)
  <2>1. mem'.accounts = mem.accounts
    BY <1>0, <1>15, StorePassword DEF ReplacePassword
  <2> QED BY <1>0, <1>15, <2>1 DEF ReplacePassword
<1>16. CASE ResetSessions(g) BY <1>0, <1>16 DEF ResetSessions
<1>17. CASE ValidateKey(g) BY <1>0, <1>17 DEF ValidateKey
<1>18. CASE CheckCredit(g) BY <1>0, <1>18 DEF CheckCredit
<1>19. CASE ServeTurn(g) BY <1>0, <1>19 DEF ServeTurn
<1>20. CASE Charge(g)
  <2>1. mem'.accounts = mem.accounts
    BY <1>0, <1>20, ChargeEffect
  <2> QED BY <1>0, <1>20, <2>1 DEF Charge
<1>21. CASE KeyAdmin(g)
  <2>1. mem'.accounts = mem.accounts
    BY <1>0, <1>21, KeyAdminEffect
  <2> QED BY <1>0, <1>21, <2>1 DEF KeyAdmin
<1> QED BY <1>1, <1>2, <1>3, <1>4, <1>5, <1>6, <1>7, <1>8, <1>9, <1>10, <1>11, <1>12, <1>13,
           <1>14, <1>15, <1>16, <1>17, <1>18, <1>19, <1>20, <1>21
        DEF SaveStep, SessionStep, LedgerStep

LEMMA FeedTakes ==
  ASSUME ControlInv, NEW g \in Handlers, FeedStep(g),
         UNCHANGED <<msVars, loginVars, configVars>>
  PROVE  TakeWays(g)
<1>0. /\ Labelled /\ then[g] \notin {"persist", "flow"} /\ mem' = mem
      /\ msCanceled' = msCanceled /\ spent' = spent /\ UNCHANGED loginVars
  BY DEF ControlInv, Legal, Returns, msVars, loginVars, configVars
<1> USE DEF Labelled, TakeWays, Keeps, Doing, Goto, Call
<1>1. CASE Publish(g) BY <1>0, <1>1 DEF Publish
<1>2. CASE Visit(g)
  <2>1. at' = [at EXCEPT ![g] = then[g]] \/ at' = [at EXCEPT ![g] = "publishing"]
    BY <1>2 DEF Visit
  <2> QED BY <1>0, <1>2, <2>1 DEF Visit
<1>3. CASE AddLog(g) BY <1>0, <1>3 DEF AddLog
<1>4. CASE ClearLogs(g) BY <1>0, <1>4 DEF ClearLogs
<1>5. CASE Deliver(g) BY <1>0, <1>5 DEF Deliver, handlerVars
<1>6. CASE Subscribe(g) BY <1>0, <1>6 DEF Subscribe
<1> QED BY <1>1, <1>2, <1>3, <1>4, <1>5, <1>6 DEF FeedStep

LEMMA AccountTakes ==
  ASSUME NoGrantIsNone, ControlInv, ConfigInv, GrantInv, NEW g \in Handlers, AccountStep(g)
  PROVE  TakeWays(g)
<1>0. Labelled /\ IsConfig(mem) /\ grant = [h \in Handlers |-> grant[h]]
  BY DEF ControlInv, ConfigInv, GrantInv
<1> USE DEF Labelled, TakeWays, Keeps, Doing, Goto, Call, msVars, loginVars, configVars
<1>1. CASE AddGiven(g)
  <2>1. CASE mem' = mem
    BY <1>0, <1>1, <2>1 DEF AddGiven
  <2>2. CASE Store(g, "accounts", WithAccount(mem.accounts, Account(job[g].id, NoHandler)))
    <3>1. mem'.accounts = WithAccount(mem.accounts, Account(job[g].id, NoHandler))
      BY <1>0, <2>2, StoreAccounts
    <3>2. job[g].id \notin Logins
      BY <1>1 DEF AddGiven, GrantInv
    <3>3. Lists(g)
      BY <1>1, <3>1, <3>2 DEF AddGiven, Lists, WithAccount, Account
    <3> QED BY <1>0, <1>1, <3>3 DEF AddGiven
  <2> QED BY <1>1, <2>1, <2>2 DEF AddGiven
<1>2. CASE ChangeAccount(g)
  <2>1. CASE AccountsOf(job[g].id) = {}
    BY <1>0, <1>2, <2>1 DEF ChangeAccount
  <2>2. CASE AccountsOf(job[g].id) # {}
    <3> DEFINE Others == mem.accounts \ AccountsOf(job[g].id)
    <3>1. Store(g, "accounts",
            IF job[g].op = "remove" THEN Others
            ELSE Others \cup {[a EXCEPT !.on = FALSE] : a \in AccountsOf(job[g].id)})
      BY <1>2, <2>2 DEF ChangeAccount
    <3>2. mem'.accounts = (IF job[g].op = "remove" THEN Others
            ELSE Others \cup {[a EXCEPT !.on = FALSE] : a \in AccountsOf(job[g].id)})
      <4> HIDE DEF Others
      <4> QED BY <1>0, <3>1, StoreAccounts
    <3>3. \A a \in mem'.accounts :
            a \in mem.accounts \/ \E b \in mem.accounts : a = [b EXCEPT !.on = FALSE]
      BY <3>2 DEF AccountsOf
    <3>4. UNCHANGED <<grant, loginVars, msCanceled>> /\ at'[g] = "save"
      BY <1>0, <1>2, <2>2 DEF ChangeAccount
    <3> QED BY <3>3, <3>4 DEF Lists
  <2> QED BY <2>1, <2>2
<1>3. CASE ImportApiKey(g)
  <2>1. CASE grant' = grant /\ at' = [at EXCEPT ![g] = "done"]
    BY <1>0, <1>3, <2>1 DEF ImportApiKey
  <2>2. CASE grant' = [grant EXCEPT ![g] = Granted(job[g].id)]
    <3>1. job[g].id \notin Logins
      BY <1>3 DEF ImportApiKey, GrantInv
    <3>2. Takes(g)
      BY <1>3, <2>2, <3>1 DEF ImportApiKey, Takes, Granted, NoMore
    <3>3. grant'[g] # NoGrant /\ UNCHANGED loginVars /\ at'[g] \in {"persist", "done"}
      BY <1>0, <1>3, <2>2 DEF ImportApiKey, Granted, NoGrantIsNone
    <3> QED BY <3>2, <3>3
  <2> QED BY <1>3, <2>1, <2>2 DEF ImportApiKey
<1>4. CASE Persist(g)
  <2>1. mem'.accounts = WithAccount(mem.accounts, Account(grant[g].login, g))
    BY <1>0, <1>4, StoreAccounts DEF Persist
  <2>2. UNCHANGED <<grant, loginVars, msCanceled>> /\ at'[g] = "save" /\ at[g] = "persist"
    BY <1>0, <1>4 DEF Persist
  <2> QED BY <2>1, <2>2 DEF Lists, WithAccount
<1>5. CASE AnnounceAccounts(g) BY <1>0, <1>5 DEF AnnounceAccounts, Drops
<1>6. CASE Prepare(g) BY <1>0, <1>6 DEF Prepare, Preparing
<1>7. CASE QuotaFetched(g)
  <2>1. mem'.accounts = mem.accounts
    BY <1>0, <1>7, AmendEffect DEF QuotaFetched
  <2> QED BY <1>0, <1>7, <2>1 DEF QuotaFetched
<1>8. CASE PublishQuota(g) BY <1>0, <1>8 DEF PublishQuota
<1>9. CASE StoreModels(g)
  <2>1. mem'.accounts = mem.accounts
    BY <1>0, <1>9, StoreModelList DEF StoreModels
  <2> QED BY <1>0, <1>9, <2>1 DEF StoreModels
<1>10. CASE SetSyncedModels(g) BY <1>0, <1>10 DEF SetSyncedModels
<1>11. CASE SetStrategy(g) BY <1>0, <1>11 DEF SetStrategy
<1>12. CASE Refreshed(g) BY <1>0, <1>12 DEF Refreshed, Preparing
<1>13. CASE StoreRefreshed(g)
  <2>1. mem'.accounts = mem.accounts
    BY <1>0, <1>13, AmendEffect DEF StoreRefreshed
  <2> QED BY <1>0, <1>13, <2>1 DEF StoreRefreshed, Preparing
<1>14. CASE ResolveArn(g)
  <2>1. mem'.accounts = mem.accounts
    BY <1>0, <1>14, AmendEffect DEF ResolveArn
  <2> QED BY <1>0, <1>14, <2>1 DEF ResolveArn, Preparing
<1>15. CASE UsageFetched(g) BY <1>0, <1>15 DEF UsageFetched, Preparing
<1> QED BY <1>1, <1>2, <1>3, <1>4, <1>5, <1>6, <1>7, <1>8, <1>9, <1>10, <1>11, <1>12, <1>13,
           <1>14, <1>15
        DEF AccountStep

LEMMA TakeHandler ==
  ASSUME NoGrantIsNone, ControlInv, ConfigInv, SecretInv, BatchInv, GrantInv,
         NEW g \in Handlers, HandlerStep(g)
  PROVE  TakeWays(g)
BY MsTakes, LoginTakes, ChangeTakes, FeedTakes, AccountTakes DEF HandlerStep, SecretInv

LEMMA BatchStep ==
  ASSUME ControlInv, BatchInv, NEW g \in Handlers, LoginStep(g)
  PROVE  BatchInv'
<1>0. Labelled
  BY DEF ControlInv
<1>1. Len(Batch) \in Nat
  BY IdsAssumption
<1> USE DEF Labelled, Doing, Goto, BatchInv
<1>2. ASSUME batch' = batch, \E l : at' = [at EXCEPT ![g] = l] /\ l # "flow"
      PROVE  BatchInv'
  BY <1>0, <1>2
<1>3. CASE StartIam(g) BY <1>0, <1>3 DEF StartIam, Refused
<1>4. CASE StartBuilderId(g) BY <1>0, <1>4 DEF StartBuilderId, Refused
<1>5. CASE CleanUp(g) BY <1>0, <1>5 DEF CleanUp
<1>6. CASE LookUpLogin(g) BY <1>0, <1>6 DEF LookUpLogin, loginVars
<1>7. CASE Forget(g) BY <1>0, <1>7 DEF Forget
<1>8. CASE IamAnswer(g) BY <1>0, <1>8 DEF IamAnswer, ReceiveToken
<1>9. CASE PollAnswer(g)
  <2>1. \E l \in {"done", "slower", "forget"} : at' = [at EXCEPT ![g] = l]
    BY <1>9 DEF PollAnswer, ReceiveToken
  <2> QED BY <1>2, <1>9, <2>1 DEF PollAnswer
<1>10. CASE SlowDown(g) BY <1>0, <1>10 DEF SlowDown
<1>11. CASE SsoNext(g) BY <1>0, <1>11 DEF SsoNext, loginVars
<1>12. CASE SsoStep(g)
  <2>1. PICK to \in 2..Len(SsoSteps) : batch' = [batch EXCEPT ![g][2] = to]
    BY <1>12 DEF SsoStep
  <2>2. to \in Nat
    BY <2>1 DEF SsoSteps
  <2>3. batch[g] \in Nat \X Nat /\ [batch[g] EXCEPT ![2] = to] = <<batch[g][1], to>>
    OBVIOUS
  <2>4. batch' = [batch EXCEPT ![g] = <<batch[g][1], to>>]
    BY <2>1, <2>3
  <2> QED BY <1>12, <2>2, <2>4 DEF SsoStep, handlerVars
<1>13. CASE SsoFail(g) \/ SsoToken(g)
  <2>1. /\ batch' = [batch EXCEPT ![g] = <<@[1] + 1, 1>>] /\ at[g] = "flow"
        /\ \E l \in {"next", "persist"} : at' = [at EXCEPT ![g] = l]
    BY <1>13 DEF SsoFail, SsoToken
  <2>2. batch[g][1] + 1 \in Nat /\ batch[g][1] + 1 <= Len(Batch)
    BY <1>1, <2>1
  <2>3. batch' \in [Handlers -> Nat \X Nat] /\ \A h \in Handlers : batch'[h][1] <= Len(Batch)
    BY <2>1, <2>2
  <2>4. \A h \in Handlers : at'[h] = "flow" => at[h] = "flow" /\ batch'[h] = batch[h]
    BY <1>0, <2>1
  <2> QED BY <2>3, <2>4
<1> QED BY <1>3, <1>4, <1>5, <1>6, <1>7, <1>8, <1>9, <1>10, <1>11, <1>12, <1>13 DEF LoginStep

\* Nothing has been taken anew, and what was saved or read was there before.
LEMMA TakenKept ==
  ASSUME NEW who \in [Logins -> Handlers \cup {NoHandler}], Taken(who),
         NoMore \subseteq NoMore',
         \A g \in Handlers : grant'[g] = grant[g] \/ grant'[g] = NoGrant \/ grant'[g].login \notin Logins,
         ByTakers(mem'.accounts, who),
         Readable(disk') => ByTakers(disk'.accounts, who),
         \A g \in Handlers : at'[g] \in Saving => ByTakers(snapshot'[g].accounts, who)
  PROVE  Taken(who)'
BY DEF Taken, NoMore, Readable, ByTakers

TakeInv ==
  /\ BatchInv /\ GrantInv
  /\ \E who \in [Logins -> Handlers \cup {NoHandler}] : Taken(who)

LEMMA TakeSafe == TakeInv => OneAccountPerLogin
<1> SUFFICES ASSUME TakeInv, NEW login \in Logins
             PROVE  Cardinality(Takers(login)) <= 1
  BY DEF OneAccountPerLogin
<1>1. PICK who \in [Logins -> Handlers \cup {NoHandler}] : Taken(who)
  BY DEF TakeInv
<1>2. Takers(login) \subseteq {who[login]}
  BY <1>1 DEF Takers, Taken, ByTakers
<1>3. IsFiniteSet({who[login]}) /\ Cardinality({who[login]}) = 1
  BY FS_Singleton
<1> QED BY <1>2, <1>3, FS_Subset, FS_CardinalityType

LEMMA TakenStep ==
  ASSUME NoGrantIsNone, ControlInv, ConfigInv, GrantInv, NEW g \in Handlers, Ways(g), TakeWays(g),
         NEW who \in [Logins -> Handlers \cup {NoHandler}], Taken(who)
  PROVE  \E new \in [Logins -> Handlers \cup {NoHandler}] : Taken(new)'
<1>0. /\ grant = [h \in Handlers |-> grant[h]] /\ IsConfig(mem) /\ Labelled
      /\ ByTakers(mem.accounts, who)
      /\ Readable(disk) => ByTakers(disk.accounts, who)
      /\ \A h \in Handlers : at[h] \in Saving => ByTakers(snapshot[h].accounts, who)
  BY DEF GrantInv, ConfigInv, ControlInv, Taken
<1>1. /\ disk' \in {disk, Empty, Torn} \/ (at[g] = "write" /\ disk' = snapshot[g])
      /\ \A h \in Handlers : at'[h] \in Saving =>
           \/ at[h] \in Saving /\ snapshot'[h] = snapshot[h]
           \/ snapshot'[h] = mem
  BY FileWays
<1>2. ASSUME NEW new \in [Logins -> Handlers \cup {NoHandler}],
             ByTakers(mem.accounts, new),
             Readable(disk) => ByTakers(disk.accounts, new),
             \A h \in Handlers : at[h] \in Saving => ByTakers(snapshot[h].accounts, new)
      PROVE  /\ Readable(disk') => ByTakers(disk'.accounts, new)
             /\ \A h \in Handlers : at'[h] \in Saving => ByTakers(snapshot'[h].accounts, new)
  BY <1>1, <1>2 DEF Readable, Saving
<1>3. CASE Keeps(g)
  BY <1>0, <1>2, <1>3, TakenKept DEF Keeps, NoMore
<1>4. CASE Drops(g)
  <2>1. \A h \in Handlers : grant'[h] = grant[h] \/ grant'[h] = NoGrant
    BY <1>0, <1>4 DEF Drops
  <2>2. ByTakers(mem'.accounts, who) /\ NoMore \subseteq NoMore'
    BY <1>0, <1>4 DEF Drops, NoMore
  <2> QED BY <1>0, <1>2, <2>1, <2>2, TakenKept
<1>5. CASE Lists(g)
  <2>1. \A a \in mem'.accounts : /\ a = [login |-> a.login, by |-> a.by, on |-> a.on]
                                 /\ a.login \in Logins => a.by \in Handlers /\ a.by = who[a.login]
    <3> SUFFICES ASSUME NEW a \in mem'.accounts
                 PROVE  /\ a = [login |-> a.login, by |-> a.by, on |-> a.on]
                        /\ a.login \in Logins => a.by \in Handlers /\ a.by = who[a.login]
      OBVIOUS
    <3>1. CASE a \in mem.accounts
      BY <1>0, <3>1 DEF ByTakers
    <3>2. ASSUME NEW b \in mem.accounts, a = [b EXCEPT !.on = FALSE]
          PROVE  /\ a = [login |-> a.login, by |-> a.by, on |-> a.on]
                 /\ a.login \in Logins => a.by \in Handlers /\ a.by = who[a.login]
      <4>1. /\ b = [login |-> b.login, by |-> b.by, on |-> b.on]
            /\ b.login \in Logins => b.by \in Handlers /\ b.by = who[b.login]
        BY <1>0 DEF ByTakers
      <4>2. a = [login |-> b.login, by |-> b.by, on |-> FALSE]
        BY <3>2, <4>1
      <4> QED BY <4>1, <4>2
    <3>3. CASE a.login \notin Logins /\ a = [login |-> a.login, by |-> a.by, on |-> a.on]
      BY <3>3
    <3>4. CASE at[g] = "persist" /\ a = Account(grant[g].login, g)
      <4>1. grant[g] # NoGrant
        BY <3>4 DEF GrantInv
      <4> QED BY <3>4, <4>1 DEF Account, Taken
    <3> QED BY <1>5, <3>1, <3>2, <3>3, <3>4 DEF Lists
  <2>2. ByTakers(mem'.accounts, who)
    BY <2>1 DEF ByTakers
  <2> QED BY <1>0, <1>2, <1>5, <2>2, TakenKept DEF Lists, NoMore
<1>6. CASE Takes(g)
  <2>1. PICK l, c : /\ grant' = [grant EXCEPT ![g] = [login |-> l, conf |-> c]]
                    /\ \/ l \notin Logins /\ NoMore \subseteq NoMore'
                       \/ l \in Logins \ NoMore /\ NoMore \cup {l} \subseteq NoMore'
    BY <1>6 DEF Takes
  <2>2. mem' = mem
    BY <1>6 DEF Takes
  <2>3. CASE l \notin Logins
    <3>1. \A h \in Handlers : grant'[h] = grant[h] \/ grant'[h].login \notin Logins
      BY <1>0, <2>1, <2>3
    <3> QED BY <1>0, <1>2, <2>1, <2>2, <2>3, <3>1, TakenKept
  <2>4. CASE l \in Logins
    <3> DEFINE new == [who EXCEPT ![l] = g]
    <3>1. who[l] = NoHandler /\ NoMore \cup {l} \subseteq NoMore'
      BY <2>1, <2>4 DEF Taken, NoMore
    <3>2. /\ new \in [Logins -> Handlers \cup {NoHandler}] /\ new[l] = g
          /\ \A k \in Logins : k # l => new[k] = who[k]
      BY <2>4
    <3>3. ASSUME NEW accounts, ByTakers(accounts, who)
          PROVE  ByTakers(accounts, new)
      BY <3>1, <3>2, <3>3, HandlersAssumption DEF ByTakers
    <3> HIDE DEF new
    <3>4. /\ ByTakers(mem'.accounts, new)
          /\ Readable(disk') => ByTakers(disk'.accounts, new)
          /\ \A h \in Handlers : at'[h] \in Saving => ByTakers(snapshot'[h].accounts, new)
      BY <1>0, <1>2, <2>2, <3>2, <3>3
    <3>5. \A k \in Logins : new[k] # NoHandler => k \in NoMore'
      BY <3>1, <3>2 DEF Taken, NoMore
    <3>6. \A h \in Handlers : grant'[h] # NoGrant /\ grant'[h].login \in Logins =>
            new[grant'[h].login] = h
      <4> SUFFICES ASSUME NEW h \in Handlers, grant'[h] # NoGrant, grant'[h].login \in Logins
                   PROVE  new[grant'[h].login] = h
        OBVIOUS
      <4>1. CASE h = g
        BY <1>0, <2>1, <3>2, <4>1
      <4>2. CASE h # g
        <5>1. grant'[h] = grant[h]
          BY <1>0, <2>1, <4>2
        <5>2. who[grant[h].login] = h
          BY <5>1 DEF Taken
        <5> QED BY <3>1, <3>2, <5>1, <5>2, HandlersAssumption
      <4> QED BY <4>1, <4>2
    <3>7. Taken(new)'
      BY <3>4, <3>5, <3>6 DEF Taken, ByTakers, NoMore, Readable
    <3> QED BY <3>2, <3>7
  <2> QED BY <2>3, <2>4
<1> QED BY <1>3, <1>4, <1>5, <1>6 DEF TakeWays
LEMMA TakeOutside ==
  ASSUME ControlInv, ConfigInv, TakeInv, OutsideStep
  PROVE  TakeInv'
<1>1. OutsideWays
  BY OutsideHasWays DEF ControlInv
<1>2. UNCHANGED <<job, mem, disk, snapshot>>
  BY <1>1 DEF OutsideWays, configVars
<1>3. \A g \in Handlers : at'[g] = at[g] \/ {at[g], at'[g]} \subseteq {"watching", "listed", "arrived", "done"}
  BY <1>1 DEF OutsideWays, Strolls, ControlInv, Labelled
<1>4. UNCHANGED <<grant, batch, spent, msCanceled>>
  BY DEF OutsideStep, LoadList, Unsubscribe, NextTurn, TryAgain, Crash, ThrottlePasses, MsExpire,
         LoginExpires, MainReturns, loginVars, msVars, handlerVars
<1>5. BatchInv' /\ GrantInv'
  BY <1>2, <1>3, <1>4 DEF TakeInv, BatchInv, GrantInv
<1>6. \A g \in Handlers : at'[g] \in Saving => at[g] \in Saving
  BY <1>3 DEF Saving
<1>7. PICK who \in [Logins -> Handlers \cup {NoHandler}] : Taken(who)
  BY DEF TakeInv
<1>8. Taken(who)'
  BY <1>2, <1>4, <1>6, <1>7 DEF Taken, ByTakers, Readable
<1> QED BY <1>5, <1>8 DEF TakeInv

LEMMA TakeRestart ==
  ASSUME ConfigInv, TakeInv, Restart
  PROVE  TakeInv'
<1>1. /\ Readable(disk) /\ disk' = mem' /\ mem'.accounts = disk.accounts /\ job' = job
      /\ \A g \in Handlers : at'[g] \in {"arrived", "done"}
  BY RestartEffect
<1>2. /\ grant' = [g \in Handlers |-> NoGrant]
      /\ UNCHANGED <<batch, spent, msCanceled>>
  BY DEF Restart, LoadsAgain, LoginForget, MsForget
<1>3. BatchInv' /\ GrantInv'
  BY <1>1, <1>2 DEF TakeInv, BatchInv, GrantInv
<1>4. PICK who \in [Logins -> Handlers \cup {NoHandler}] : Taken(who)
  BY DEF TakeInv
<1>5. Taken(who)'
  BY <1>1, <1>2, <1>4 DEF Taken, ByTakers, Saving
<1> QED BY <1>3, <1>5 DEF TakeInv

LEMMA TakeStart == Init => TakeInv
<1> SUFFICES ASSUME Init PROVE TakeInv
  OBVIOUS
<1>1. /\ mem = FirstConfig /\ disk = FirstConfig /\ spent = {}
      /\ grant = [g \in Handlers |-> NoGrant] /\ batch = [g \in Handlers |-> <<0, 1>>]
      /\ \A g \in Handlers : at[g] \in {"arrived", "done"}
  BY DEF Init, ConfigInit, LoginInit
<1>2. Len(Batch) \in Nat
  BY IdsAssumption
<1>3. BatchInv
  BY <1>1, <1>2 DEF BatchInv
<1>4. GrantInv
  BY <1>1, JobsAssumption, IdsAssumption DEF Init, GrantInv
<1> DEFINE nobody == [l \in Logins |-> NoHandler]
<1>5. ByTakers(FirstConfig.accounts, nobody)
  BY IdsAssumption DEF ByTakers
<1>6. Taken(nobody)
  BY <1>1, <1>5 DEF Taken, Saving
<1> QED BY <1>3, <1>4, <1>6 DEF TakeInv

LEMMA TakeNext ==
  ASSUME NoGrantIsNone, ControlInv, ConfigInv, SecretInv, TakeInv, NEW g \in Handlers,
         HandlerStep(g)
  PROVE  TakeInv'
<1>1. Ways(g) /\ Steps(g) /\ TakeWays(g) /\ Labelled
  BY HandlerWays, WaysAreLegal, TakeHandler DEF TakeInv, ControlInv
<1>2. PICK who \in [Logins -> Handlers \cup {NoHandler}] : Taken(who)
  BY DEF TakeInv
<1>3. \E new \in [Logins -> Handlers \cup {NoHandler}] : Taken(new)'
  BY <1>1, <1>2, TakenStep DEF TakeInv
<1>4. BatchInv'
  <2>1. CASE LoginStep(g)
    BY <2>1, BatchStep DEF TakeInv
  <2>2. CASE UNCHANGED loginVars /\ (at'[g] = "flow" => at[g] = "flow")
    BY <1>1, <2>2 DEF TakeInv, BatchInv, loginVars, Steps, Labelled
  <2> QED BY <1>1, <2>1, <2>2 DEF TakeWays
<1>5. GrantInv'
  <2>1. /\ job' = job /\ \A h \in Handlers : h # g => at'[h] = at[h]
        /\ grant = [h \in Handlers |-> grant[h]]
    BY <1>1 DEF Steps, Labelled, TakeInv, GrantInv
  <2>2. /\ grant' = [h \in Handlers |-> grant'[h]]
        /\ \A h \in Handlers : h # g => grant'[h] = grant[h]
        /\ spent' \subseteq spent \cup IamSessions \cup DeviceSessions
    BY <1>1, <2>1 DEF TakeWays, Keeps, Takes, Drops, Lists
  <2> QED BY <1>1, <2>1, <2>2 DEF TakeWays, TakeInv, GrantInv
<1> QED BY <1>3, <1>4, <1>5 DEF TakeInv

LEMMA TakesAlways ==
  ASSUME NoGrantIsNone
  PROVE  Spec => []TakeInv
<1>1. ControlInv /\ ConfigInv /\ SecretInv /\ TakeInv /\ [Next]_vars => TakeInv'
  <2> SUFFICES ASSUME ControlInv, ConfigInv, SecretInv, TakeInv, [Next]_vars PROVE TakeInv'
    OBVIOUS
  <2>1. CASE \E g \in Handlers : HandlerStep(g) BY <2>1, TakeNext
  <2>2. CASE OutsideStep BY <2>2, TakeOutside
  <2>3. CASE Restart BY <2>3, TakeRestart
  <2>4. CASE UNCHANGED vars
    <3>1. UNCHANGED <<job, at, grant, mem, disk, snapshot, batch, spent, msCanceled>>
      BY <2>4 DEF vars, handlerVars, configVars, loginVars, msVars
    <3>2. PICK who \in [Logins -> Handlers \cup {NoHandler}] : Taken(who)
      BY DEF TakeInv
    <3>3. Taken(who)'
      BY <3>1, <3>2 DEF Taken, ByTakers, Readable
    <3>4. BatchInv' /\ GrantInv'
      BY <3>1 DEF TakeInv, BatchInv, GrantInv
    <3> QED BY <3>3, <3>4 DEF TakeInv
  <2> QED BY <2>1, <2>2, <2>3, <2>4 DEF Next, AtRest
<1> QED BY <1>1, TakeStart, SecretsAlways, PanelAlways, PTL DEF Spec

\* However often a callback is pasted, polled or canceled at the same time, and over
\* crashes and restarts, only one handler ever has an account from it: for any handlers
\* and sessions, and however many tokens are imported meanwhile.
THEOREM LoginsGiveOneAccount ==
  ASSUME NoGrantIsNone
  PROVE  Spec => []OneAccountPerLogin
BY TakesAlways, TakeSafe, PTL
-------------------------------------------------------------------------------
\* The types of each part of the panel, as far as they are not in the invariants above.
Tokens == {Batch[i] : i \in DOMAIN Batch}
MsTypes ==
  /\ msTable \subseteq Sessions /\ IsFiniteSet(msTable) /\ Cardinality(msTable) <= MaxSessions
  /\ msStage \in [Sessions -> {"none", "portal", "provider"}]
LoginTypes ==
  /\ iamTable \subseteq IamSessions /\ deviceTable \subseteq DeviceSessions
  /\ failures \in [Handlers -> Seq(Tokens)]
  /\ \A g \in Handlers : Len(failures[g]) <= batch[g][1]
SessionTypes == sessions \subseteq Cookies /\ fails \in 0..MaxLoginFails - 1
FeedTypes ==
  /\ logged \in 0..LogCap
  /\ \E events : channel \in [Handlers -> Seq(events)]
  /\ \A g \in Handlers : Len(channel[g]) <= ChannelCap
TypeInv ==
  /\ up \in BOOLEAN /\ job \in Scenarios
  /\ MsTypes /\ LoginTypes /\ SessionTypes /\ FeedTypes

LEMMA MsTypesKept ==
  ASSUME TypeInv, NEW g \in Handlers, MsStep(g)
  PROVE  MsTypes' /\ up' = up
<1>0. /\ job[g].op \in MsOps => S(g) \in Sessions
      /\ msStage \in [Sessions -> {"none", "portal", "provider"}]
  BY JobsAssumption DEF TypeInv, MsTypes, S
<1>1. ASSUME msTable' \subseteq msTable,
             msStage' \in {msStage, [msStage EXCEPT ![S(g)] = "provider"]}, up' = up
      PROVE  MsTypes' /\ up' = up
  <2>1. IsFiniteSet(msTable') /\ Cardinality(msTable') <= Cardinality(msTable)
    BY <1>1, FS_Subset DEF TypeInv, MsTypes
  <2>2. Cardinality(msTable') \in Nat /\ Cardinality(msTable) \in Nat
    BY <2>1, FS_CardinalityType DEF TypeInv, MsTypes
  <2> QED BY <1>0, <1>1, <2>1, <2>2, SessionsAssumption DEF TypeInv, MsTypes
<1>2. CASE MsStart(g)
  <2> DEFINE rest == msTable \ (msTable \cap msExpired)
  <2>1. CASE Room(rest) /\ msTable' = rest \cup {S(g)} /\ msStage' = [msStage EXCEPT ![S(g)] = "portal"]
    <3>1. S(g) \in Sessions /\ up' = up
      BY <1>0, <1>2 DEF MsStart, Doing, MsOps
    <3>2. IsFiniteSet(rest) /\ Cardinality(rest) < MaxSessions /\ rest \subseteq Sessions
      BY <2>1, FS_Subset DEF TypeInv, MsTypes, Room
    <3> HIDE DEF rest
    <3>3. /\ IsFiniteSet(rest \cup {S(g)}) /\ Cardinality(rest) \in Nat
          /\ Cardinality(rest \cup {S(g)}) \in {Cardinality(rest), Cardinality(rest) + 1}
      BY <3>2, FS_AddElement, FS_CardinalityType
    <3>4. Cardinality(rest \cup {S(g)}) <= MaxSessions
      BY <3>2, <3>3, SessionsAssumption
    <3> QED BY <1>0, <2>1, <3>1, <3>2, <3>3, <3>4 DEF MsTypes
  <2>2. CASE msTable' \subseteq msTable /\ msStage' = msStage
    BY <1>1, <1>2, <2>2 DEF MsStart
  <2> QED BY <1>2, <2>1, <2>2 DEF MsStart
<1>3. CASE MsDetach(g) BY <1>1, <1>3 DEF MsDetach
<1>4. CASE MsMark(g) BY <1>1, <1>4 DEF MsMark, handlerVars
<1>5. CASE MsWipe(g) BY <1>1, <1>5 DEF MsWipe
<1>6. CASE MsLookUp(g) BY <1>1, <1>6 DEF MsLookUp
<1>7. CASE MsContinue(g) BY <1>1, <1>7 DEF MsContinue, Retire, Keep
<1>8. CASE MsDiscovered(g) BY <1>1, <1>8 DEF MsDiscovered, Retire, Keep
<1>9. CASE MsExchanged(g) BY <1>1, <1>9 DEF MsExchanged, Retire
<1>10. CASE MsLook(g) BY <1>1, <1>10 DEF MsLook
<1>11. CASE MsUnlock(g) BY <1>1, <1>11 DEF MsUnlock
<1> QED BY <1>2, <1>3, <1>4, <1>5, <1>6, <1>7, <1>8, <1>9, <1>10, <1>11 DEF MsStep

LEMMA LoginTypesKept ==
  ASSUME TypeInv, BatchInv, NEW g \in Handlers, LoginStep(g)
  PROVE  LoginTypes' /\ up' = up
<1>0. /\ job[g].op = "iam_start" => Login(g) \in IamSessions
      /\ job[g].op = "bid_start" => Login(g) \in DeviceSessions
  BY JobsAssumption DEF TypeInv, Login
<1>1. ASSUME iamTable' \subseteq IamSessions, deviceTable' \subseteq DeviceSessions,
             UNCHANGED <<batch, failures, up>>
      PROVE  LoginTypes' /\ up' = up
  BY <1>1 DEF TypeInv, LoginTypes
<1>t. iamTable \subseteq IamSessions /\ deviceTable \subseteq DeviceSessions
  BY DEF TypeInv, LoginTypes
<1> USE DEF Doing
<1>2. CASE StartIam(g) BY <1>0, <1>1, <1>t, <1>2 DEF StartIam, Refused
<1>3. CASE StartBuilderId(g) BY <1>0, <1>1, <1>t, <1>3 DEF StartBuilderId, Refused
<1>4. CASE CleanUp(g) BY <1>1, <1>t, <1>4 DEF CleanUp
<1>5. CASE LookUpLogin(g) BY <1>1, <1>t, <1>5 DEF LookUpLogin, loginVars
<1>6. CASE Forget(g) BY <1>1, <1>t, <1>6 DEF Forget
<1>7. CASE IamAnswer(g) BY <1>1, <1>t, <1>7 DEF IamAnswer
<1>8. CASE PollAnswer(g) BY <1>1, <1>t, <1>8 DEF PollAnswer
<1>9. CASE SlowDown(g) BY <1>1, <1>t, <1>9 DEF SlowDown
<1>10. CASE SsoNext(g) BY <1>1, <1>t, <1>10 DEF SsoNext, loginVars
<1>11. CASE SsoStep(g)
  <2>1. PICK to : batch' = [batch EXCEPT ![g][2] = to]
    BY <1>11 DEF SsoStep
  <2>2. batch' = [batch EXCEPT ![g] = [batch[g] EXCEPT ![2] = to]]
    BY <2>1
  <2>3. batch[g] \in Nat \X Nat /\ [batch[g] EXCEPT ![2] = to] = <<batch[g][1], to>>
    BY DEF BatchInv
  <2>4. \A h \in Handlers : batch'[h][1] = batch[h][1]
    BY <2>2, <2>3 DEF BatchInv
  <2> QED BY <1>11, <2>4 DEF SsoStep, handlerVars, TypeInv, LoginTypes
<1>12. CASE SsoFail(g)
  <2>1. /\ failures' = [failures EXCEPT ![g] = Append(@, CurrentToken(g))]
        /\ batch' = [batch EXCEPT ![g] = <<@[1] + 1, 1>>] /\ at[g] = "flow"
        /\ UNCHANGED <<iamTable, deviceTable, up>>
    BY <1>12 DEF SsoFail
  <2>2. CurrentToken(g) \in Tokens
    <3>1. batch[g][1] \in Nat /\ batch[g][1] <= Len(Batch) /\ batch[g][1] # Len(Batch)
      BY <2>1 DEF BatchInv
    <3>2. Len(Batch) \in Nat /\ DOMAIN Batch = 1..Len(Batch)
      BY IdsAssumption
    <3>3. batch[g][1] + 1 \in DOMAIN Batch
      BY <3>1, <3>2
    <3> QED BY <3>3 DEF CurrentToken, Tokens
  <2>3. /\ failures \in [Handlers -> Seq(Tokens)] /\ \A h \in Handlers : Len(failures[h]) <= batch[h][1]
    BY DEF TypeInv, LoginTypes
  <2>4. /\ Append(failures[g], CurrentToken(g)) \in Seq(Tokens)
        /\ Len(Append(failures[g], CurrentToken(g))) = Len(failures[g]) + 1
    BY <2>2, <2>3
  <2>5. batch'[g][1] = batch[g][1] + 1 /\ batch[g][1] \in Nat /\ Len(failures[g]) \in Nat
        /\ \A h \in Handlers : h # g => batch'[h] = batch[h]
    BY <2>1, <2>3 DEF BatchInv
  <2>6. failures' \in [Handlers -> Seq(Tokens)]
    BY <2>1, <2>3, <2>4
  <2>7. \A h \in Handlers : Len(failures'[h]) <= batch'[h][1]
    BY <2>1, <2>3, <2>4, <2>5
  <2> QED BY <1>t, <2>1, <2>6, <2>7 DEF LoginTypes
<1>13. CASE SsoToken(g)
  <2>1. /\ batch' = [batch EXCEPT ![g] = <<@[1] + 1, 1>>]
        /\ UNCHANGED <<iamTable, deviceTable, failures, up>>
    BY <1>13 DEF SsoToken
  <2>2. \A h \in Handlers : /\ batch[h][1] \in Nat /\ batch'[h][1] >= batch[h][1] /\ batch'[h][1] \in Nat
                            /\ Len(failures[h]) \in Nat
    BY <2>1 DEF BatchInv, TypeInv, LoginTypes
  <2> QED BY <2>1, <2>2 DEF TypeInv, LoginTypes
<1> QED BY <1>2, <1>3, <1>4, <1>5, <1>6, <1>7, <1>8, <1>9, <1>10, <1>11, <1>12, <1>13
        DEF LoginStep

LEMMA SessionTypesKept ==
  ASSUME TypeInv, NEW g \in Handlers, SessionStep(g)
  PROVE  SessionTypes' /\ up' = up
<1>0. sessions \subseteq Cookies /\ fails \in 0..MaxLoginFails - 1 /\ g \in Cookies
  BY DEF TypeInv, SessionTypes, Cookies
<1>1. CASE UNCHANGED sessionVars /\ up' = up
  BY <1>0, <1>1 DEF sessionVars, SessionTypes
<1>2. CASE Enter(g) \/ LoginLocked(g) \/ CheckCurrent(g) \/ ReplacePassword(g)
  BY <1>1, <1>2 DEF Enter, LoginLocked, CheckCurrent, ReplacePassword
<1>3. CASE ComparePassword(g) BY <1>0, <1>3 DEF ComparePassword, SessionTypes
<1>4. CASE RegisterLoginFail(g)
  <2>1. /\ fails' = IF fails + 1 >= MaxLoginFails THEN 0 ELSE fails + 1
        /\ UNCHANGED <<sessions, up>>
    BY <1>4 DEF RegisterLoginFail
  <2> QED BY <1>0, <2>1, SessionsLimits DEF SessionTypes
<1>5. CASE ClearLoginFails(g) BY <1>0, <1>5, SessionsLimits DEF ClearLoginFails, SessionTypes
<1>6. CASE Issue(g) BY <1>0, <1>6 DEF Issue, SessionTypes
<1>7. CASE Logout(g) BY <1>0, <1>7 DEF Logout, SessionTypes
<1>8. CASE ResetSessions(g) BY <1>0, <1>8 DEF ResetSessions, SessionTypes
<1> QED BY <1>2, <1>3, <1>4, <1>5, <1>6, <1>7, <1>8 DEF SessionStep

LEMMA FeedTypesKept ==
  ASSUME TypeInv, NEW g \in Handlers, FeedStep(g)
  PROVE  FeedTypes' /\ up' = up
<1>0. logged \in 0..LogCap /\ \A h \in Handlers : Len(channel[h]) <= ChannelCap
  BY DEF TypeInv, FeedTypes
<1>1. PICK events : channel \in [Handlers -> Seq(events)]
  BY DEF TypeInv, FeedTypes
<1>2. ASSUME UNCHANGED <<channel, up>>, logged' \in 0..LogCap
      PROVE  FeedTypes' /\ up' = up
  BY <1>0, <1>1, <1>2 DEF FeedTypes
<1>3. CASE Publish(g) BY <1>0, <1>2, <1>3 DEF Publish
<1>4. CASE Visit(g)
  <2>1. PICK w \in toVisit[g] :
          IF Len(channel[w]) < ChannelCap
          THEN channel' = [channel EXCEPT ![w] = Append(@, event[g])]
          ELSE channel' = channel
    BY <1>4 DEF Visit
  <2>2. logged' = logged /\ up' = up
    BY <1>4 DEF Visit
  <2>3. CASE channel' = channel
    BY <1>0, <1>2, <2>2, <2>3
  <2>4. CASE Len(channel[w]) < ChannelCap /\ channel' = [channel EXCEPT ![w] = Append(@, event[g])]
    <3> DEFINE more == events \cup {event[g]}
    <3>1. channel \in [Handlers -> Seq(more)]
      BY <1>1
    <3>2. event[g] \in more
      OBVIOUS
    <3> HIDE DEF more
    <3>3. CASE w \in Handlers
      <4>1. channel[w] \in Seq(more) /\ Len(channel[w]) \in Nat
        BY <3>1, <3>3
      <4>2. /\ Append(channel[w], event[g]) \in Seq(more)
            /\ Len(Append(channel[w], event[g])) = Len(channel[w]) + 1
        BY <3>2, <4>1
      <4>3. channel' \in [Handlers -> Seq(more)]
        BY <2>4, <3>1, <4>2
      <4>4. Len(channel[w]) + 1 <= ChannelCap
        BY <2>4, <4>1, FeedLimits
      <4>5. \A h \in Handlers : Len(channel'[h]) <= ChannelCap
        BY <1>0, <2>4, <3>1, <4>2, <4>4
      <4> QED BY <1>0, <2>2, <4>3, <4>5 DEF FeedTypes
    <3>4. CASE w \notin Handlers
      <4>1. channel' = channel
        BY <2>4, <3>1, <3>4
      <4> QED BY <2>3, <4>1
    <3> QED BY <3>3, <3>4
  <2> QED BY <2>1, <2>3, <2>4
<1>5. CASE AddLog(g)
  <2>1. logged' = (IF logged < LogCap THEN logged + 1 ELSE LogCap) /\ UNCHANGED <<channel, up>>
    BY <1>5 DEF AddLog
  <2>2. logged' \in 0..LogCap
    BY <1>0, <2>1, FeedLimits
  <2> QED BY <1>2, <2>1, <2>2
<1>6. CASE ClearLogs(g)
  <2>1. 0 \in 0..LogCap
    BY FeedLimits
  <2> QED BY <1>2, <1>6, <2>1 DEF ClearLogs
<1>7. CASE Deliver(g)
  <2>1. channel' = [channel EXCEPT ![g] = Tail(@)] /\ channel[g] # <<>> /\ UNCHANGED <<logged, up>>
    BY <1>7 DEF Deliver, handlerVars
  <2>2. channel[g] \in Seq(events)
    BY <1>1
  <2>3. Tail(channel[g]) \in Seq(events) /\ Len(Tail(channel[g])) = Len(channel[g]) - 1
        /\ Len(channel[g]) \in Nat
    BY <2>1, <2>2
  <2>4. channel' \in [Handlers -> Seq(events)]
    BY <1>1, <2>1, <2>3
  <2>5. \A h \in Handlers : Len(channel'[h]) <= ChannelCap
    BY <1>0, <1>1, <2>1, <2>3, FeedLimits
  <2> QED BY <1>0, <2>1, <2>4, <2>5 DEF FeedTypes
<1>8. CASE Subscribe(g) BY <1>0, <1>2, <1>8 DEF Subscribe
<1> QED BY <1>3, <1>4, <1>5, <1>6, <1>7, <1>8 DEF FeedStep

\* The steps on configuration, keys and accounts leave the rest as it is, but for an event.
LEMMA OthersKept ==
  ASSUME NEW g \in Handlers, SaveStep(g) \/ LedgerStep(g) \/ AccountStep(g)
  PROVE  /\ up' = up
         /\ AccountStep(g) => UNCHANGED <<msVars, loginVars, sessionVars, channel, logged>>
         /\ LedgerStep(g) => UNCHANGED <<channel, logged>>
<1>1. SaveStep(g) => up' = up
  BY DEF SaveStep, Marshal, Truncate, Write, PointerWrite, StoreToken, SaveCalled
<1>2. LedgerStep(g) => UNCHANGED <<up, channel, logged>>
  BY DEF LedgerStep, ValidateKey, CheckCredit, ServeTurn, Charge, KeyAdmin, Announce, feedVars
<1>3. AccountStep(g) => UNCHANGED <<up, msVars, loginVars, sessionVars, channel, logged>>
  BY DEF AccountStep, AddGiven, ChangeAccount, ImportApiKey, Persist, AnnounceAccounts, Prepare,
         Refreshed, StoreRefreshed, ResolveArn, UsageFetched, QuotaFetched, PublishQuota, Preparing,
         StoreModels, SetSyncedModels, SetStrategy, Announce, feedVars
<1> QED BY <1>1, <1>2, <1>3

LEMMA TypesHandler ==
  ASSUME ControlInv, BatchInv, TypeInv, NEW g \in Handlers, HandlerStep(g)
  PROVE  TypeInv'
<1>0. job' = job
  BY HandlerWays, WaysAreLegal DEF Steps
<1>m. UNCHANGED msVars => MsTypes'
  BY DEF msVars, TypeInv, MsTypes
<1>l. UNCHANGED loginVars => LoginTypes'
  BY DEF loginVars, TypeInv, LoginTypes
<1>s. UNCHANGED sessionVars => SessionTypes'
  BY DEF sessionVars, TypeInv, SessionTypes
<1>f. UNCHANGED <<channel, logged>> => FeedTypes'
  BY DEF TypeInv, FeedTypes
<1>v. UNCHANGED feedVars => UNCHANGED <<channel, logged>>
  BY DEF feedVars
<1>1. CASE MsStep(g) /\ UNCHANGED <<loginVars, sessionVars, feedVars>>
  BY <1>0, <1>1, <1>l, <1>s, <1>f, <1>v, MsTypesKept DEF TypeInv
<1>2. CASE LoginStep(g) /\ UNCHANGED <<msVars, sessionVars, feedVars>>
  BY <1>0, <1>2, <1>m, <1>s, <1>f, <1>v, LoginTypesKept DEF TypeInv
<1>3. CASE SaveStep(g) /\ UNCHANGED <<msVars, loginVars, sessionVars, feedVars>>
  BY <1>0, <1>3, <1>m, <1>l, <1>s, <1>f, <1>v, OthersKept DEF TypeInv
<1>4. CASE SessionStep(g) /\ UNCHANGED <<msVars, loginVars, feedVars>>
  BY <1>0, <1>4, <1>m, <1>l, <1>f, <1>v, SessionTypesKept DEF TypeInv
<1>5. CASE LedgerStep(g) /\ UNCHANGED <<msVars, loginVars, sessionVars>>
  BY <1>0, <1>5, <1>m, <1>l, <1>s, <1>f, OthersKept DEF TypeInv
<1>6. CASE FeedStep(g) /\ UNCHANGED <<msVars, loginVars, sessionVars>>
  BY <1>0, <1>6, <1>m, <1>l, <1>s, FeedTypesKept DEF TypeInv
<1>7. CASE AccountStep(g)
  BY <1>0, <1>7, <1>m, <1>l, <1>s, <1>f, OthersKept DEF TypeInv
<1> QED BY <1>1, <1>2, <1>3, <1>4, <1>5, <1>6, <1>7 DEF HandlerStep

LEMMA TypesOutside ==
  ASSUME ControlInv, TypeInv, OutsideStep
  PROVE  TypeInv'
<1>1. job' = job
  BY OutsideHasWays DEF ControlInv, OutsideWays
<1>2. up' \in BOOLEAN
  BY DEF OutsideStep, LoadList, Unsubscribe, NextTurn, TryAgain, Crash, ThrottlePasses, MsExpire,
         LoginExpires, MainReturns, handlerVars, TypeInv
<1>3. UNCHANGED <<msTable, msStage, iamTable, deviceTable, failures, batch, sessions, channel, logged>>
  BY DEF OutsideStep, LoadList, Unsubscribe, NextTurn, TryAgain, Crash, ThrottlePasses, MsExpire,
         LoginExpires, MainReturns, msVars, loginVars, sessionVars, feedVars
<1>4. fails' \in {fails, 0}
  BY DEF OutsideStep, LoadList, Unsubscribe, NextTurn, TryAgain, Crash, ThrottlePasses, MsExpire,
         LoginExpires, MainReturns, sessionVars
<1> QED BY <1>1, <1>2, <1>3, <1>4, SessionsLimits
        DEF TypeInv, MsTypes, LoginTypes, SessionTypes, FeedTypes

LEMMA TypesRestart ==
  ASSUME TypeInv, Restart
  PROVE  TypeInv'
<1>1. /\ msTable' = {} /\ UNCHANGED <<msStage, failures, batch, job>> /\ up' = TRUE
      /\ iamTable' = {} /\ deviceTable' = {} /\ sessions' = {} /\ fails' = 0
      /\ channel' = [w \in Handlers |-> <<>>] /\ logged' = 0
  BY DEF Restart, LoadsAgain, MsForget, LoginForget, ForgetSessions, ForgetFeed
<1>2. MsTypes'
  BY <1>1, FS_EmptySet, SessionsAssumption DEF TypeInv, MsTypes
<1>3. channel' \in [Handlers -> Seq({})] /\ \A g \in Handlers : Len(channel'[g]) <= ChannelCap
  BY <1>1, FeedLimits
<1> QED BY <1>1, <1>2, <1>3, SessionsLimits, FeedLimits
        DEF TypeInv, LoginTypes, SessionTypes, FeedTypes

LEMMA TypesStart == Init => TypeInv
<1> SUFFICES ASSUME Init PROVE TypeInv
  OBVIOUS
<1>1. MsTypes
  BY OpenAssumption, FS_EmptySet DEF Init, MsInit, MsTypes
<1>2. LoginTypes
  BY DEF Init, LoginInit, LoginTypes
<1>3. SessionTypes
  BY SessionsLimits DEF Init, SessionInit, SessionTypes, Cookies
<1>4. channel \in [Handlers -> Seq({})] /\ \A g \in Handlers : Len(channel[g]) <= ChannelCap
  BY FeedLimits DEF Init, FeedInit
<1>5. FeedTypes
  BY <1>4, FeedLimits DEF Init, FeedInit, FeedTypes
<1> QED BY <1>1, <1>2, <1>3, <1>5 DEF Init, TypeInv

\* Types are as declared; among them the limits of the session table, the log ring and the
\* subscribers' channels, for any MaxSessions, LogCap and ChannelCap.
THEOREM TypeCorrectPanel ==
  ASSUME NoGrantIsNone
  PROVE  Spec => []TypeOK
<1>1. ControlInv /\ BatchInv /\ TypeInv /\ [Next]_vars => TypeInv'
  <2> SUFFICES ASSUME ControlInv, BatchInv, TypeInv, [Next]_vars PROVE TypeInv'
    OBVIOUS
  <2>1. CASE \E g \in Handlers : HandlerStep(g) BY <2>1, TypesHandler
  <2>2. CASE OutsideStep \/ Restart BY <2>2, TypesOutside, TypesRestart
  <2>3. CASE UNCHANGED vars
    BY <2>3 DEF vars, handlerVars, msVars, loginVars, sessionVars, feedVars, TypeInv, MsTypes,
                LoginTypes, SessionTypes, FeedTypes
  <2> QED BY <2>1, <2>2, <2>3 DEF Next, AtRest
<1>2. ConfigInv /\ SecretInv /\ BatchInv /\ GrantInv /\ TypeInv => TypeOK
  BY DEF ConfigInv, IsConfig, SecretInv, LockInv, BatchInv, GrantInv, TypeInv, MsTypes, LoginTypes,
         SessionTypes, FeedTypes, TypeOK
<1>3. TakeInv => BatchInv /\ GrantInv
  BY DEF TakeInv
<1> QED BY <1>1, <1>2, <1>3, TypesStart, TakesAlways, SecretsAlways, PanelAlways, PTL DEF Spec
================================================================================
