------------------------------ MODULE AdminPanel ------------------------------
(***************************************************************************)
(* The admin side of the Kiro CLI pool proxy as one system: the sign-ins,  *)
(* the sessions of the panel, the accounts and keys of the configuration,  *)
(* the file it is saved to and the event stream, with the handlers that    *)
(* go from one to the other (proxy/admin.go, proxy/auth_login.go,          *)
(* proxy/admin_extra.go), the loops of main.go and the end of the process. *)
(***************************************************************************)
EXTENDS MicrosoftLogin, DeviceLogins, AdminSessions, ApiKeyLedger

CONSTANTS
  Scenarios,         \* the jobs of the handlers, one function per initial state
  OpenSessions, OpenLogins,
  FirstConfig        \* the configuration the process has loaded

\* A job on a session names one of its kind.
ASSUME JobsAssumption ==
  \A j \in Scenarios : \A g \in Handlers :
    /\ j[g].op \in MsOps => j[g].id \in Sessions
    /\ j[g].op \in {"iam_start", "iam_complete"} => j[g].id \in IamSessions
    /\ j[g].op \in {"bid_start", "bid_poll"} => j[g].id \in DeviceSessions

\* What a login can be: the sessions have random IDs, which no account has that came
\* another way.
Logins == Sessions \cup IamSessions \cup DeviceSessions
ASSUME IdsAssumption ==
  /\ Sessions \cap (IamSessions \cup DeviceSessions) = {}
  /\ \A j \in Scenarios : \A g \in Handlers :
       j[g].op \in {"add", "api_key"} => j[g].id \notin Logins
  /\ Batch \in Seq({Batch[i] : i \in DOMAIN Batch})
  /\ \A i \in DOMAIN Batch : Batch[i] \notin Logins
  /\ \A a \in FirstConfig.accounts :
       a = [login |-> a.login, by |-> a.by, on |-> a.on] /\ a.login \notin Logins

\* What Load gives: the fields of a configuration, and a state for every key.
IsConfig(c) ==
  /\ c = [accounts |-> c.accounts, keys |-> c.keys, password |-> c.password,
          models |-> c.models, version |-> c.version]
  /\ c.keys \in [Keys -> KeyStates]
  /\ c.version \in Nat

ASSUME ConfigAssumption == IsConfig(FirstConfig)

\* The logins under way from the start are ones there is room for.
ASSUME OpenAssumption ==
  /\ OpenSessions \subseteq Sessions
  /\ IsFiniteSet(OpenSessions) /\ Cardinality(OpenSessions) <= MaxSessions

VARIABLE overlay     \* the model list requests are resolved with (rewrite.go)

vars == <<handlerVars, msVars, loginVars, configVars, sessionVars, feedVars, overlay>>

\* An account as the list holds it: by its ID if it was given one, else by the handler
\* that drew one at random.
Account(login, by) == [login |-> login, by |-> by, on |-> TRUE]
SameId(a, b) == a.login = b.login /\ a.by = b.by

\* Config.AddAccount: replace the account with this ID, or append.
WithAccount(accounts, new) == {a \in accounts : ~SameId(a, new)} \cup {new}
AccountsOf(id) == {a \in mem.accounts : a.login = id}

\* apiAddAccount and apiImportLocal; the body or the local database may be unusable.
AddGiven(g) ==
  /\ up /\ job[g].op = "add" /\ at[g] = "routed"
  /\ \/ /\ Store(g, "accounts", WithAccount(mem.accounts, Account(job[g].id, NoHandler)))
        /\ Call(g, "save", "announce")
     \/ /\ Goto(g, "done")
        /\ UNCHANGED <<configVars, then>>
  /\ UNCHANGED <<up, job, grant, msVars, loginVars, sessionVars, feedVars, overlay>>

\* Mutant of ChangeAccount: a disabled account is saved and not announced.
ChangeQuietly(g) ==
  /\ up /\ job[g].op \in {"remove", "disable"} /\ at[g] = "routed"
  /\ IF AccountsOf(job[g].id) = {}
     THEN /\ Goto(g, "done")
          /\ UNCHANGED <<configVars, then>>
     ELSE /\ Store(g, "accounts", mem.accounts \ AccountsOf(job[g].id))
          /\ Call(g, "save", "done")
  /\ UNCHANGED <<up, job, grant, msVars, loginVars, sessionVars, feedVars, overlay>>

\* accounts/<id> DELETE and PATCH; an account that is not there is answered at once.
ChangeAccount(g) ==
  /\ up /\ job[g].op \in {"remove", "disable"} /\ at[g] = "routed"
  /\ IF AccountsOf(job[g].id) = {}
     THEN /\ Goto(g, "done")
          /\ UNCHANGED <<configVars, then>>
     ELSE /\ Store(g, "accounts",
               IF job[g].op = "remove"
               THEN mem.accounts \ AccountsOf(job[g].id)
               ELSE (mem.accounts \ AccountsOf(job[g].id))
                      \cup {[a EXCEPT !.on = FALSE] : a \in AccountsOf(job[g].id)})
          /\ Call(g, "save", "announce")
  /\ UNCHANGED <<up, job, grant, msVars, loginVars, sessionVars, feedVars, overlay>>

\* apiImportApiKey: upstream tells the region of the key, or no region takes it.
ImportApiKey(g) ==
  /\ Doing(g, "api_key", "routed")
  /\ \/ /\ grant' = [grant EXCEPT ![g] = Granted(job[g].id)]
        /\ Goto(g, "persist")
     \/ /\ Goto(g, "done")
        /\ UNCHANGED grant
  /\ UNCHANGED <<up, job, then, msVars, loginVars, configVars, sessionVars, feedVars, overlay>>

\* persistLoginAccount: a new ID (the profile ARN is resolved if it can be), then into
\* the list, enabled.
Persist(g) ==
  /\ up /\ at[g] = "persist"
  /\ Store(g, "accounts", WithAccount(mem.accounts, Account(grant[g].login, g)))
  /\ Call(g, "save", "announce")
  /\ UNCHANGED <<up, job, grant, msVars, loginVars, sessionVars, feedVars, overlay>>

\* publishAccounts: a copy of the list, then the hub; a batch goes on with its next token.
AnnounceAccounts(g) ==
  /\ up /\ at[g] = "announce"
  /\ Announce(g, AccountList(mem.accounts))
  /\ grant' = [grant EXCEPT ![g] = NoGrant]
  /\ Call(g, "publish", IF job[g].op = "sso_import" THEN "next" ELSE "done")
  /\ UNCHANGED <<up, job, msVars, loginVars, configVars, sessionVars, overlay>>

\* prepareAccount (for apiTestAccount, apiRefreshQuota and apiSyncModels): look the account
\* up, and refresh its token or resolve its profile ARN if they are due.  (apiSyncModels
\* goes through the accounts that are on; this is the one it ends with.)
Prepared(g) ==
  IF job[g].op = "sync" THEN {a \in mem.accounts : a.on} ELSE AccountsOf(job[g].id)

Preparing(g, label) == up /\ job[g].op \in {"test", "quota", "sync"} /\ at[g] = label

\* What the caller does with an account that is prepared and saved.
AfterPrepare(g) == IF job[g].op = "sync" THEN "models" ELSE "usage"

Prepare(g) ==
  /\ Preparing(g, "routed")
  /\ \/ Prepared(g) = {} /\ Goto(g, "done") /\ UNCHANGED then
     \/ /\ Prepared(g) # {}
        /\ \/ Goto(g, "refreshing") /\ UNCHANGED then
           \/ Goto(g, "resolving") /\ UNCHANGED then
           \/ Call(g, "save", AfterPrepare(g))
  /\ UNCHANGED <<up, job, grant, msVars, loginVars, configVars, sessionVars, feedVars, overlay>>

\* A setter that looks an account up by its ID: nothing is stored in one that is gone, nor
\* if the values are the ones it has.
SetInAccount(g) ==
  /\ LockFree
  /\ \/ UNCHANGED <<mem, stamp>>
     \/ /\ job[g].op = "sync" \/ Prepared(g) # {}
        /\ mem' = [mem EXCEPT !.version = @ + 1]
        /\ stamp' = [stamp EXCEPT ![g] = mem.version + 1]
  /\ UNCHANGED <<disk, snapshot, acked, unsaved, straddled>>

\* RefreshToken comes back, from its own call or from that of another caller it waited
\* for, with a token, an error or a panic that net/http catches.
Refreshed(g) ==
  /\ Preparing(g, "refreshing")
  /\ Goto(g, "refreshed") \/ Goto(g, "done")
  /\ UNCHANGED <<up, job, then, grant, msVars, loginVars, configVars, sessionVars, feedVars,
                 overlay>>

\* UpdateAccountToken; the ARN may be missing as well.
StoreRefreshed(g) ==
  /\ Preparing(g, "refreshed")
  /\ SetInAccount(g)
  /\ \/ Goto(g, "resolving") /\ UNCHANGED then
     \/ Call(g, "save", AfterPrepare(g))
  /\ UNCHANGED <<up, job, grant, msVars, loginVars, sessionVars, feedVars, overlay>>

\* ResolveProfileArn and SetAccountProfileArn.
ResolveArn(g) ==
  /\ Preparing(g, "resolving")
  /\ \/ SetInAccount(g) /\ Call(g, "save", AfterPrepare(g))
     \/ /\ Goto(g, "done")
        /\ UNCHANGED <<configVars, then>>
  /\ UNCHANGED <<up, job, grant, msVars, loginVars, sessionVars, feedVars, overlay>>

\* FetchUsageLimits comes back: all that apiTestAccount wants to know.
UsageFetched(g) ==
  /\ Preparing(g, "usage")
  /\ Goto(g, "done") \/ (job[g].op = "quota" /\ Goto(g, "fetched"))
  /\ UNCHANGED <<up, job, then, grant, msVars, loginVars, configVars, sessionVars, feedVars,
                 overlay>>

\* The rest of apiRefreshQuota: a quota or plan upstream has told is stored (UpdateQuota)
\* and saved ...
QuotaFetched(g) ==
  /\ Doing(g, "quota", "fetched")
  /\ \/ SetInAccount(g) /\ Call(g, "save", "publish_quota")
     \/ /\ Goto(g, "publish_quota")
        /\ UNCHANGED <<configVars, then>>
  /\ UNCHANGED <<up, job, grant, msVars, loginVars, sessionVars, feedVars, overlay>>

\* ... and the account's view is published either way.
PublishQuota(g) ==
  /\ Doing(g, "quota", "publish_quota")
  /\ Announce(g, Quota)
  /\ Call(g, "publish", "done")
  /\ UNCHANGED <<up, job, grant, msVars, loginVars, configVars, sessionVars, overlay>>

\* The rest of apiSyncModels: the list upstream advertises goes into the configuration
\* and the file first, then to where requests are resolved.
StoreModels(g) ==
  /\ Doing(g, "sync", "models")
  /\ \/ /\ Store(g, "models", job[g].id)
        /\ Call(g, "save", "overlay")
     \/ /\ Goto(g, "done")
        /\ UNCHANGED <<configVars, then>>
  /\ UNCHANGED <<up, job, grant, msVars, loginVars, sessionVars, feedVars, overlay>>

SetSyncedModels(g) ==
  /\ Doing(g, "sync", "overlay")
  /\ overlay' = job[g].id
  /\ Goto(g, "done")
  /\ UNCHANGED <<up, job, then, grant, msVars, loginVars, configVars, sessionVars, feedVars>>

\* settings PATCH: saves whether or not the strategy it names is known.
SetStrategy(g) ==
  /\ Doing(g, "strategy", "routed")
  /\ LockFree
  /\ Call(g, "save", "done")
  /\ UNCHANGED <<up, job, grant, msVars, loginVars, configVars, sessionVars, feedVars, overlay>>

AccountStep(g) ==
  \/ AddGiven(g) \/ ChangeAccount(g) \/ ImportApiKey(g) \/ Persist(g) \/ AnnounceAccounts(g)
  \/ Prepare(g) \/ Refreshed(g) \/ StoreRefreshed(g) \/ ResolveArn(g) \/ UsageFetched(g)
  \/ QuotaFetched(g) \/ PublishQuota(g) \/ StoreModels(g) \/ SetSyncedModels(g) \/ SetStrategy(g)

-------------------------------------------------------------------------------
\* What the goroutine of g does next, by the part of the system it is in.
HandlerStep(g) ==
  \/ MsStep(g) /\ UNCHANGED <<loginVars, configVars, sessionVars, feedVars, overlay>>
  \/ LoginStep(g) /\ UNCHANGED <<msVars, configVars, sessionVars, feedVars, overlay>>
  \/ SaveStep(g) /\ UNCHANGED <<msVars, loginVars, sessionVars, feedVars, overlay>>
  \/ SessionStep(g) /\ UNCHANGED <<msVars, loginVars, feedVars, overlay>>
  \/ LedgerStep(g) /\ UNCHANGED <<msVars, loginVars, sessionVars, overlay>>
  \/ FeedStep(g) /\ UNCHANGED <<msVars, loginVars, configVars, sessionVars, overlay>>
  \/ AccountStep(g)

\* What clients do, and what time does.
OutsideStep ==
  \/ \E g \in Handlers :
       \/ /\ LoadList(g, mem.accounts)
          /\ UNCHANGED <<msVars, loginVars, configVars, sessionVars, overlay>>
       \/ Unsubscribe(g) /\ UNCHANGED <<msVars, loginVars, configVars, sessionVars, overlay>>
       \/ NextTurn(g) /\ UNCHANGED <<msVars, loginVars, sessionVars, overlay>>
       \/ TryAgain(g) /\ UNCHANGED <<msVars, loginVars, feedVars, overlay>>
       \/ Crash(g) /\ UNCHANGED <<msVars, loginVars, sessionVars, feedVars, overlay>>
  \/ ThrottlePasses /\ UNCHANGED <<msVars, loginVars, feedVars, overlay>>
  \/ /\ \E s \in Sessions : MsExpire(s)
     /\ UNCHANGED <<loginVars, configVars, sessionVars, feedVars, overlay>>
  \/ /\ \E s \in started : LoginExpires(s)
     /\ UNCHANGED <<msVars, configVars, sessionVars, feedVars, overlay>>
  \/ MainReturns /\ UNCHANGED <<msVars, loginVars, sessionVars, feedVars, overlay>>

\* The program is started again: what was in memory only is lost, and requests are
\* resolved with the models of the file.
Restart ==
  /\ LoadsAgain
  /\ MsForget /\ LoginForget /\ ForgetSessions /\ ForgetFeed
  /\ overlay' = disk.models

\* Every handler has returned or waits for the outside, or the program has ended.
AtRest ==
  /\ \/ ~up
     \/ \A g \in Handlers : Done(g) \/ job[g].op \in {"watch", "ms_timer"}
  /\ UNCHANGED vars

Next == (\E g \in Handlers : HandlerStep(g)) \/ OutsideStep \/ Restart \/ AtRest

Init ==
  /\ job \in Scenarios
  /\ up = TRUE
  /\ at = [g \in Handlers |-> IF job[g].op = "none" THEN "done" ELSE "arrived"]
  /\ then = [g \in Handlers |-> "done"]
  /\ grant = [g \in Handlers |-> NoGrant]
  /\ overlay = FirstConfig.models
  /\ MsInit(OpenSessions) /\ LoginInit(OpenLogins) /\ ConfigInit(FirstConfig)
  /\ SessionInit /\ FeedInit

\* Calls upstream with http.DefaultClient, which has no timeout, and the wait for another
\* caller's refresh: a token refresh (of the background refresher too), the usage limits of
\* an account, and the same question when a key is imported.
AwaitsUpstream(g) ==
  \/ at[g] \in {"refreshing", "usage"}
  \/ job[g].op = "api_key" /\ at[g] = "routed"
  \/ job[g].op = "renew" /\ at[g] = "arrived"

\* Every goroutine that can go on does: the runtime schedules it, and each of its other
\* calls upstream ends with an answer or a timeout (30 s; two minutes for a device poll).
Spec ==
  Init /\ [][Next]_vars /\ \A g \in Handlers : WF_vars(~AwaitsUpstream(g) /\ HandlerStep(g))
-------------------------------------------------------------------------------
TypeOK ==
  /\ up \in BOOLEAN
  /\ msTable \subseteq Sessions /\ Cardinality(msTable) <= MaxSessions
  /\ msStage \in [Sessions -> {"none", "portal", "provider"}]
  /\ msLock \in [Sessions -> Handlers \cup {NoHandler}]
  /\ iamTable \subseteq IamSessions /\ deviceTable \subseteq DeviceSessions
  /\ spent \subseteq IamSessions \cup DeviceSessions
  /\ \A g \in Handlers : batch[g][1] <= Len(Batch) /\ Len(failures[g]) <= batch[g][1]
  /\ mem.keys \in [Keys -> KeyStates]
  /\ sessions \subseteq Cookies
  /\ fails \in 0..MaxLoginFails - 1
  /\ logged \in 0..LogCap
  /\ \A g \in Handlers : Len(channel[g]) <= ChannelCap

\* A login gives one account: however often a callback is pasted, polled or canceled at
\* the same time, at most one handler has ever taken an account from it.
Takers(login) ==
  {g \in Handlers : grant[g] # NoGrant /\ grant[g].login = login}
    \cup {a.by : a \in {b \in mem.accounts : b.login = login}}
OneAccountPerLogin ==
  \A login \in Logins : Cardinality(Takers(login)) <= 1

\* A panel that has loaded the list since it subscribed and has missed no event has been
\* sent the account list as it is, once nobody is on the way from a change of the list to
\* its publication.  (Not necessarily as the last one: two publications may overtake each
\* other.)
ListUnderWay(g) ==
  /\ job[g].op \in {"add", "remove", "disable", "api_key", "ms_continue", "iam_complete",
                   "bid_poll", "sso_import"}
  /\ at[g] \in {"save", "truncate", "write", "announce", "publish", "publishing"}
CurrentListWasSent ==
  (\A g \in Handlers : ~ListUnderWay(g)) =>
    \A w \in hub \ skipped : at[w] = "listed" => mem.accounts \in offered[w]

\* Every request of the panel is answered, but for one that waits upstream without a
\* timeout: no handler waits forever for a session's lock, the configuration or the hub,
\* though another waits upstream for ever.  (A subscriber stays as long as its client does.)
HandlersReturn ==
  \A g \in Handlers :
    (up /\ InProgress(g) /\ job[g].op # "watch") ~> (~up \/ Done(g) \/ AwaitsUpstream(g))
===============================================================================
