# A formal model of the workstation's proxies

This directory holds TLA+ specifications of the programs under `src/projects`,
the TLC configurations that check them on small instances, and theorems about
them with proofs for TLAPS. `PROJECT.json` relates every definition to the lines
of source it stands for.

The repository is a backup of a workstation. Its own programs are three Go
services; around them stand scripts, unit files, editor plugins and notes. In
the paths below, **KP** is `src/projects/kiro-cli-pool-proxy` (KiroPool), **FP**
is `src/projects/freebuff-proxy` and **FU** is `src/projects/freebuff-unified`.

## 1. Inventory

### KiroPool

A reverse proxy that puts many Kiro accounts behind one endpoint. Each client
request runs in a goroutine of the HTTP server; an operator works through an
admin API in the same process; a ticker refreshes tokens.

| Component | State | Operations | Correct when |
|---|---|---|---|
| Account pool (`pool/pool.go`) | cooldown table, sticky table, rotation index | `AccountForSticky`, `GetNext`, `SetSticky`, `RecordSuccess`, `RecordFailure`, `Reload`, `RetryLimit` | failing accounts rest, conversations keep their account, usable accounts are found |
| Request handlers (`proxy/server.go`, `proxy/anthropic.go` `dispatchKiro`, `proxy/openai.go`) | locals of each request: excluded accounts, attempts, pointer to an account | select, refresh, forward, classify, retry, stream, count | every request ends; no account is tried twice; a turn is counted once |
| Configuration store (`config/config.go`) | account list, API keys, settings, a JSON file | look up, add, remove, enable, update token, quota, usage; keys and credit; `Save`, `Load` | one entry per ID; updates reach the account they are about; what was reported as done is in the file |
| Token refresh (`auth/refresh.go`) | in-flight table | `RefreshToken`, background ticker | refreshes of one account do not overlap; the token lands in its account |
| Admin API (`proxy/admin.go`, `admin_extra.go`) | sessions, login attempts | login, password, account and key management, quota poll, model sync, event stream | changes reach pool, file and panels; lockout and rotation hold; every request returns |
| Event streams (`proxy/eventstream.go`, `streamAnthropic`, `streamOpenAI`) | buffers, totals, open content block | parse frames, meter, translate | framing does not depend on chunking; blocks open and close in order |
| Login flows (`auth/microsoft_sso.go`, `iam_sso.go`, `builderid.go`, `sso_token.go`) | session tables with timers | start, continue, poll, cancel, expire | a code is exchanged once; a cancelled session leaves no secret |
| Events and logs (`proxy/events.go`, `logs.go`) | subscribers' buffers, ring of entries | subscribe, publish, add, snapshot | a slow reader blocks nobody; order is kept |
| Upstream queries, guard, rewriting, local import, `main.go` | none, or a cache | pure functions and one-shot I/O | |

Interactions: the handlers share the pool and the account list. The pool locks
its two tables but reads the list without the list's own lock, so that a removal
moves accounts under a scan; handlers keep a
`*config.Account`, a pointer into the array behind the list, from selection until
the turn is counted. Admin handlers change the list and then call `Reload`. Token
refresh writes through the pointer first and by ID afterwards.

### Freebuff (FP, FU)

Two versions of a client and proxy for another chat service.

| Component | State | Operations | Correct when |
|---|---|---|---|
| Chat client (`internal/freebuff/chat.go`, `client.go`) | locals of each call, cache of runs, channels of a stream | `Complete`, `Stream`, run, recovery of a lost session, retries | calls return; a retry goes out on an active session; errors are reported |
| Agent registry (`registry.go`) | table from models to agents | read the sources, look up | a chat runs under an agent that goes with its model |
| Proxy pool, dialer (`internal/stealth/proxy.go`, `tls.go`) | entries with failures, rotation | refresh, next, report | a failing proxy stays out; the rotation stays in the pool |
| Programs (`internal/app/app.go`, `cmd/freebuff/main.go`) | a cache of a health probe | start-up, routing | |

Calls share the client's cache of runs, the registry and the pool. Reports about a
proxy come back by address, maybe after a refresh has replaced the pool.

### The rest

`src/integrations` (a text patch of a program's prompts), `src/opencode/plugins`
(prompt hooks), `src/services`, `src/tools`, `src/workspace`, install scripts and
`src/wiki`: one-shot scripts and texts without shared state. Not modelled.

## 2. Plan

All of the following is done, in this order.

1. **AccountPool**, **AccountPoolHistory**, **AccountPoolChurn**,
   **AccountPoolChurnHistory**, **AccountPoolProofs**, **AccountPoolHistoryProofs**, **AccountPoolChurnProofs**:
   selection, retries, cooldowns, bindings, quota, the list that changes under the
   requests.
2. **TokenRefresh**, **TokenRefreshProofs**: in-flight table, pointers and copies.
3. **EventStream** (frames from chunks, against a definition over whole bodies),
   **EventStreamProofs**; **KiroTurn**, **AnthropicStream** (refines **MessageStream**),
   **OpenAIStream**, **AggregatedTurn**, composed in **TranslatedTurn**;
   **TranslatedTurnProofs**.
4. The panel: **PanelHandlers** (the goroutines), **MicrosoftLogin** with
   **ExternalIdp**, **DeviceLogins**, **ConfigFile**, **AdminSessions**,
   **ApiKeyLedger**, **EventFeed**, composed in **AdminPanel**; **AdminPanelProofs**.
5. The Freebuff clients: **ChatCalls**, **ProxyRotation**, **AgentRegistry**,
   **FreebuffStream**, **FreebuffChat**, composed in **Freebuff**; **FreebuffProofs**.

What would come next: removals beside the ticker's index; the conversion of requests
into Kiro bodies; a hub that refines a lossy broadcast.

## 3. The modules

### AccountPool

The pool and the handlers that use it. State and code:

| Variable | Code |
|---|---|
| `accounts`, `live` | the array behind `cfg.Accounts` and the length of the list. A slot has the account's `id`, `cred` (whose tokens it holds), `enabled`, `used` and `token` (fresh, within the refresh skew, expired) |
| `cooldowns`, `sticky` | `Pool.cooldowns`, `Pool.sticky`, with ticks left instead of times; an entry with 0 left is still in the table, as in the code |
| `index` | `Pool.index`, modulo `Period` |
| `req` | the locals of each goroutine in the loop of `ServeHTTP` or `dispatchKiro` |
| `reloading` | an admin handler is between its change and its `Reload` |

One action is what a goroutine does between two points where others can
interfere: `AccountForSticky` takes and drops locks three times, hence
`StickyLookup`, `StickyInspect`, `StickyCooling` and its search for a pointer; a refresh is
a call and its return (`StartRefresh`, `RefreshOk`, `RefreshFail`); so is the
upstream request (`Send`, `AnswerFailure`, `AnswerSuccess`); binding and counting
(`Bind`, `Finish`) come later, under other locks. `Tick`, `AgeToken`, `BackgroundRefresh`,
`Toggle`, `RefreshQuota` and `Reload` are the clock, the upstream's expiry, the ticker and
the operator.

The two scans of the list, the search (`SearchSlot`) and `collectAvailable`
(`CollectSlot`), hold the pool's lock for reading and not the list's. They read the list's
length when they begin (`todo`) and look at one slot a step, while accounts change and
move; a slot that is behind the end of the list by then is an index out of range
(`ScanPanics`: net/http ends the request). `GetNext` is what follows a scan: the choice among
the slots it has found. Writers of the pool's tables wait for the scans to end
(`CanWrite`). A search that finds nothing calls `GetNext` without giving its lock back
(`SearchFails`); if a writer waits by then the request is `stuck`, and so is the lock
(`CanRead`). A writer that waits is a goroutine whose next step needs the lock (`WriterWaits`).

Three kinds of request use the loop: `chat` (native chat of `ServeHTTP`, counted
whatever the answer), `control` (other calls, no sticky key, not counted) and
`translated` (`dispatchKiro`, counted on 200 only).

What is abstracted:

- Time is a tick that lowers all cooldowns and bindings together. A client that
  disconnects is an answer of status 0, which is how `client.Do` reports it.
- A look at one slot is one step, and so is a removal's shift of the array, which copies
  several words: a look at a half-written account is not modelled. `RetryLimit` counts the
  available accounts in one step of `Begin`; the number is a guess at any rate, and the
  properties need only its range.
- Ties of the smart strategy go to any of the tied accounts (the code: to the
  least recently used).
- One admin operation at a time. A quota poll may report any number of `Reports`, beyond the
  limit too, and whatever the count here is.
- A background refresh is one step; the in-flight table is in TokenRefresh.
- Accounts with a refresh token but no expiry (always refreshed) behave as accounts
  whose token is stale.

### AccountPoolHistory

History variables beside AccountPool: `hits` counts the requests sent with an
account since it began to cool, `steady` the accounts that were available all the
time since a request began, `anchor` the account a conversation must be given, and
`overdrawn` the turns counted on an account since its quota was seen spent. They restrict no
step.

### AccountPoolChurn, AccountPoolChurnHistory

Adds `RemoveAccount`, `AddAccount` and `TestAccount`. A removal shifts the slots
behind it, in the same array, so that pointers held by requests denote the next
account or a stale copy behind the list's end. The array does not grow beyond
`Cap` slots (in the code it is then copied, and old pointers keep the old array).
AccountPoolChurnHistory adds `listed`: the accounts that have been in the list since a request
began the scan it works from.

### TokenRefresh

`RefreshToken` and its callers: requests and the ticker, which hold a pointer into
the account list, and admin handlers, whose `prepareAccount` works on a copy.

| Variable | Code |
|---|---|
| `slot` | `AccessToken` and `RefreshToken` of each account in the list, as numbers of the grants they came with |
| `entries`, `inflight` | the `inflightEntry` values ever made (`state` is "open" until `done` is closed), and the table that maps an account to one |
| `caller` | the locals of each goroutine; `own` is an admin's copy, then the arguments of `UpdateAccountToken` |
| `aged`, `granted` | the clock (`NeedsRefresh`) and upstream's grants |
| `up` | the process lives; a panic in the ticker ends it |

The mutex-protected lookup and registration is one action (`Join` or `Lead`); closing
the entry (`Answer`), deleting it (`Leave`), applying the result (`Apply`), reading the
arguments of the store (`ReadArguments`) and storing (`UpdateAccountToken`) are
separate, since others run in between. `Panic` is the unchecked error of
`http.NewRequest`. Abstracted: the three token fields move together; the three
endpoints are one call; an upstream call fails or grants, with or without a new
refresh token; the ticker takes accounts in any order; no account is removed.

### KiroTurn, AnthropicStream, OpenAIStream, AggregatedTurn, TranslatedTurn

A turn of upstream is a sequence of frames (`frames`) that ends somewhere
(`EndOfBody`; the reader returns in the same way at the end, at an error and at bytes
that are no frame) or panics (`Overrun`). A frame is text, a thought with or without
signature, a piece of a tool call with or without ID, input and stop mark, or
metadata with a reason. Content is named by the number of its frame, so that a
property can say what became of it.

- **AnthropicStream** is `streamAnthropic`. `stream` holds its locals by their names in
  the code (`openIndex`, `openType`, `nextIndex`, `curToolID`, `stopReason`) and the events
  it has yet to write; a frame is handled in one step, and each event is a step of its
  own (`Emit`), because it is flushed by itself. `phase`, `blocks`, `reason` are the
  message as a client assembles it.
- **MessageStream** is what that client may rely on. `MessageProtocol` says that
  AnthropicStream implements it.
- **OpenAIStream** is `streamOpenAI` with the completion that its chunks make.
- **AggregatedTurn** is what `aggregateAnthropic` and `aggregateOpenAI` collect for a
  client that does not stream: text, thoughts, and as in the code the order in which tools
  were first named (`toolOrder`) and the input of each (`input`). At the end of the body
  (`AggregateEnd`) it is settled which inputs are JSON documents (`complete`); the answer of
  `aggregateAnthropic` (`toolUses`) has the empty object for the others.
- **TranslatedTurn** runs one turn through all of them. `Together` says that upstream gives
  the frames of a tool in one piece, each with its ID; `About` says whose a piece of input is:
  its own ID's, or if it has none that of the last tool frame that has one.

Abstracted: a tool's name comes with its ID; token counts, usage and context frames are
left out. Any collected input may be JSON or not, also that of a call upstream has completed.
The clients are external: they act on what the translators write.

### EventStream

The bytes of a body in reads of any size, through both parsers: `sink` is `MeteringSink`
(`Write`, `parseFrames`, `handleFrame`), `reader` is `kiroFrameReader` with what its callback
counted. Lengths are one byte, a prelude two and a checksum one; the first byte of the
headers is the event's type and the first of a metering payload its credits.
`BufferAssumption` is the relation of the code's constants (a frame of at most 25 MiB and
a read of 32 KiB fit into 32 MiB). `ParseFrame` and `ReadFrame` are one turn of each parser's
loop, `ParseFrames` and `ReadFrames` as many turns as the buffer has bytes, which is more than
it has frames: a turn after the loop is over changes nothing. `Cuts` and `Owed` define, without
a parser, where the frames of a body are and what they cost.

### AdminPanel and its parts

The handlers of the panel, the clients that use API keys, and main's own loops. Each
handler has a `job` and a label `at` (PanelHandlers); an action is what it does between
two points where another can come in: a lock it takes or gives back, a call upstream, a
send. `then` is where it goes on after a save or a publication, which many routes share.

| Module | Variables | Code |
|---|---|---|
| MicrosoftLogin | `msTable`, `msStage`, `msExpired`, `msCanceled`, `msPortal`, `msLeg`, `msLock` | the table of sessions, a session's fields, its mutex. `marking` and `wiping` are handlers inside `discardDetachedMicrosoftSSOSession`, which marks without the session's lock and then tries it |
| ExternalIdp | none | what scopes, issuers and endpoints are accepted. Escaping is modelled where it matters: a tenant in braces is a UUID for `uuid.Parse`, and no endpoint of it passes (`EscapedSegment`) |
| DeviceLogins | `iamTable`, `deviceTable`, `overdue`, `interval`, `batch` | the two session tables, which no lock guards across a call upstream; the loop over pasted portal tokens. `spent` is upstream: a code gives a token once |
| ConfigFile | `mem`, `disk`, `snapshot` | `Config`, the file, the marshaled bytes of a `Save`. `stamp`, `acked`: the change a handler made, and the last one whose handler came back from `Save` |
| AdminSessions | `sessions`, `fails`, `locked` | `AdminHandler.sessions` and `loginFails` of one address. `under` is the password a cookie was given for |
| ApiKeyLedger | `mem.keys` | `ValidateAPIKey`, `APIKeyOverCredit`, `RecordKeyUsage` and the key routes |
| EventFeed | `hub`, `channel`, `toVisit`, `logged` | `EventHub.subs`, their buffers, the rest of a `Publish`, the log ring |
| AdminPanel | `overlay` | the account routes, `persistLoginAccount`, `publishAccounts`, `prepareAccount`, model sync; what clients and time do; the end of the process and the next start |

`Save` is three steps, `Marshal`, `Truncate` and `Write`, under the read lock, so that saves
overlap each other and no setter overlaps them. Two writes of different bytes into one
file may leave parts of both (`Torn`). `MainReturns` ends the process while the signal
handler's save may be under way; `Restart` loads the file and forgets tables and sessions.

Abstracted: a pasted callback is one that fits, one that does not, or one that reports an
error; PKCE values and states are two facts, held or wiped; a URL is a record of what the
checks look at; one client address is throttled; a log entry is a count; a model list is a
name. A password pinned by `KPP_ADMIN_PASSWORD` is not modelled. IDs of accounts read from a
local Kiro are given, not drawn from the clock (in the code two within a second collide).
A model sync is modelled with the account and the list it ends with, not with each account it
tries.

`prepareAccount` is the steps `Prepare`, `Refreshed`, `StoreRefreshed` and `ResolveArn` for all of
its callers (a test, a quota poll, a sync; the test of a model is, for the state, the test of an
account): the lookup, the return of `RefreshToken`, the store by ID, the ARN. The calls
that have no timeout are the labels of `AwaitsUpstream`: the refresh, or the wait for another
caller's (`refresh.go:78`, `146`, `186`, `233`), the usage limits (`usage.go:100`) and the probe of
an imported key (`apikey.go:123`).

A subscriber of the event stream starts with nothing (`Subscribe`); the page asks for the list
with a request of its own, as `Dashboard.tsx` does (`LoadList`).

### Freebuff and its parts

A call has a label `at`; while a request is under way `wire` says how far (dialing through a
proxy, directly, in the handshake, sent, pausing before a retry).

| Module | Variables | Code |
|---|---|---|
| ProxyRotation | `pool`, `current`, `via` | `ProxyPool.proxies` and `current`, the entry a dial took. `streak` counts failures reported in a row for an address |
| AgentRegistry | `live` | `liveAgentRegistry`. A text is what the parser's patterns find in the sources; `Resolve` follows aliases, `Says` is its meaning without the parser |
| FreebuffStream | `body`, `reader`, `errs`, `consumer` | the goroutine behind `Stream`, its two channels, the caller. `bound`: whether the goroutine watches the call's context (`doStream`) or not (`streamFromBody`) |
| FreebuffChat | `session`, `model`, `run`, `cache`, `polls`, `again` | the locals of `Complete` and `Stream`, `RunCache`; `program` tells the two versions apart, `client` the stealth client from a plain one |

The versions differ where the code does: freebuff-proxy looks runs up in a cache, replaces a
lost session once and keeps its model; freebuff-unified has no cache and calls itself with
the new session and its model, as often as upstream refuses: the model has no bound for it.
Only freebuff-proxy's stealth client dials through the proxies and has a time limit for a request
with its body (`client.go:122`). freebuff-unified's `main.go` gives its client a plain transport, as
freebuff-proxy does when stealth and proxies are off (`defaultHTTPClient` of both): dial, handshake
and header are limited there, the body is not (`AwaitsUpstream`). The cache's package and
`RetryWithFreshSession` and `ShouldRecoverSessionFromResponse` of freebuff-proxy are not in the
repository: the cache is modelled as a map, the two functions as freebuff-unified has them.
Runs stay in the cache for ever, so a run is named by its agent.

Abstracted: the four sources of the registry are fetched as one; the entries of a refreshed
pool come in any order (the code: by latency); upstream answers a session request with any
session of a set; a refresh decides at once who is healthy.

### Proof modules, MC modules

Each of the eight modules named `...Proofs` EXTENDS the module it is about and TLAPS; section 5
says what they show. `AccountPoolHistoryProofs` and `AccountPoolChurnProofs` use the lemmas of
`AccountPoolProofs`.
`MCAccountPool`, `MCAccountPoolHistory`, `MCAccountPoolChurn`, `MCAccountPoolChurnHistory`, `MCTokenRefresh`,
`MCTranslatedTurn`, `MCAdminPanel` and `MCFreebuff` give the constants of the runs.

## 4. The runs

| Run | Instance | Shows |
|---|---|---|
| `routing` | 2 accounts, 2 requests of one conversation, round-robin, failures, refreshes, ageing tokens | `TypeOK`, `RefusedOnlyWhenNoneStayed`, `NeverRetriesFailed`, `StickyAffinity` |
| `cooldowns` | 3 accounts, 2 requests, smart strategy, a quota of 1 that is polled and reported free or overspent, rejected turns | `QuotaOvershoot`, `HammerBound`, `NeverRetriesFailed`, `RefusedOnlyWhenNoneStayed` |
| `churn` | 2 accounts, 1 request, with and without a conversation; removal and addition of either, disabling, a token that ages; cooldowns and bindings of one tick; fairness | `LiveIdsDistinct`, `WorksWithListed`, `AnsweredUnderChurn` |
| `sticky_restored` | as `routing`, cooldowns of 1 and 2 ticks | violated, see 6 |
| `pool_lock` | as `churn`, an account that is polled, fewer removals | violated, see 6 |
| `token_of_its_account` | as `churn`, 2 requests | violated, see 6 |
| `refresh` | a request, an admin handler and the ticker; a sound account and one whose region makes no URL; 2 entries; fairness | `OneCallAtATime`, `NoEntryLeftBehind`, `WaitersEnd`, `GrantsAreStored` |
| `inflight_in_progress` | the same | violated, see 6 |
| `streams` | every turn of up to 4 frames: text, thought, signature, a reason, frames of 2 tools with and without input and stop, frames without ID | `MessageProtocol`, `AnthropicAgrees`, `OpenAIAgrees`, `InputStaysWithItsTool` |
| `framing` | every body of up to 8 bytes in reads of 1 to 3 | `SinkReadsTheBody`, `ParsersAgree` |
| `panel` | 3 goroutines in 25 scenarios (table below); 2 Microsoft sessions in a table for 1, 2 of each other login, 2 portal tokens; 2 keys with a credit of 1, turns that cost up to 2; lockout after 2 failures; channels of 1 event; fairness | `SecretsWiped`, `OneAccountPerLogin`, `AckedIsOnDisk`, `RotationEndsSessions`, `GuessesBounded`, `KeyOvershoot`, `NoSendOnClosed`, `CurrentListWasSent`, `HandlersReturn` |
| `freebuff` | 2 calls in 9 scenarios, over the stealth client or a plain one; 2 proxies, 3 lists, up to 2 refreshes in the open, strict and verified modes, eviction after 2 failures; 3 source texts with a chain of 2 aliases; 6 sessions to be told of; 4 bodies; 2 attempts, 1 poll, any number of refusals; fairness | `RetriedOnActiveSession`, `AgentFitsModel`, `ErrorIsReported`, `EvictedStayOut`, `CallsReturn` |

What the properties say:

- `HammerBound`: from the moment an account begins to cool until it is out of
  cooldown, at most the other requests that had already chosen it go upstream
  with it.
- `NeverRetriesFailed`: a request never holds an account it has failed with. The
  sticky path and the rotation must both heed `excluded`, and the account must
  still be the one that was excluded.
- `RefusedOnlyWhenNoneStayed`: a refused request had no account that was available
  from its beginning to its end. The attempts are counted when the request
  arrives, so the floor of three is what makes it true. With four accounts TLC finds
  a refusal although one account was available throughout (three accounts were
  cooling when the limit was taken, came back one after another and used it up),
  so the claim, and the run, stop at three.
- `StickyAffinity`: a conversation whose binding is fresh and whose account is
  usable, with no entry in the cooldown table, is not rotated away.
- `QuotaOvershoot`: the quota is checked at selection and counted after the
  stream, and an operator's poll writes what upstream reports in between. From when the
  quota of an account is seen spent until it is seen free again, at most one turn per
  request goroutine is counted on it. (How far the count itself is beyond the limit is up to
  upstream's report.)
- `LiveIdsDistinct`, `WorksWithListed`: the list names an account once. A request works only
  with an account that has been in the list since it began to scan it, although removals
  shift the array under the scan and under the pointer that comes of it: the stale copies
  behind the list's end are nobody's. That the account is still in the list is more than
  the code gives, and that it is the one that was chosen too (finding 3).
- `OneCallAtATime`: calls that refresh one account do not overlap, however late a waiter
  or a leader of an earlier call comes back.
- `NoEntryLeftBehind`, `WaitersEnd`: an entry is in the table only while somebody has
  yet to delete it, and who waits for one gets away when the call returns. Both
  leave out accounts whose endpoint makes no URL (finding 4).
- `GrantsAreStored`: what upstream grants gets into the account, with the rotated
  refresh token, also when the leader worked on a copy. It says nothing of what a
  slower caller writes afterwards.
- `MessageProtocol`: the events make a message that starts once, opens its blocks one
  at a time, puts into a block what belongs to its type and closes it before the
  stop reason.
- `AnthropicAgrees`, `OpenAIAgrees`: streaming clients get what the others get. For
  tools the first asks that upstream give a tool's frames together: input that comes
  after an interruption is dropped by the stream and kept by the collector. They differ in one
  more thing, which the property names: input that is no JSON document, that of a call
  cut off in the middle for one, is `{}` for the client that does not stream.
- `InputStaysWithItsTool`: no input ends in another tool's call.
- `SinkReadsTheBody`, `ParsersAgree`: the meter counts the complete frames of the bytes
  that have arrived, however they were split, and the translators' parser counts the
  same. They part only where headers are longer than their frame.
- `AnsweredUnderChurn`: every request that enters the loop reaches its answer or its
  refusal, unless it waits for a refresh for ever or for the pool's lock (finding 2).
- `SecretsWiped`: once a Microsoft login is marked as over and all who held it or were to
  wipe it have left, its states and verifier are gone. The cancel, the timer, a lookup that
  finds it expired and a start that clears the table all rely on a holder to look at the
  mark. Excepted (`missed`) is a gap of the code: a cancel whose `TryLock` fails between the
  holder's last look (`microsoft_sso.go:174`) and its unlock.
- `OneAccountPerLogin`: a callback pasted twice, a poll sent twice, a cancel and an expiry
  give one account at most. A Microsoft login has its lock for that, the others only the
  endpoint that takes a code once.
- `AckedIsOnDisk`: a change whose handler has come back from `Save` is in the file, whatever
  saves overlapped. Excepted are the moments of a write, a write that failed (all callers
  drop the error) and a token written through a pointer, without the lock, beside a save.
- `RotationEndsSessions`: no session outlives the password it was given for, but those of
  logins and changes that were under way when the sessions ended (`racers`).
- `GuessesBounded`: the throttle counts after the comparison, so logins that arrive together
  all get theirs; at most one for each other goroutine beyond the limit.
- `KeyOvershoot`: a key is overdrawn by no more than the turns under way can cost.
- `NoSendOnClosed`: no `Publish` sends on a channel that its subscriber has closed.
- `CurrentListWasSent`: once no handler is between a change of the accounts and its
  publication, each open panel that has loaded the list since it subscribed and missed no event
  has been given the list as it is. It may
  not be the last one it got: `publishAccounts` copies the list before it takes the hub's
  lock, so two handlers may deliver theirs in the wrong order.
- `HandlersReturn`: every request of the panel returns, past every lock, refusal and failing
  save, or waits itself in a call that has no timeout: one that does so keeps nobody
  else. An import gets through its tokens.
- `RetriedOnActiveSession`: a chat sent again after a refusal has a session that upstream has
  told of since and that was active, with its model in freebuff-unified. (freebuff-proxy
  keeps the lost session's model, `chat.go:113-115`.)
- `AgentFitsModel`: a chat goes out under a run of an agent that the sources, or the built-in
  table, pair with its model. `Says` reads the sources without the parser. Aliases, the
  cache, a refresh between the two lookups and a change of model must not mix agents up.
- `ErrorIsReported`: a caller that is given no error has every delta up to `[DONE]` or the
  body's end, unless it cancelled.
- `EvictedStayOut`: a proxy with `MaxFailures` failures in a row is given to no dial until
  one that had it before succeeds.
- `CallsReturn`: every call returns and every stream's reader and caller come to an end,
  except a reader of `streamFromBody` whose caller has left: nothing takes its delta, so the
  goroutine stays. Two waits have no limit in the code and are excepted: a plain client's for a
  body (unless the call is cancelled), and that of freebuff-unified for an upstream that stops
  refusing its sessions. Excepted is the call itself, not the other one.

The scenarios of `panel` let jobs meet that share state; what the other jobs do cannot reach
it.

| Part | Jobs together |
|---|---|
| Microsoft login | two callbacks and a cancel; a callback, the timer and another start; three callbacks |
| Other logins | two callbacks and a start; two polls and a start; a batch beside a disabled account; an API key beside a removal |
| Sessions | a login and a change of password; two changes; no password, a logout and a login; three wrong logins |
| Keys | two clients of a key; a client and the key's removal; a client and the key's addition; two toggles and a cleared log |
| File | an addition beside main's save, whose writes may fail; the same with a shutdown; with a crash; a password removed before a crash; a token refresh; two model syncs and a crash; a test and a quota poll |
| Events | a subscriber with an addition and a removal; two subscribers; a subscriber and a turn |

Bounds. Two requests are enough for every pairwise interleaving of the selection,
failure, success and binding; one conversation makes them compete for one binding.
Three accounts are the largest pool the floor of three attempts covers, and two
suffice where the question is which of the two a request gets. Cooldowns and bindings of one tick run out together or, made
at different times, one before the other. A
quota of 1 is spent by one turn; the proofs cover every quota. A
poll reports the quota free or spent twice over, so that a count may fall, rise and pass the limit.
`Period` is a
multiple of the numbers of available accounts that the round-robin runs can have.
Two entries of `refresh` let a caller of the first come back during the second; that a
third changes nothing for the two invariants is what the theorems show. Four frames hold
a tool call of two pieces, an interruption and what follows it, or two tools mixed. Eight
bytes hold a metering frame and a second frame, or one frame and the beginning of
another in any split; the bytes are chosen so that a length can be too short, too long,
longer than its frame, or right.
Three goroutines of `panel` are two that race and one that cancels, times out, saves or
watches; a table for one session is full with one; credit, lockout and channels are at their
limits after one or two steps. Two failures evict a proxy of `freebuff` (the code: three), so
that a success of an older dial fits between them; a chain of two constants is the shortest
the parser has to follow (it follows eight); one poll stands for the 24 of two minutes, since
each is like the next. Refusals are not bounded; a call that is refused again is in a state
it was in before.

Fairness. `FairChurnSpec` assumes weak fairness of what a request does in the loop
(`Answering`). Each of its steps is computation or a call that ends: the proxy's
client waits at most a minute for the header of an answer (`server.go:52-58`). The
end of a refresh is not fair: `refresh.go:146`, `186` and `233` use
`http.DefaultClient`, which has no time limit, and the call has no context.
`Finish` is not fair, because the server has no write timeout (`main.go:60`) and a
client that stops reading keeps its stream open. Nothing is assumed of the clock,
the operator or upstream's answers. `FairSpec` of TokenRefresh is the same for refreshes:
each caller goes on, and an answer need not come; `WaitersEnd` therefore excepts a call
that never returns. `Spec` of AdminPanel is fair to `HandlerStep`, what each goroutine does by
itself, except where it `AwaitsUpstream`: its other calls upstream have a time limit (the login
client and the model and profile queries 30 seconds, a device poll two minutes), locks are held
for finitely many steps, and the runtime lets goroutines run. What
clients do (leave, load the list, try again, send another turn) and what time does is not fair. `Spec` of
Freebuff is fair to `GoesOn`, a call's step while it does not wait for a plain client's body. The
stealth client limits dial, handshake and answer with its body (`stealth/client.go:108`, `tls.go:87`,
`132`); a plain client's transport limits dial, handshake and header, and a cancelled
context ends its reads. A caller that does not cancel goes on receiving.
Refreshes, cancellation and answers are not fair: upstream may refuse for ever.

Deadlock is checked in `routing` and `cooldowns`: a server can always take another request.
It is not checked in `churn` and `pool_lock`, where the pool really can stop (finding 2).
It is checked in `panel` and `freebuff` as well, where `AtRest` is the step of a system in
which every job is done, or the process has ended; anyone else who cannot go on is a deadlock.
It is not checked in the others, where a turn ends, a body reaches its bound, or the process
dies and its entries are used up.

## 5. The theorems

Every safety property that the passing runs check is proved for every value of the constants.
The assumptions are the named ones of the modules (`...Assumption`,
`...Limits`, which TLC evaluates in each run) and, where the table says so, a hypothesis of the
theorem. An invariant is proved in three facts: it holds at the start, each action keeps it, it
gives the property. Few properties are inductive as they stand; what each proof adds is below.

| Theorem | States | Hypothesis beyond the assumptions |
|---|---|---|
| `TypeCorrect`, `TypeCorrectUnderChurn`, `TypeCorrectStreams`, `TypeCorrectRefresh`, `TypeCorrectFreebuff` | `TypeOK` of its module | |
| `TypeCorrectPanel` | `TypeOK` | `NoGrant` is not a grant |
| `NoAccountTwice`, `QuotaOvershootBounded`, `TokenStaysWithAccount` | `NeverRetriesFailed`, `QuotaOvershoot`, `TokenOfItsAccount` without removals | |
| `FailingAccountSpared` | `HammerBound` | there is a request |
| `RefusedForGoodReason` | `RefusedOnlyWhenNoneStayed` | at most three accounts |
| `RefusalTakesThree`, `ConversationStays` | `RefusedAfterThree`, `StickyAffinity` | |
| `OneSlotPerAccount`, `OnlyListedAccounts` | `LiveIdsDistinct`, `WorksWithListed` | |
| `OneRefreshPerAccount`, `NoOrphanedEntry` | `OneCallAtATime`, `NoEntryLeftBehind` | |
| `TypeCorrectFraming`, `SinkCountsTheBody`, `ParsersCountTheSame` | `TypeOK`, `SinkReadsTheBody`, `ParsersAgree` | |
| `WellFormedMessage`, `MessageOfATurn` | `MessageProtocol`, alone and beside the other translators | |
| `AnthropicClientsAgree`, `OpenAIClientsAgree`, `InputReachesItsTool` | `AnthropicAgrees`, `OpenAIAgrees`, `InputStaysWithItsTool` | |
| `PublishNeverPanics`, `ListReachesPanels` | `NoSendOnClosed`, `CurrentListWasSent` | |
| `LegsStayBound` | `LegsAreBound`: what a login holds for its second leg passes the checks | |
| `SecretsAreWiped` | `SecretsWiped` | |
| `LoginsGiveOneAccount` | `OneAccountPerLogin` | `NoGrant` is not a grant |
| `RotationHolds` | `RotationEndsSessions` | |
| `LoginThrottled` | `GuessesBounded` | finitely many handlers |
| `KeysOverdrawnBounded` | `KeyOvershoot` | finitely many handlers; no key of the first configuration is at its limit |
| `AcknowledgedIsKept` | `AckedIsOnDisk` | an empty and a torn file are no configuration |
| `RotationTyped`, `EvictedProxiesStayOut`, `RetriesOnActiveSession` | the rotation's types, `EvictedStayOut`, `RetriedOnActiveSession` | |
| `ErrorsAreReported`, `AgentsFitModels` | `ErrorIsReported`, `AgentFitsModel` | |

The hypotheses are no limits of the code but facts about constants that an `ASSUME` could not
state for TLC (an unbounded quantifier), and, of keys, where the count begins: a key that an
operator's file already holds overdrawn is overdrawn from the start. Only `Cap <= 3` is a
limit, and a needed one (section 4); `RefusalTakesThree` says what holds beyond it.

### The pool

- `NoAccountTwice`: between the selection's steps the request has a name (`sel`) and not yet a
  pointer, and the pointer means an account only because slots keep their IDs. `ExclusionInv`
  adds that the name under inspection is not excluded; `ListInv`, that slot `s` holds account
  `ConfigOrder[s]` (which AccountPoolChurn gives up).
- `QuotaOvershootBounded`: the bound on `overdrawn` is not inductive, since a turn that ends adds
  one. `QuotaInv`: while the quota of a slot's account is spent, the turns counted since and
  those in flight are together at most as many as the requests. A request joins the turns in
  flight only when it saw the quota unspent, which it does not while it is spent, and leaves
  them in the step that counts it; `InFlight(s)` loses or gains one request per step.
- `TokenStaysWithAccount` is the other side of finding 3: a removal is what breaks it.
- `FailingAccountSpared`: `HammerInv` counts, beside those that went upstream since the account
  began to cool, the requests that hold it and have yet to look or to send (`Armed`); `CollectInv`
  says that no account begins to cool while a request collects, because a failure is recorded
  under the lock the scan holds. While
  it cools nobody joins them, each request that is sent leaves them, and the one whose
  failure cooled the account is not among them. A cooldown that is renewed begins no new count.
- `RefusedForGoodReason`: `SteadyInv` says that the excluded accounts are as many as the
  attempts that failed, and disjoint from the accounts that stayed available. A request that
  gives up with such an account left has failed three times (`RefusalTakesThree`), which makes
  four accounts.
- `ConversationStays`: `AnchorInv` follows the name through the steps of the selection: each
  look a request takes finds the account of its binding, and its search has yet to look at the
  slot that holds it.
- `OneSlotPerAccount`: with removals slots do not keep their IDs. `ChurnInv` is what is left, `TypeOK`,
  the goroutines' locals and `LiveIdsDistinct`, for an array that is shifted under them.
- `OnlyListedAccounts`: `ListedInv` says of each slot a request has taken, by its pointer or in a
  scan that is under way, that its account has been listed since; a removal that shifts another
  account into such a slot takes it from the list.

### Refreshes

`OneRefreshPerAccount`: `LeaderInv` says that who leads a call, until it has deleted its entry,
has that entry in the table under its account, and no two lead the same entry. `NoOrphanedEntry`
is the converse and is inductive beside it.

### Framing

- The invariant says of each parser that it is at a cut of the body (`SinkAt`, `ReaderAt`): it has
  counted the frames before the cut and their credits (`Counted`), its buffer is what follows,
  and if it has stopped it did so at lengths that make no sense there. At rest (`SinkWaits`,
  `ReaderWaits`) no whole frame is left in the buffer.
- A write is then three arguments. What arrives later moves no cut, since a frame is
  known by its own bytes (`CutsOfJoin`, `OwedOfJoin`). One turn of the loop takes a parser from a
  cut to the next (`SinkFrame`, `ReaderFrame`), and cuts are apart by the frames' lengths
  (`CutsApart`), so that the count grows by one and nothing is skipped. As many turns as there are
  bytes end where no frame is left (`SinkFrames`, `ReaderFrames`), because each shortens the
  buffer. A cut with no frame after it is the last (`CountAll`): both parsers are there.
- `ParsersCountTheSame` follows: both have counted up to the same cut and look at the same bytes.
- `BufferAssumption` is used once, where a sink at rest takes one more read: without it the sink
  could stop because its buffer is full (`SinkReads`, with `WaitingIsShort`).

### Translated streams

- `WellFormedMessage` is the refinement. Between the handler and the client stands a queue
  of events; `Chain` says that each event that waits is acceptable in the abstract state that those
  before it lead to, and that the chain leads from the client's message to what the handler's
  locals say (the open block, its type and index). A frame extends a chain at its end.
- The comparison of the clients is not made between one client and the other but of each
  with what the frames ask for (`Texts`, `Thoughts`, `Inputs`, `Called`). `CollectInv` says it of
  what is collected. For the Anthropic stream the message is looked at as it will be when
  the waiting events are written (`Begun`, `Put`), so that `Emit` changes nothing: `MessageInv`
  says which content it has, `OrderInv` that what waits is newer than what is written,
  `ReasonInv` that it ends with the last reason. `TogetherInv` is the case in which upstream
  gives a tool's frames in one piece: then each call has its block, with all its input and in the
  order of the calls, because a tool that may go on (`Going`) is the one whose block is open.
  `UsesInv` says what the collected answer makes of the inputs.
- `CallsInv` ties the table of `streamOpenAI` to the client's list by index (`Indexed`), that to
  `toolOrder` (`SameOrder`), and each call's arguments to its tool's input (`Fed`).

### The panel

`ControlInv` (handlers are where their jobs may take them) and `ConfigInv` (what is in memory, in
the file and about to be written is a configuration) stand under all of the others.

- `PublishNeverPanics`: `HubInv` adds that whoever a `Publish` has yet to visit is still in the
  hub, and that who has closed its channel is done and never subscribes again. All
  steps but those of the feed leave that alone; unsubscribing waits for publishers.
- `ListReachesPanels`: `ListInv` says that the list of now is among those a panel was offered, or
  somebody will still look at the list and publish, or has just looked and will come by.
- `SecretsAreWiped`: `LockInv` ties a session's lock to its one holder; `SecretInv` gives
  for each cancelled session who is going to wipe it (`Accounted`): a marker, a wiper, a holder
  before its last look, or nobody, in the gap that `missed` records. A session never started has nobody.
- `LoginsGiveOneAccount`: `TakeInv` says that there is a function from logins to handlers such
  that grants, accounts in memory, in the file and about to be saved come from that
  handler only, and that what gave one is spent; `BatchInv` counts the tokens of an import.
- `RotationHolds`: `CookieInv` says the same of the cookies about to be given. `LoginThrottled`:
  before the throttle locks it has counted every guess; from then on the guesses and the logins
  under comparison together do not grow (`GuessInv`).
- `KeysOverdrawnBounded`: as with quotas, the credits of a key and what the turns past the door can
  cost are bounded together; `KeysInv` says it also of the file and of what is about to be
  written, which a restart takes over.
- `AcknowledgedIsKept`: while every change was made under the lock, the saves under way all
  write the memory as it is, so that what they leave in the file is that or nothing
  (`LockedInv`). A token written through a pointer ends this for good (`straddled`).

### Freebuff

- `EvictedProxiesStayOut`: `PoolInv` says that the first entry of an address has at least as many
  failures as `streak` counts, which a refresh resets with the pool and a success with the
  entry, whoever reports; `WireInv` ties a dial's proxy to its step.
- `RetriesOnActiveSession`: `RetryInv` carries the session from where upstream told of it to where
  the chat goes out, through run, cache and retries of the transport.
- `ErrorsAreReported`: `StreamInv` says of each label of the reader and the caller how many of the
  body's deltas have been taken, and that the error, once put into its channel, stays until it is
  taken. `AgentsFitModels`: `RunInv` says that runs, in the cache as well, are named by their
  agents and that a call's agent is one of those its model had when it looked. `Resolve` and `Says`
  agree on what the sources pair (by induction over the depth at which the code stops).

### What is left to TLC

- Liveness: `AnsweredUnderChurn`, `WaitersEnd`, `GrantsAreStored`, `HandlersReturn`,
  `CallsReturn`. Fairness and ENABLED are outside of what the prover does.

The induction theorems of the library take an operator and cannot be used. Where a proof needs
induction over numbers all the same, it is stated of a set (`SetInduction` in FreebuffProofs and
EventStreamProofs: a set of numbers with 0 and with the successors of its members has them all),
which follows from the well-foundedness of the order; the set is then defined by the claim. The
recursive functions of EventStream, whose arguments are numbers, are treated so: that there is a
function with the values the recursion asks for (`StepsExist`, `CutsExist`, `OwedIs`) is proved
first, and what the recursion computes is then known step by step.

## 6. Findings

1. **A cooldown that is over keeps a conversation away** (`sticky_restored`).
   `AccountForSticky` looks for any entry of the cooldown table (`pool.go:61`) where
   `collectAvailable` also looks at the time (`pool.go:154`). Its comment and
   `sticky_test.go:89` say that the binding is restored when the cooldown expires.
2. **The pool can lock itself** (`pool_lock`). When the bound account has gone by the time
   `AccountForSticky` looks for it, it calls `GetNext` with its read lock still held
   (`pool.go:70-77`), which takes it again (`pool.go:140`). A writer that has come in between (the
   removal's own `Reload` is one) waits for the first lock, and the second waits for the
   writer: no request gets past the pool any more.
3. **A refresh can write into another account** (`token_of_its_account`). An account
   removed during its refresh is replaced in its slot by the next one, which then
   receives the tokens (`config.go:293`, `refresh.go:106-112`).

4. **A refresh that cannot be sent is in progress for ever** (`inflight_in_progress`).
   The errors of `http.NewRequest` are dropped (`refresh.go:143`, `230`). A region or
   endpoint that makes no URL panics after the entry was registered: later callers for
   that account wait for ever, and the ticker ends the process.

## 7. Observations

Behaviour met while modelling that no document of the repository contradicts, so that no run
expects a violation.

KiroPool:

- An answer 402 is a success: `classifyCooldown` has a case for it (`pool.go:213`), but the
  handlers do not pass it on (`server.go:317`, `anthropic.go:634`), so that the account is not
  cooled and the conversation is bound to it. (README.md of KP, line 47: "When an account
  is exhausted, KiroPool routes around it.")
- A scan whose list becomes shorter under it panics (`pool.go:73`, `147`); net/http ends the
  request only.
- A token refresh, a usage query and the probe of an API key may wait for ever (`refresh.go:78`,
  `146`, `186`, `233`, `usage.go:100`, `apikey.go:123`), and a request of the panel with them.
- A client that does not stream gets `{}` for tool input that is cut off; one that streams gets the
  part that came (`anthropic.go:964-975`).
- A Microsoft tenant in braces is accepted as an issuer and never as an endpoint's tenant
  (`microsoft_sso.go:583`, `601`).
- The gap of `SecretsWiped`, and a login that compared its password before a change and gets
  its session after it.
- `httpServer.Close` makes `main` return while the final `Save` may be between truncation and
  write (`main.go:64-71`); an empty file does not load. Every caller drops `Save`'s error.
- A key removed between `ValidateAPIKey` and `APIKeyOverCredit` (`server.go:128-133`) still
  admits its turn, which nobody is charged for.
- The login throttle counts after the comparison, and a success of one login clears a
  lockout that others have just caused.
- `Publish` drops an event for a subscriber that is slow (`events.go:55`), while the type's
  comment (`events.go:16-19`) says that the subscriber is dropped; `Publish`'s own is right.
- `refreshExternalIdpToken` and the helpers that rebuild a login's configuration
  (`microsoft_sso.go:757-834`) are called by nobody, and are not modelled;
  `refresh.go:215-256` posts the refresh token to the stored endpoint without their checks.

Freebuff:

- freebuff-unified recovers a lost session without limit (`client.go:290-298`), and its client, like
  that of freebuff-proxy without stealth, sets no limit to the time a body takes.
- A stream's body that ends without `[DONE]` counts as complete; with a cancelled context the
  error may be dropped (`chat.go:662`); a whole answer of more than 64 KB is cut and does not
  decode (`chat.go:101`).
- In strict mode a proxy of unknown country is accepted (`stealth/proxy.go:282`; a test wants
  it), where the comment at line 96 says that those without a US code are rejected.
- A caller's cancellation during a dial counts as a failure of its proxy; a success of an
  old dial revives a proxy that later ones have evicted; of an address listed twice only the
  first entry is ever evicted.

## 8. Not modelled

- The payload guard, the rewriting of requests and host names and the conversion of a client's
  request into a Kiro body: functions over JSON without state; a model would repeat them.
- The search for profiles and regions and the parsing of upstream's answers; the outcome is a
  choice in the handlers.
- Token counts, context percentages and estimates; an account's usage totals.
- Freebuff's programs around the client (routing, configuration, a probe's cache), TLS
  fingerprints, headers and jitter.
- Of the ticker: a removal of an account beside its index. Of a removal: a look at an account
  while it is being copied.
- User interfaces, prompt patches, plugins, scripts, unit files.
