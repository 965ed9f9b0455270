------------------------------ MODULE TokenRefresh ------------------------------
(***************************************************************************)
(* The refresh of access tokens (auth/refresh.go of the Kiro CLI pool      *)
(* proxy) and those who ask for it: request handlers and the background    *)
(* ticker, which hold a pointer into the account list, and admin handlers, *)
(* which work on a copy of the account.                                    *)
(*                                                                         *)
(* A caller that finds a call for its account in flight waits for that     *)
(* call's result; any other one leads a call of its own.  Between closing  *)
(* its entry, deleting it, applying the result and storing it by ID, a     *)
(* leader can be overtaken by everybody else.                              *)
(*                                                                         *)
(* A token is the number of the grant it came with, 0 stands for none.     *)
(***************************************************************************)
EXTENDS Naturals, Sequences

CONSTANTS
  Accounts,     \* account IDs, none of which is removed here
  Handlers,     \* request goroutines
  Admins,       \* admin handlers (prepareAccount)
  Ticker,       \* the goroutine of StartBackgroundRefresh
  Malformed,    \* accounts from whose region or endpoint no URL can be made
  NoId,         \* the account of a caller that is idle
  MaxCalls      \* bound on the entries ever made

Callers == Handlers \cup Admins \cup {Ticker}

ASSUME CallersAssumption == Handlers \cap Admins = {} /\ Ticker \notin Handlers \cup Admins
ASSUME AccountsAssumption == Malformed \subseteq Accounts /\ NoId \notin Accounts
ASSUME BoundAssumption == MaxCalls \in Nat

VARIABLES
  up,          \* the process has not died
  slot,        \* the tokens in the account list
  aged,        \* grants up to this one are about to expire
  granted,     \* upstream: the last grant made for an account
  entries,     \* the in-flight entries ever made, in order
  inflight,    \* inflight: the entry of an account, 0 if it has none
  caller       \* the locals of each caller

vars == <<up, slot, aged, granted, entries, inflight, caller>>

Tokens == [access : Nat, refresh : Nat]
Pcs == {"idle", "stale", "waiting", "leading", "calling", "answered", "applying",
        "applied", "storing"}
CallerType == [pc : Pcs, id : Accounts \cup {NoId}, entry : Nat, own : Tokens]
EntryType  == [id : Accounts, state : {"open", "granted", "failed"}, result : Tokens]

NoTokens == [access |-> 0, refresh |-> 0]
Idle == [pc |-> "idle", id |-> NoId, entry |-> 0, own |-> NoTokens]

\* The state is well-typed, and a caller that waits or leads has an entry.
TypeOK ==
  /\ up \in BOOLEAN
  /\ slot \in [Accounts -> Tokens]
  /\ aged \in [Accounts -> Nat]
  /\ granted \in [Accounts -> Nat]
  /\ entries \in Seq(EntryType)
  /\ Len(entries) <= MaxCalls
  /\ inflight \in [Accounts -> 0..Len(entries)]
  /\ caller \in [Callers -> CallerType]
  /\ \A c \in Callers :
       /\ caller[c].pc # "idle" => caller[c].id \in Accounts
       /\ caller[c].pc \notin {"idle", "stale"} => caller[c].entry \in DOMAIN entries

Id(c)    == caller[c].id
Entry(c) == entries[caller[c].entry]
At(c, pc) == up /\ caller[c].pc = pc
Goto(c, pc) == caller' = [caller EXCEPT ![c].pc = pc]
Finish(c) == caller' = [caller EXCEPT ![c] = Idle]

\* What *acc is to the caller: its copy, or the account in the list.
View(c) == IF c \in Admins THEN caller[c].own ELSE slot[Id(c)]

--------------------------------------------------------------------------------
Init ==
  /\ up = TRUE
  /\ slot = [a \in Accounts |-> [access |-> 1, refresh |-> 1]]
  /\ aged \in [Accounts -> {0, 1}]
  /\ granted = [a \in Accounts |-> 1]
  /\ entries = <<>>
  /\ inflight = [a \in Accounts |-> 0]
  /\ caller = [c \in Callers |-> Idle]

NeedsRefresh(a) == slot[a].access <= aged[a]

\* A caller comes across an account whose token is about to expire.
Check(c, a) ==
  /\ At(c, "idle")
  /\ NeedsRefresh(a)
  /\ caller' = [caller EXCEPT ![c].pc = "stale", ![c].id = a,
                              ![c].own = IF c \in Admins THEN slot[a] ELSE NoTokens]
  /\ UNCHANGED <<up, slot, aged, granted, entries, inflight>>

\* Mutant of Join: the entry looked up is used whether there is one or not.
JoinUnasked(c) ==
  /\ At(c, "stale")
  /\ caller' = [caller EXCEPT ![c].pc = "waiting", ![c].entry = inflight[Id(c)]]
  /\ UNCHANGED <<up, slot, aged, granted, entries, inflight>>

Join(c) ==
  /\ At(c, "stale")
  /\ inflight[Id(c)] # 0
  /\ caller' = [caller EXCEPT ![c].pc = "waiting", ![c].entry = inflight[Id(c)]]
  /\ UNCHANGED <<up, slot, aged, granted, entries, inflight>>

\* Mutant of Lead: the account's ID is looked up, but the entry is registered
\* without regard to what was found.
LeadUnasked(c) ==
  /\ At(c, "stale")
  /\ Len(entries) < MaxCalls
  /\ entries' = Append(entries, [id |-> Id(c), state |-> "open", result |-> NoTokens])
  /\ inflight' = [inflight EXCEPT ![Id(c)] = Len(entries) + 1]
  /\ caller' = [caller EXCEPT ![c].pc = "leading", ![c].entry = Len(entries) + 1]
  /\ UNCHANGED <<up, slot, aged, granted>>

Lead(c) ==
  /\ At(c, "stale")
  /\ inflight[Id(c)] = 0
  /\ Len(entries) < MaxCalls
  /\ entries' = Append(entries, [id |-> Id(c), state |-> "open", result |-> NoTokens])
  /\ inflight' = [inflight EXCEPT ![Id(c)] = Len(entries) + 1]
  /\ caller' = [caller EXCEPT ![c].pc = "leading", ![c].entry = Len(entries) + 1]
  /\ UNCHANGED <<up, slot, aged, granted>>

Send(c) ==
  /\ At(c, "leading")
  /\ Id(c) \notin Malformed
  /\ Goto(c, "calling")
  /\ UNCHANGED <<up, slot, aged, granted, entries, inflight>>

\* http.NewRequest returns no request, its error is ignored, and the next line
\* panics.  The server recovers a handler's panic; the ticker's ends the process.
Panic(c) ==
  /\ At(c, "leading")
  /\ Id(c) \in Malformed
  /\ up' = (c # Ticker)
  /\ Finish(c)
  /\ UNCHANGED <<slot, aged, granted, entries, inflight>>

\* The call returns: the entry gets the result and done is closed.
Granted(c, rotates) ==
  LET n == granted[Id(c)] + 1 IN
  /\ granted' = [granted EXCEPT ![Id(c)] = n]
  /\ entries' = [entries EXCEPT
       ![caller[c].entry].state = "granted",
       ![caller[c].entry].result = [access |-> n, refresh |-> IF rotates THEN n ELSE 0]]

\* Mutant of Failed: the entry is closed only after a success.
FailedOpen(c) == UNCHANGED <<granted, entries>>

Failed(c) ==
  /\ entries' = [entries EXCEPT ![caller[c].entry].state = "failed"]
  /\ UNCHANGED granted

Answer(c) ==
  /\ At(c, "calling")
  /\ Failed(c) \/ \E rotates \in BOOLEAN : Granted(c, rotates)
  /\ Goto(c, "answered")
  /\ UNCHANGED <<up, slot, aged, inflight>>

\* RefreshToken goes on to apply the result, or returns the error.
UseResult(c) ==
  \/ Entry(c).state = "granted" /\ Goto(c, "applying")
  \/ Entry(c).state = "failed" /\ Finish(c)

\* Mutant of Leave: an error returns before the entry is deleted.
LeaveOnSuccess(c) ==
  /\ At(c, "answered")
  /\ inflight' = IF Entry(c).state = "failed" THEN inflight
                 ELSE [inflight EXCEPT ![Id(c)] = 0]
  /\ UseResult(c)
  /\ UNCHANGED <<up, slot, aged, granted, entries>>

\* The leader deletes whatever is in flight for its account.
Leave(c) ==
  /\ At(c, "answered")
  /\ inflight' = [inflight EXCEPT ![Id(c)] = 0]
  /\ UseResult(c)
  /\ UNCHANGED <<up, slot, aged, granted, entries>>

Await(c) ==
  /\ At(c, "waiting")
  /\ Entry(c).state # "open"
  /\ UseResult(c)
  /\ UNCHANGED <<up, slot, aged, granted, entries, inflight>>

\* An answer without a refresh token keeps the one there is.
Applied(tokens, result) ==
  [access  |-> result.access,
   refresh |-> IF result.refresh = 0 THEN tokens.refresh ELSE result.refresh]

Apply(c) ==
  LET tokens == Applied(View(c), Entry(c).result) IN
  /\ At(c, "applying")
  /\ IF c \in Admins
     THEN /\ caller' = [caller EXCEPT ![c].pc = "applied", ![c].own = tokens]
          /\ UNCHANGED slot
     ELSE /\ slot' = [slot EXCEPT ![Id(c)] = tokens]
          /\ Goto(c, "applied")
  /\ UNCHANGED <<up, aged, granted, entries, inflight>>

\* The arguments of UpdateAccountToken are read, without its lock ...
ReadArguments(c) ==
  /\ At(c, "applied")
  /\ caller' = [caller EXCEPT ![c].pc = "storing", ![c].own = View(c)]
  /\ UNCHANGED <<up, slot, aged, granted, entries, inflight>>

\* Mutant of UpdateAccountToken: only the access token is updated.
UpdateAccessToken(c) ==
  /\ At(c, "storing")
  /\ slot' = [slot EXCEPT ![Id(c)].access = caller[c].own.access]
  /\ Finish(c)
  /\ UNCHANGED <<up, aged, granted, entries, inflight>>

\* ... and stored under it.
UpdateAccountToken(c) ==
  /\ At(c, "storing")
  /\ slot' = [slot EXCEPT ![Id(c)] = Applied(@, caller[c].own)]
  /\ Finish(c)
  /\ UNCHANGED <<up, aged, granted, entries, inflight>>

\* Time passes, and the last grant comes within the refresh skew.
Age(a) ==
  /\ up
  /\ aged[a] < granted[a]
  /\ aged' = [aged EXCEPT ![a] = granted[a]]
  /\ UNCHANGED <<up, slot, granted, entries, inflight, caller>>

Progress(c) == Join(c) \/ Lead(c) \/ Send(c) \/ Panic(c) \/ Leave(c) \/ Await(c)
               \/ Apply(c) \/ ReadArguments(c) \/ UpdateAccountToken(c)

Next ==
  \/ \E c \in Callers, a \in Accounts : Check(c, a)
  \/ \E c \in Callers : Progress(c) \/ Answer(c)
  \/ \E a \in Accounts : Age(a)

Spec == Init /\ [][Next]_vars

\* Callers do not stop between two steps of their own.  A call upstream may
\* stay without an answer: http.DefaultClient has no time limit.
FairSpec == Spec /\ \A c \in Callers : WF_vars(Progress(c))

--------------------------------------------------------------------------------
InCall(c) == caller[c].pc \in {"leading", "calling"}

\* Never are two calls for one account on their way to upstream, whoever asks
\* and however late a caller finds out that the call it waited for is over.
OneCallAtATime ==
  \A c, d \in Callers : InCall(c) /\ InCall(d) /\ Id(c) = Id(d) => c = d

\* Somebody leads the call in flight for the account and will delete its entry.
HasLeader(a) ==
  \E c \in Callers : /\ caller[c].pc \in {"leading", "calling", "answered"}
                     /\ Id(c) = a
                     /\ caller[c].entry = inflight[a]

\* The table of refreshes in flight holds only refreshes that are in progress,
\* after errors too; an entry without its leader would block the account for good.
NoEntryLeftBehind == \A a \in Accounts \ Malformed : inflight[a] # 0 => HasLeader(a)

\* refresh.go:33: "inflight tracks in-progress refresh calls", for every account.
InflightInProgress == \A a \in Accounts : inflight[a] # 0 => HasLeader(a)

\* Whoever waits for a call gets away when it returns, whatever it returned and
\* whoever calls next, unless a panic has left the account's entry behind.
WaitersEnd ==
  \A c \in Callers, a \in Accounts \ Malformed :
    (At(c, "waiting") /\ Id(c) = a) ~>
      \/ ~(At(c, "waiting") /\ Id(c) = a)
      \/ [](\E d \in Callers : At(d, "calling") /\ Id(d) = a)

HasGrant(i) ==
  \E c \in Callers : At(c, "answered") /\ caller[c].entry = i /\ entries[i].state = "granted"
IsStored(i) ==
  LET e == entries[i]
      tokens == slot[e.id]
  IN /\ i \in DOMAIN entries
     /\ tokens.access = e.result.access
     /\ e.result.refresh # 0 => tokens.refresh = e.result.refresh

\* Tokens that upstream has granted get into the account, the rotated refresh
\* token included, whether the leader held a pointer or a copy, unless the
\* process dies first.
GrantsAreStored ==
  \A i \in 1..MaxCalls : HasGrant(i) ~> (up => IsStored(i))
================================================================================
