--------------------------- MODULE TokenRefreshProofs ---------------------------
(***************************************************************************)
(* Theorems about TokenRefresh for every number of accounts, callers and   *)
(* calls, with proofs for TLAPS.                                           *)
(***************************************************************************)
EXTENDS TokenRefresh, TLAPS

\* The caller leads the call its entry stands for and has yet to delete it.
Leads(c) == caller[c].pc \in {"leading", "calling", "answered"}

\* The entry of whoever leads is the one in flight for its account, and it has
\* no other leader.
LeaderInv ==
  /\ \A c \in Callers : Leads(c) => inflight[Id(c)] = caller[c].entry
  /\ \A c, d \in Callers : Leads(c) /\ Leads(d) /\ caller[c].entry = caller[d].entry => c = d

Inv == TypeOK /\ LeaderInv

--------------------------------------------------------------------------------
(* Lemmas about the updates.                                                  *)

\* A caller whose locals change well-typedly leaves the others alone.
LEMMA CallerUpdate ==
  ASSUME TypeOK, NEW c \in Callers, NEW q \in CallerType,
         q.pc # "idle" => q.id \in Accounts,
         q.pc \notin {"idle", "stale"} => q.entry \in DOMAIN entries,
         caller' = [caller EXCEPT ![c] = q], UNCHANGED entries
  PROVE  /\ caller' \in [Callers -> CallerType]
         /\ \A x \in Callers :
              /\ caller'[x].pc # "idle" => caller'[x].id \in Accounts
              /\ caller'[x].pc \notin {"idle", "stale"} => caller'[x].entry \in DOMAIN entries'
BY DEF TypeOK

\* A caller that is not idle and moves on stays well-typed.
LEMMA GotoType ==
  ASSUME TypeOK, NEW c \in Callers, caller[c].pc \notin {"idle", "stale"},
         NEW pc \in Pcs, Goto(c, pc), DOMAIN entries' = DOMAIN entries
  PROVE  /\ caller' \in [Callers -> CallerType]
         /\ \A x \in Callers :
              /\ caller'[x].pc # "idle" => caller'[x].id \in Accounts
              /\ caller'[x].pc \notin {"idle", "stale"} => caller'[x].entry \in DOMAIN entries'
BY DEF TypeOK, Goto, CallerType

\* A caller that is done stays well-typed.
LEMMA FinishType ==
  ASSUME TypeOK, NEW c \in Callers, Finish(c), UNCHANGED entries
  PROVE  /\ caller' \in [Callers -> CallerType]
         /\ \A x \in Callers :
              /\ caller'[x].pc # "idle" => caller'[x].id \in Accounts
              /\ caller'[x].pc \notin {"idle", "stale"} => caller'[x].entry \in DOMAIN entries'
<1>1. Idle \in CallerType /\ Idle.pc = "idle"
  BY DEF Idle, CallerType, Pcs, NoTokens, Tokens
<1> QED BY <1>1, CallerUpdate DEF Finish

\* The entries are numbered from 1 and well-typed.
LEMMA EntryFacts ==
  ASSUME TypeOK
  PROVE  /\ Len(entries) \in Nat
         /\ DOMAIN entries = 1..Len(entries)
         /\ \A i \in DOMAIN entries : entries[i] \in EntryType
BY DEF TypeOK

\* An entry that changes well-typedly leaves the sequence well-typed.
LEMMA EntryUpdate ==
  ASSUME TypeOK, NEW i \in DOMAIN entries, NEW e \in EntryType,
         entries' = [entries EXCEPT ![i] = e]
  PROVE  /\ entries' \in Seq(EntryType)
         /\ Len(entries') = Len(entries)
         /\ DOMAIN entries' = DOMAIN entries
BY DEF TypeOK

\* The result of a call is put into an account or a copy as tokens.
LEMMA AppliedType ==
  ASSUME NEW tokens \in Tokens, NEW result \in Tokens
  PROVE  Applied(tokens, result) \in Tokens
BY DEF Applied, Tokens

--------------------------------------------------------------------------------
(* Type correctness.                                                          *)

LEMMA TypeInit == Init => TypeOK
<1> SUFFICES ASSUME Init PROVE TypeOK
  OBVIOUS
<1>1. Idle \in CallerType /\ Idle.pc = "idle"
  BY DEF Idle, CallerType, Pcs, NoTokens, Tokens
<1>2. slot \in [Accounts -> Tokens]
  BY DEF Init, Tokens
<1>3. entries \in Seq(EntryType) /\ Len(entries) = 0
  BY DEF Init
<1> QED BY <1>1, <1>2, <1>3, BoundAssumption DEF Init, TypeOK

LEMMA TypeStep == TypeOK /\ [Next]_vars => TypeOK'
<1> SUFFICES ASSUME TypeOK, [Next]_vars PROVE TypeOK'
  OBVIOUS
<1> USE DEF At
<1>1. ASSUME NEW c \in Callers, NEW a \in Accounts, Check(c, a) PROVE TypeOK'
  <2> DEFINE copy == IF c \in Admins THEN slot[a] ELSE NoTokens
             q == [caller[c] EXCEPT !.pc = "stale", !.id = a, !.own = copy]
  <2>0. copy \in Tokens
    BY DEF TypeOK, NoTokens, Tokens
  <2>1. q \in CallerType
    BY <2>0 DEF TypeOK, CallerType, Pcs
  <2>2. caller' = [caller EXCEPT ![c] = q]
    BY <1>1 DEF Check, TypeOK, CallerType
  <2>3. q.pc = "stale" /\ q.id = a
    BY DEF TypeOK, CallerType
  <2> HIDE DEF q
  <2> QED BY <1>1, <2>1, <2>2, <2>3, CallerUpdate DEF Check, TypeOK
<1>2. ASSUME NEW c \in Callers, Join(c) PROVE TypeOK'
  <2> DEFINE q == [caller[c] EXCEPT !.pc = "waiting", !.entry = inflight[Id(c)]]
  <2>1. Id(c) \in Accounts
    BY <1>2 DEF Join, TypeOK, Id
  <2>2. inflight[Id(c)] \in DOMAIN entries
    BY <1>2, <2>1, EntryFacts DEF Join, TypeOK
  <2>3. q \in CallerType /\ q.pc = "waiting" /\ q.id \in Accounts /\ q.entry \in DOMAIN entries
    <3>1. inflight[Id(c)] \in Nat /\ caller[c] \in CallerType
      BY <2>2, EntryFacts DEF TypeOK
    <3>2. Id(c) = caller[c].id
      BY DEF Id
    <3> HIDE DEF Id
    <3> QED BY <2>1, <2>2, <3>1, <3>2 DEF CallerType, Pcs
  <2>4. caller' = [caller EXCEPT ![c] = q]
    BY <1>2 DEF Join, TypeOK, CallerType
  <2> HIDE DEF q
  <2> QED BY <1>2, <2>3, <2>4, CallerUpdate DEF Join, TypeOK
<1>3. ASSUME NEW c \in Callers, Lead(c) PROVE TypeOK'
  <2> DEFINE e == [id |-> Id(c), state |-> "open", result |-> NoTokens]
  <2>1. Id(c) \in Accounts
    BY <1>3 DEF Lead, TypeOK, Id
  <2>2. e \in EntryType
    BY <2>1 DEF EntryType, NoTokens, Tokens
  <2>3. /\ entries' = Append(entries, e)
        /\ entries' \in Seq(EntryType)
        /\ Len(entries') = Len(entries) + 1
        /\ Len(entries) \in Nat
    BY <1>3, <2>2 DEF Lead, TypeOK
  <2> HIDE DEF e
  <2>4. DOMAIN entries' = 1..(Len(entries) + 1) /\ DOMAIN entries = 1..Len(entries)
    BY <2>3 DEF TypeOK
  <2>5. Len(entries') <= MaxCalls
    BY <1>3, <2>3, BoundAssumption DEF Lead
  <2>6. inflight' \in [Accounts -> 0..Len(entries')]
    <3>1. inflight' = [inflight EXCEPT ![Id(c)] = Len(entries')]
      BY <1>3, <2>3 DEF Lead
    <3>2. Len(entries') \in 0..Len(entries') /\ 0..Len(entries) \subseteq 0..Len(entries')
      BY <2>3
    <3> QED BY <3>1, <3>2 DEF TypeOK
  <2>7. caller' \in [Callers -> CallerType]
    <3>1. caller' = [caller EXCEPT ![c].pc = "leading", ![c].entry = Len(entries')]
      BY <1>3, <2>3 DEF Lead
    <3>2. Len(entries') \in Nat
      BY <2>3
    <3> QED BY <3>1, <3>2 DEF TypeOK, CallerType, Pcs
  <2>8. ASSUME NEW x \in Callers
        PROVE  /\ caller'[x].pc # "idle" => caller'[x].id \in Accounts
               /\ caller'[x].pc \notin {"idle", "stale"} => caller'[x].entry \in DOMAIN entries'
    <3>1. CASE x = c
      BY <1>3, <2>1, <2>3, <2>4, <3>1 DEF Lead, TypeOK, CallerType, Id
    <3>2. CASE x # c
      BY <1>3, <2>3, <2>4, <3>2 DEF Lead, TypeOK
    <3> QED BY <3>1, <3>2
  <2> QED BY <1>3, <2>3, <2>5, <2>6, <2>7, <2>8 DEF Lead, TypeOK
<1>4. ASSUME NEW c \in Callers, Send(c) PROVE TypeOK'
  <2>1. "calling" \in Pcs /\ caller[c].pc \notin {"idle", "stale"}
    BY <1>4 DEF Send, Pcs
  <2> QED BY <1>4, <2>1, GotoType DEF Send, TypeOK
<1>5. ASSUME NEW c \in Callers, Panic(c) PROVE TypeOK'
  BY <1>5, FinishType DEF Panic, TypeOK
<1>6. ASSUME NEW c \in Callers, Answer(c) PROVE TypeOK'
  <2>1. /\ "answered" \in Pcs
        /\ caller[c].pc \notin {"idle", "stale"}
        /\ caller[c].entry \in DOMAIN entries
        /\ Id(c) \in Accounts
    BY <1>6 DEF Answer, Pcs, TypeOK, Id
  <2>2. /\ entries' \in Seq(EntryType)
        /\ Len(entries') = Len(entries)
        /\ DOMAIN entries' = DOMAIN entries
        /\ granted' \in [Accounts -> Nat]
    <3>1. CASE Failed(c)
      <4> DEFINE e == [Entry(c) EXCEPT !.state = "failed"]
      <4>1. e \in EntryType
        BY <2>1, EntryFacts DEF Entry, EntryType
      <4>2. entries' = [entries EXCEPT ![caller[c].entry] = e]
        BY <3>1 DEF Failed, Entry
      <4> HIDE DEF e
      <4> QED BY <2>1, <3>1, <4>1, <4>2, EntryUpdate DEF Failed, TypeOK
    <3>2. ASSUME NEW rotates \in BOOLEAN, Granted(c, rotates)
          PROVE  /\ entries' \in Seq(EntryType)
                 /\ Len(entries') = Len(entries)
                 /\ DOMAIN entries' = DOMAIN entries
                 /\ granted' \in [Accounts -> Nat]
      <4> DEFINE n == granted[Id(c)] + 1
                 r == [access |-> n, refresh |-> IF rotates THEN n ELSE 0]
      <4>1. n \in Nat /\ r \in Tokens
        BY <2>1 DEF TypeOK, Tokens
      <4>2. granted' = [granted EXCEPT ![Id(c)] = n]
        BY <3>2 DEF Granted
      <4>3. entries' = [entries EXCEPT ![caller[c].entry].state = "granted",
                                       ![caller[c].entry].result = r]
        BY <3>2 DEF Granted
      <4> HIDE DEF n, r
      <4> DEFINE e == [Entry(c) EXCEPT !.state = "granted", !.result = r]
      <4>4. e \in EntryType
        BY <2>1, <4>1, EntryFacts DEF Entry, EntryType
      <4>5. entries' = [entries EXCEPT ![caller[c].entry] = e]
        BY <2>1, <4>3, EntryFacts DEF Entry
      <4> HIDE DEF e
      <4> QED BY <2>1, <4>1, <4>2, <4>4, <4>5, EntryUpdate DEF TypeOK
    <3> QED BY <1>6, <3>1, <3>2 DEF Answer
  <2> QED BY <1>6, <2>1, <2>2, GotoType DEF Answer, TypeOK
<1>7. ASSUME NEW c \in Callers, UseResult(c), UNCHANGED entries,
             caller[c].pc \notin {"idle", "stale"}
      PROVE  /\ caller' \in [Callers -> CallerType]
             /\ \A x \in Callers :
                  /\ caller'[x].pc # "idle" => caller'[x].id \in Accounts
                  /\ caller'[x].pc \notin {"idle", "stale"} => caller'[x].entry \in DOMAIN entries'
  <2>1. "applying" \in Pcs
    BY DEF Pcs
  <2> QED BY <1>7, <2>1, GotoType, FinishType DEF UseResult
<1>8. ASSUME NEW c \in Callers, Leave(c) PROVE TypeOK'
  <2>1. inflight' \in [Accounts -> 0..Len(entries)]
    <3>1. inflight' = [inflight EXCEPT ![Id(c)] = 0]
      BY <1>8 DEF Leave
    <3>2. 0 \in 0..Len(entries)
      BY EntryFacts
    <3> QED BY <3>1, <3>2 DEF TypeOK
  <2> QED BY <1>7, <1>8, <2>1 DEF Leave, TypeOK
<1>9. ASSUME NEW c \in Callers, Await(c) PROVE TypeOK'
  BY <1>7, <1>9 DEF Await, TypeOK
<1>10. ASSUME NEW c \in Callers, Apply(c) PROVE TypeOK'
  <2> DEFINE tokens == Applied(View(c), Entry(c).result)
  <2>1. /\ caller[c].entry \in DOMAIN entries
        /\ Id(c) \in Accounts
        /\ "applied" \in Pcs
        /\ caller[c].pc \notin {"idle", "stale"}
    BY <1>10 DEF Apply, TypeOK, Id, Pcs
  <2>2. View(c) \in Tokens
    BY <2>1 DEF View, TypeOK, CallerType
  <2>3. Entry(c).result \in Tokens
    BY <2>1, EntryFacts DEF Entry, EntryType
  <2>4. tokens \in Tokens
    BY <2>2, <2>3, AppliedType
  <2>5. CASE c \in Admins
    <3> DEFINE q == [caller[c] EXCEPT !.pc = "applied", !.own = tokens]
    <3>1. q \in CallerType /\ q.id \in Accounts /\ q.entry \in DOMAIN entries
      BY <2>1, <2>4 DEF TypeOK, CallerType, Id
    <3>2. caller' = [caller EXCEPT ![c] = q]
      BY <1>10, <2>5 DEF Apply, TypeOK, CallerType
    <3> HIDE DEF q
    <3> QED BY <1>10, <2>5, <3>1, <3>2, CallerUpdate DEF Apply, TypeOK
  <2>6. CASE c \notin Admins
    <3>1. slot' = [slot EXCEPT ![Id(c)] = tokens] /\ Goto(c, "applied")
      BY <1>10, <2>6 DEF Apply
    <3>2. slot' \in [Accounts -> Tokens]
      BY <2>4, <3>1 DEF TypeOK
    <3> QED BY <1>10, <2>1, <3>1, <3>2, GotoType DEF Apply, TypeOK
  <2> QED BY <2>5, <2>6
<1>11. ASSUME NEW c \in Callers, ReadArguments(c) PROVE TypeOK'
  <2> DEFINE q == [caller[c] EXCEPT !.pc = "storing", !.own = View(c)]
  <2>1. /\ caller[c].entry \in DOMAIN entries
        /\ Id(c) \in Accounts
    BY <1>11 DEF ReadArguments, TypeOK, Id
  <2>2. View(c) \in Tokens
    BY <2>1 DEF View, TypeOK, CallerType
  <2>3. q \in CallerType /\ q.id \in Accounts /\ q.entry \in DOMAIN entries
    BY <2>1, <2>2 DEF TypeOK, CallerType, Id, Pcs
  <2>4. caller' = [caller EXCEPT ![c] = q]
    BY <1>11 DEF ReadArguments, TypeOK, CallerType
  <2> HIDE DEF q
  <2> QED BY <1>11, <2>3, <2>4, CallerUpdate DEF ReadArguments, TypeOK
<1>12. ASSUME NEW c \in Callers, UpdateAccountToken(c) PROVE TypeOK'
  <2>1. Id(c) \in Accounts
    BY <1>12 DEF UpdateAccountToken, TypeOK, Id
  <2>2. Applied(slot[Id(c)], caller[c].own) \in Tokens
    BY <2>1, AppliedType DEF TypeOK, CallerType
  <2>3. slot' \in [Accounts -> Tokens]
    BY <1>12, <2>1, <2>2 DEF UpdateAccountToken, TypeOK
  <2> QED BY <1>12, <2>3, FinishType DEF UpdateAccountToken, TypeOK
<1>13. ASSUME NEW a \in Accounts, Age(a) PROVE TypeOK'
  BY <1>13 DEF Age, TypeOK
<1>14. CASE UNCHANGED vars
  BY <1>14 DEF vars, TypeOK
<1> QED BY <1>1, <1>2, <1>3, <1>4, <1>5, <1>6, <1>8, <1>9, <1>10, <1>11, <1>12, <1>13, <1>14
        DEF Next, Progress

--------------------------------------------------------------------------------
(* The leaders.                                                               *)

LEMMA LeaderInit == Init => LeaderInv
BY DEF Init, LeaderInv, Leads, Idle

\* A step that makes nobody a leader, moves no leader to another account or
\* entry and leaves the table alone.
LEMMA LeadersStay ==
  ASSUME LeaderInv, UNCHANGED inflight,
         \A c \in Callers : Leads(c)' => /\ Leads(c)
                                         /\ caller'[c].id = caller[c].id
                                         /\ caller'[c].entry = caller[c].entry
  PROVE  LeaderInv'
BY DEF LeaderInv, Id

LEMMA LeaderStep == TypeOK /\ LeaderInv /\ [Next]_vars => LeaderInv'
<1> SUFFICES ASSUME TypeOK, LeaderInv, [Next]_vars PROVE LeaderInv'
  OBVIOUS
<1> USE DEF At
<1>0. caller \in [Callers -> CallerType]
  BY DEF TypeOK
<1>1. ASSUME NEW c \in Callers, NEW a \in Accounts, Check(c, a) PROVE LeaderInv'
  BY <1>0, <1>1, LeadersStay DEF Check, Leads, CallerType
<1>2. ASSUME NEW c \in Callers, Join(c) PROVE LeaderInv'
  BY <1>0, <1>2, LeadersStay DEF Join, Leads, CallerType
<1>3. ASSUME NEW c \in Callers, Lead(c) PROVE LeaderInv'
  <2> DEFINE n == Len(entries) + 1
  <2>1. /\ Id(c) \in Accounts
        /\ DOMAIN entries = 1..Len(entries)
        /\ Len(entries) \in Nat
    BY <1>3 DEF Lead, TypeOK, Id
  <2>2. /\ inflight' = [inflight EXCEPT ![Id(c)] = n]
        /\ caller' = [caller EXCEPT ![c].pc = "leading", ![c].entry = n]
    BY <1>3 DEF Lead
  <2>3. /\ Leads(c)' /\ Id(c)' = Id(c) /\ caller'[c].entry = n
        /\ \A d \in Callers \ {c} : caller'[d] = caller[d]
    BY <1>0, <2>2 DEF Leads, Id, CallerType
  <2>4. ASSUME NEW d \in Callers \ {c}, Leads(d)
        PROVE  Id(d) # Id(c) /\ Id(d) \in Accounts /\ caller[d].entry # n
    <3>1. caller[d].entry \in 1..Len(entries) /\ Id(d) \in Accounts
      BY <2>1, <2>4 DEF Leads, TypeOK, Id
    <3>2. inflight[Id(d)] = caller[d].entry
      BY <2>4 DEF LeaderInv
    <3>3. inflight[Id(c)] = 0
      BY <1>3 DEF Lead
    <3> QED BY <2>1, <3>1, <3>2, <3>3
  <2>5. \A d \in Callers : Leads(d)' => inflight'[Id(d)'] = caller'[d].entry
    <3> TAKE d \in Callers
    <3>1. CASE d = c
      BY <2>1, <2>2, <2>3, <3>1 DEF TypeOK
    <3>2. CASE d # c
      BY <2>2, <2>3, <2>4, <3>2 DEF TypeOK, LeaderInv, Leads, Id
    <3> QED BY <3>1, <3>2
  <2>6. \A d, x \in Callers :
          Leads(d)' /\ Leads(x)' /\ caller'[d].entry = caller'[x].entry => d = x
    BY <2>3, <2>4 DEF LeaderInv, Leads
  <2> QED BY <2>5, <2>6 DEF LeaderInv
<1>4. ASSUME NEW c \in Callers, Send(c) PROVE LeaderInv'
  BY <1>0, <1>4, LeadersStay DEF Send, Goto, Leads, CallerType
<1>5. ASSUME NEW c \in Callers, Panic(c) PROVE LeaderInv'
  BY <1>0, <1>5, LeadersStay DEF Panic, Finish, Idle, Leads, CallerType
<1>6. ASSUME NEW c \in Callers, Answer(c) PROVE LeaderInv'
  BY <1>0, <1>6, LeadersStay DEF Answer, Goto, Leads, CallerType
<1>7. ASSUME NEW c \in Callers, Leave(c) PROVE LeaderInv'
  <2>1. /\ ~Leads(c)'
        /\ \A d \in Callers \ {c} : caller'[d] = caller[d]
    BY <1>0, <1>7 DEF Leave, UseResult, Goto, Finish, Idle, Leads, CallerType
  <2>2. Leads(c) /\ Id(c) \in Accounts
    BY <1>7 DEF Leave, Leads, TypeOK, Id
  <2>3. ASSUME NEW d \in Callers \ {c}, Leads(d)
        PROVE  inflight'[Id(d)] = inflight[Id(d)]
    <3>1. Id(d) \in Accounts
      BY <2>3 DEF Leads, TypeOK, Id
    <3>2. Id(d) # Id(c)
      BY <2>2, <2>3 DEF LeaderInv
    <3> QED BY <1>7, <3>1, <3>2 DEF Leave, TypeOK
  <2> QED BY <2>1, <2>3 DEF LeaderInv, Leads, Id
<1>8. ASSUME NEW c \in Callers, Await(c) PROVE LeaderInv'
  BY <1>0, <1>8, LeadersStay DEF Await, UseResult, Goto, Finish, Idle, Leads, CallerType
<1>9. ASSUME NEW c \in Callers, Apply(c) PROVE LeaderInv'
  BY <1>0, <1>9, LeadersStay DEF Apply, Goto, Leads, CallerType
<1>10. ASSUME NEW c \in Callers, ReadArguments(c) PROVE LeaderInv'
  BY <1>0, <1>10, LeadersStay DEF ReadArguments, Leads, CallerType
<1>11. ASSUME NEW c \in Callers, UpdateAccountToken(c) PROVE LeaderInv'
  BY <1>0, <1>11, LeadersStay DEF UpdateAccountToken, Finish, Idle, Leads, CallerType
<1>12. ASSUME NEW a \in Accounts, Age(a) PROVE LeaderInv'
  BY <1>12, LeadersStay DEF Age, Leads
<1>13. CASE UNCHANGED vars
  BY <1>13, LeadersStay DEF vars, Leads
<1> QED BY <1>1, <1>2, <1>3, <1>4, <1>5, <1>6, <1>7, <1>8, <1>9, <1>10, <1>11, <1>12, <1>13
        DEF Next, Progress

--------------------------------------------------------------------------------
(* The entries.                                                               *)

\* A step that changes no entry in flight and leaves every leader where it is.
LEMMA EntriesStay ==
  ASSUME NoEntryLeftBehind, UNCHANGED inflight,
         \A c \in Callers : Leads(c) /\ Id(c) \notin Malformed =>
           /\ Leads(c)'
           /\ caller'[c].id = caller[c].id
           /\ caller'[c].entry = caller[c].entry
  PROVE  NoEntryLeftBehind'
<1> SUFFICES ASSUME NEW a \in Accounts \ Malformed, inflight'[a] # 0
             PROVE  HasLeader(a)'
  BY DEF NoEntryLeftBehind
<1>1. PICK c \in Callers : Leads(c) /\ Id(c) = a /\ caller[c].entry = inflight[a]
  BY DEF NoEntryLeftBehind, HasLeader, Leads
<1> QED BY <1>1 DEF HasLeader, Leads, Id

LEMMA EntryStep == TypeOK /\ NoEntryLeftBehind /\ [Next]_vars => NoEntryLeftBehind'
<1> SUFFICES ASSUME TypeOK, NoEntryLeftBehind, [Next]_vars PROVE NoEntryLeftBehind'
  OBVIOUS
<1> USE DEF At
<1>0. caller \in [Callers -> CallerType]
  BY DEF TypeOK
<1>1. ASSUME NEW c \in Callers, NEW a \in Accounts, Check(c, a) PROVE NoEntryLeftBehind'
  BY <1>0, <1>1, EntriesStay DEF Check, Leads, CallerType
<1>2. ASSUME NEW c \in Callers, Join(c) PROVE NoEntryLeftBehind'
  BY <1>0, <1>2, EntriesStay DEF Join, Leads, CallerType
<1>3. ASSUME NEW c \in Callers, Lead(c) PROVE NoEntryLeftBehind'
  <2> SUFFICES ASSUME NEW a \in Accounts \ Malformed, inflight'[a] # 0
               PROVE  HasLeader(a)'
    BY DEF NoEntryLeftBehind
  <2>1. /\ inflight' = [inflight EXCEPT ![Id(c)] = Len(entries) + 1]
        /\ caller' = [caller EXCEPT ![c].pc = "leading", ![c].entry = Len(entries) + 1]
    BY <1>3 DEF Lead
  <2>2. CASE a = Id(c)
    <3>1. inflight'[a] = Len(entries) + 1
      BY <2>1, <2>2 DEF TypeOK
    <3>2. /\ caller'[c].pc = "leading" /\ caller'[c].id = caller[c].id
          /\ caller'[c].entry = Len(entries) + 1
      BY <1>0, <2>1 DEF CallerType
    <3> QED BY <2>2, <3>1, <3>2 DEF HasLeader, Id
  <2>3. CASE a # Id(c)
    <3>1. inflight'[a] = inflight[a]
      BY <2>1, <2>3 DEF TypeOK
    <3>2. PICK d \in Callers : Leads(d) /\ Id(d) = a /\ caller[d].entry = inflight[a]
      BY <3>1 DEF NoEntryLeftBehind, HasLeader, Leads
    <3>3. caller'[d] = caller[d]
      BY <1>0, <2>1, <2>3, <3>2
    <3> QED BY <3>1, <3>2, <3>3 DEF HasLeader, Leads, Id
  <2> QED BY <2>2, <2>3
<1>4. ASSUME NEW c \in Callers, Send(c) PROVE NoEntryLeftBehind'
  BY <1>0, <1>4, EntriesStay DEF Send, Goto, Leads, CallerType
<1>5. ASSUME NEW c \in Callers, Panic(c) PROVE NoEntryLeftBehind'
  BY <1>0, <1>5, EntriesStay DEF Panic, Finish, Leads, CallerType
<1>6. ASSUME NEW c \in Callers, Answer(c) PROVE NoEntryLeftBehind'
  BY <1>0, <1>6, EntriesStay DEF Answer, Goto, Leads, CallerType
<1>7. ASSUME NEW c \in Callers, Leave(c) PROVE NoEntryLeftBehind'
  <2> SUFFICES ASSUME NEW a \in Accounts \ Malformed, inflight'[a] # 0
               PROVE  HasLeader(a)'
    BY DEF NoEntryLeftBehind
  <2>1. a # Id(c) /\ inflight'[a] = inflight[a]
    BY <1>7 DEF Leave, TypeOK
  <2>2. PICK d \in Callers : Leads(d) /\ Id(d) = a /\ caller[d].entry = inflight[a]
    BY <2>1 DEF NoEntryLeftBehind, HasLeader, Leads
  <2>3. caller'[d] = caller[d]
    BY <1>0, <1>7, <2>1, <2>2 DEF Leave, UseResult, Goto, Finish
  <2> QED BY <2>1, <2>2, <2>3 DEF HasLeader, Leads, Id
<1>8. ASSUME NEW c \in Callers, Await(c) PROVE NoEntryLeftBehind'
  BY <1>0, <1>8, EntriesStay DEF Await, UseResult, Goto, Finish, Leads, CallerType
<1>9. ASSUME NEW c \in Callers, Apply(c) PROVE NoEntryLeftBehind'
  BY <1>0, <1>9, EntriesStay DEF Apply, Goto, Leads, CallerType
<1>10. ASSUME NEW c \in Callers, ReadArguments(c) PROVE NoEntryLeftBehind'
  BY <1>0, <1>10, EntriesStay DEF ReadArguments, Leads, CallerType
<1>11. ASSUME NEW c \in Callers, UpdateAccountToken(c) PROVE NoEntryLeftBehind'
  BY <1>0, <1>11, EntriesStay DEF UpdateAccountToken, Finish, Leads, CallerType
<1>12. ASSUME NEW a \in Accounts, Age(a) PROVE NoEntryLeftBehind'
  BY <1>12, EntriesStay DEF Age, Leads
<1>13. CASE UNCHANGED vars
  BY <1>13, EntriesStay DEF vars, Leads
<1> QED BY <1>1, <1>2, <1>3, <1>4, <1>5, <1>6, <1>7, <1>8, <1>9, <1>10, <1>11, <1>12, <1>13
        DEF Next, Progress

--------------------------------------------------------------------------------
\* Whatever the callers do and however their steps are mixed, the store, the
\* table of calls in flight and what each caller holds stay what they are
\* declared to be; in particular a waiter waits for an account of the store.
THEOREM TypeCorrectRefresh == Spec => []TypeOK
BY TypeInit, TypeStep, PTL DEF Spec

\* For every number of callers and whatever their order, at most one refresh of
\* an account is on its way: each leader's entry is the one in the table.
THEOREM OneRefreshPerAccount == Spec => []OneCallAtATime
<1>1. Init => Inv
  BY TypeInit, LeaderInit DEF Inv
<1>2. Inv /\ [Next]_vars => Inv'
  BY TypeStep, LeaderStep DEF Inv
<1>3. Inv => OneCallAtATime
  BY DEF Inv, LeaderInv, OneCallAtATime, InCall, Leads
<1> QED BY <1>1, <1>2, <1>3, PTL DEF Spec

\* For every number of callers: an account whose endpoint makes a URL has an
\* entry in flight only while a call is in progress that will remove it.
THEOREM NoOrphanedEntry == Spec => []NoEntryLeftBehind
<1>1. Init => TypeOK /\ NoEntryLeftBehind
  BY TypeInit DEF Init, NoEntryLeftBehind
<1>2. TypeOK /\ NoEntryLeftBehind /\ [Next]_vars => (TypeOK /\ NoEntryLeftBehind)'
  BY TypeStep, EntryStep
<1> QED BY <1>1, <1>2, PTL DEF Spec
================================================================================
