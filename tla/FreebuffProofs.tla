---------------------------- MODULE FreebuffProofs ----------------------------
(***************************************************************************)
(* Proofs about Freebuff: the rotation of the proxies for any number of    *)
(* calls, proxies and refreshes.                                           *)
(*                                                                         *)
(* The invariant has two parts.  PoolInv is about the pool: every entry    *)
(* that is the first of its address has as many failures as have been      *)
(* reported in a row for that address.  WireInv is about the calls: a      *)
(* request has a proxy only while it dials through it.                     *)
(***************************************************************************)
EXTENDS Freebuff, FiniteSetTheorems, WellFoundedInduction, TLAPS

WireLabels == {"off", "ready", "socks", "direct", "tls", "sent", "pause"}
CallLabels == {"arrived", "run", "ask", "wait", "done"} \cup Requests

FailuresCounted ==
  \A i \in DOMAIN pool : i \in First(pool[i].proxy) => streak[pool[i].proxy] <= pool[i].failures

PoolInv ==
  /\ pool \in Seq(Entry)
  /\ current \in 0..Len(pool)
  /\ pool # <<>> => current < Len(pool)
  /\ streak \in [Proxies -> Nat]
  /\ FailuresCounted

WireInv ==
  /\ at \in [Calls -> CallLabels]
  /\ wire \in [Calls -> WireLabels]
  /\ via \in [Calls -> Proxies \cup {NoProxy}]
  /\ \A c \in Calls : via[c] # NoProxy => wire[c] \in {"socks", "tls"}
  /\ \A c \in Calls : wire[c] = "socks" => via[c] # NoProxy
  /\ \A c \in Calls : wire[c] # "off" <=> at[c] \in Requests

Inv == PoolInv /\ WireInv

\* What EvictedStayOut asks of a step.
TakesUsable ==
  \A c \in Calls :
    wire[c] = "ready" /\ wire'[c] = "socks" /\ ListedOnce(via'[c])
      => streak[via'[c]] < MaxFailures

LEMMA PoolUnchanged == PoolInv /\ UNCHANGED poolVars => PoolInv'
BY DEF PoolInv, FailuresCounted, First, poolVars

\* A step that gives no request a proxy.
LEMMA NobodyTakes ==
  ASSUME WireInv, NEW c \in Calls, NEW w \in WireLabels \ {"socks"},
         wire' = wire \/ wire' = [wire EXCEPT ![c] = w]
  PROVE  TakesUsable
BY DEF WireInv, TakesUsable

\* Entries that change, and keep their addresses, make a pool with the same first ones.
LEMMA PoolUpdate ==
  ASSUME pool \in Seq(Entry), pool' \in [1..Len(pool) -> Entry],
         \A i \in 1..Len(pool) : pool'[i].proxy = pool[i].proxy
  PROVE  /\ pool' \in Seq(Entry) /\ Len(pool') = Len(pool)
         /\ \A q : First(q)' = First(q)
<1>1. pool' \in [1..Len(pool) -> Entry]  OBVIOUS
<1>2. Len(pool) \in Nat /\ DOMAIN pool = 1..Len(pool)  OBVIOUS
<1>3. pool' \in Seq(Entry)  BY <1>1, <1>2
<1>4. DOMAIN pool' = 1..Len(pool)  BY <1>1
<1>5. Len(pool') = Len(pool)  BY <1>2, <1>3, <1>4
<1>6. \A i \in 1..Len(pool) : pool'[i].proxy = pool[i].proxy  OBVIOUS
<1>7. ASSUME NEW q PROVE First(q)' = First(q)
  <2>1. \A i \in 1..Len(pool) : \A j \in 1..(i - 1) : j \in 1..Len(pool)  BY <1>2
  <2>. QED  BY <1>2, <1>4, <1>6, <2>1 DEF First
<1>. QED  BY <1>3, <1>5, <1>7

\* The pool's reports keep its part.
LEMMA ReportsFailure ==
  ASSUME PoolInv, NEW p \in Proxies, MarkFailure(p), UNCHANGED current
  PROVE  PoolInv'
<1>. DEFINE n(i) == IF i \in First(p) THEN [pool[i] EXCEPT !.failures = @ + 1,
                       !.alive = @ /\ pool[i].failures + 1 < MaxFailures] ELSE pool[i]
<1>1. pool \in Seq(Entry) /\ DOMAIN pool = 1..Len(pool)  BY DEF PoolInv
<1>2. \A i \in 1..Len(pool) : pool[i] \in Entry  BY <1>1
<1>3. pool' = [i \in 1..Len(pool) |-> n(i)]  BY <1>1 DEF MarkFailure
<1>4. \A i \in 1..Len(pool) :
        n(i) \in Entry /\ n(i).proxy = pool[i].proxy /\ n(i).failures >= pool[i].failures
        /\ (i \in First(p) => n(i).failures = pool[i].failures + 1)
  <2>1. SUFFICES ASSUME NEW i \in 1..Len(pool)
                 PROVE  n(i) \in Entry /\ n(i).proxy = pool[i].proxy
                        /\ n(i).failures >= pool[i].failures
                        /\ (i \in First(p) => n(i).failures = pool[i].failures + 1)
    OBVIOUS
  <2>2. pool[i] \in Entry /\ pool[i].failures \in Nat  BY <1>2 DEF Entry
  <2>3. PICK alive \in BOOLEAN :
          n(i) = IF i \in First(p)
                 THEN [pool[i] EXCEPT !.failures = pool[i].failures + 1, !.alive = alive]
                 ELSE pool[i]
    <3>. DEFINE b == pool[i].alive /\ pool[i].failures + 1 < MaxFailures
    <3>1. b \in BOOLEAN  BY Zenon
    <3>2. n(i) = IF i \in First(p)
                 THEN [pool[i] EXCEPT !.failures = pool[i].failures + 1, !.alive = b]
                 ELSE pool[i]
      BY SMT
    <3>. HIDE DEF b, n
    <3>. QED  BY <3>1, <3>2, Zenon
  <2>4. pool[i].failures + 1 \in Nat  BY <2>2
  <2>. HIDE DEF n
  <2>5. CASE i \in First(p)
    <3>1. n(i) = [pool[i] EXCEPT !.failures = pool[i].failures + 1, !.alive = alive]
      BY <2>3, <2>5
    <3>2. n(i) \in Entry /\ n(i).proxy = pool[i].proxy
          /\ n(i).failures = pool[i].failures + 1
      BY <2>2, <2>4, <3>1 DEF Entry
    <3>. QED  BY <2>2, <3>2
  <2>6. CASE i \notin First(p)
    BY <2>2, <2>3, <2>6
  <2>. QED  BY <2>5, <2>6
<1>. HIDE DEF n
<1>5. /\ pool' \in Seq(Entry) /\ Len(pool') = Len(pool)
      /\ \A q : First(q)' = First(q)
  <2>1. pool' \in [1..Len(pool) -> Entry]  BY <1>3, <1>4
  <2>2. \A i \in 1..Len(pool) : pool'[i].proxy = pool[i].proxy  BY <1>3, <1>4
  <2>. QED  BY <1>1, <2>1, <2>2, PoolUpdate
<1>6. DOMAIN pool' = 1..Len(pool) /\ \A i \in 1..Len(pool) : pool'[i] = n(i)  BY <1>3
<1>7. streak' = [streak EXCEPT ![p] = IF @ < MaxFailures THEN @ + 1 ELSE @]
  BY DEF MarkFailure
<1>8. streak' \in [Proxies -> Nat]  BY <1>7 DEF PoolInv
<1>9. FailuresCounted'
  <2>1. SUFFICES ASSUME NEW i \in 1..Len(pool), i \in First(pool[i].proxy)
                 PROVE  streak'[pool[i].proxy] <= n(i).failures
    BY <1>4, <1>5, <1>6 DEF FailuresCounted
  <2>2. pool[i].proxy \in Proxies /\ pool[i].failures \in Nat /\ n(i).failures \in Nat
    BY <1>2, <1>4 DEF Entry
  <2>3. streak[pool[i].proxy] <= pool[i].failures  BY <1>1, <2>1 DEF PoolInv, FailuresCounted
  <2>4. streak \in [Proxies -> Nat]  BY DEF PoolInv
  <2>5. CASE pool[i].proxy = p
    <3>1. i \in First(p)  BY <2>1, <2>5
    <3>2. n(i).failures = pool[i].failures + 1  BY <1>4, <3>1
    <3>3. streak'[p] <= streak[p] + 1  BY <1>7, <2>4
    <3>. QED  BY <2>2, <2>3, <2>4, <2>5, <3>2, <3>3, <1>8
  <2>6. CASE pool[i].proxy # p
    <3>1. streak'[pool[i].proxy] = streak[pool[i].proxy]  BY <1>7, <2>2, <2>4, <2>6
    <3>. QED  BY <1>4, <2>2, <2>3, <2>4, <3>1
  <2>. QED  BY <2>5, <2>6
<1>. QED  BY <1>5, <1>8, <1>9 DEF PoolInv

LEMMA ReportsSuccess ==
  ASSUME PoolInv, NEW p \in Proxies, MarkSuccess(p), UNCHANGED current
  PROVE  PoolInv'
<1>. DEFINE n(i) == IF i \in First(p) THEN [pool[i] EXCEPT !.failures = 0, !.alive = TRUE]
                                      ELSE pool[i]
<1>1. pool \in Seq(Entry) /\ DOMAIN pool = 1..Len(pool)  BY DEF PoolInv
<1>2. \A i \in 1..Len(pool) : pool[i] \in Entry  BY <1>1
<1>3. pool' = [i \in 1..Len(pool) |-> n(i)]  BY <1>1 DEF MarkSuccess
<1>4. \A i \in 1..Len(pool) :
        n(i) \in Entry /\ n(i).proxy = pool[i].proxy
        /\ (i \notin First(p) => n(i) = pool[i])
  BY <1>2 DEF Entry
<1>. HIDE DEF n
<1>5. /\ pool' \in Seq(Entry) /\ Len(pool') = Len(pool)
      /\ \A q : First(q)' = First(q)
  <2>1. pool' \in [1..Len(pool) -> Entry]  BY <1>3, <1>4
  <2>2. \A i \in 1..Len(pool) : pool'[i].proxy = pool[i].proxy  BY <1>3, <1>4
  <2>. QED  BY <1>1, <2>1, <2>2, PoolUpdate
<1>6. DOMAIN pool' = 1..Len(pool) /\ \A i \in 1..Len(pool) : pool'[i] = n(i)  BY <1>3
<1>7. streak' = [streak EXCEPT ![p] = 0] /\ streak \in [Proxies -> Nat]
  BY DEF MarkSuccess, PoolInv
<1>8. streak' \in [Proxies -> Nat]  BY <1>7
<1>9. FailuresCounted'
  <2>1. SUFFICES ASSUME NEW i \in 1..Len(pool), i \in First(pool[i].proxy)
                 PROVE  streak'[pool[i].proxy] <= n(i).failures
    BY <1>4, <1>5, <1>6 DEF FailuresCounted
  <2>2. pool[i].proxy \in Proxies /\ n(i).failures \in Nat  BY <1>2, <1>4 DEF Entry
  <2>3. streak[pool[i].proxy] <= pool[i].failures  BY <1>1, <2>1 DEF PoolInv, FailuresCounted
  <2>4. CASE pool[i].proxy = p
    BY <1>7, <2>2, <2>4
  <2>5. CASE pool[i].proxy # p
    <3>1. i \notin First(p)  BY <2>5 DEF First
    <3>. QED  BY <1>4, <1>7, <2>2, <2>3, <2>5, <3>1
  <2>. QED  BY <2>4, <2>5
<1>. QED  BY <1>5, <1>8, <1>9 DEF PoolInv

\* A refresh brings entries without failures.
LEMMA ReplacesPool ==
  ASSUME NEW list \in Lists, NEW chosen \in SUBSET DOMAIN list, NEW alive \in BOOLEAN,
         Replace(list, chosen, alive)
  PROVE  PoolInv'
<1>. DEFINE n == Cardinality(chosen)
<1>1. list \in Seq([proxy : Proxies, country : Countries])  BY ListsAssumption
<1>2. /\ DOMAIN list = 1..Len(list) /\ Len(list) \in Nat
      /\ \A i \in DOMAIN list : list[i] \in [proxy : Proxies, country : Countries]
  <2>. DEFINE R == [proxy : Proxies, country : Countries]
  <2>1. list \in Seq(R)  BY <1>1
  <2>. HIDE DEF R
  <2>2. DOMAIN list = 1..Len(list) /\ Len(list) \in Nat /\ \A i \in DOMAIN list : list[i] \in R
    BY <2>1
  <2>. QED  BY <2>2 DEF R
<1>3. IsFiniteSet(chosen)
  <2>1. IsFiniteSet(1..Len(list))  BY <1>2, FS_Interval
  <2>. QED  BY <1>2, <2>1, FS_Subset
<1>4. n \in Nat  BY <1>3, FS_CardinalityType
<1>. HIDE DEF n
<1>5. PICK order \in [1..n -> chosen] :
        pool' = [k \in 1..n |->
                  [proxy    |-> list[order[k]].proxy,
                   country  |-> IF geo = "verify" THEN "US" ELSE list[order[k]].country,
                   alive    |-> alive,
                   failures |-> 0]]
  BY DEF Replace, SetToSeqs, n
<1>6. \A k \in 1..n : pool'[k] \in Entry /\ pool'[k].failures = 0
  <2>1. SUFFICES ASSUME NEW k \in 1..n PROVE pool'[k] \in Entry /\ pool'[k].failures = 0
    OBVIOUS
  <2>2. order[k] \in DOMAIN list  BY <1>5
  <2>3. list[order[k]] \in [proxy : Proxies, country : Countries]  BY <1>2, <2>2
  <2>. QED  BY <1>5, <2>3 DEF Entry, Countries
<1>7. pool' \in [1..n -> Entry]  BY <1>5, <1>6
<1>8. pool' \in Seq(Entry) /\ Len(pool') = n /\ DOMAIN pool' = 1..n  BY <1>4, <1>7
<1>9. current' = 0 /\ streak' = [p \in Proxies |-> 0]  BY DEF Replace
<1>10. pool' # <<>> => 0 < n  BY <1>4, <1>8
<1>11. FailuresCounted'
  <2>1. \A k \in 1..n : pool'[k].proxy \in Proxies  BY <1>6 DEF Entry
  <2>. QED  BY <1>6, <1>8, <1>9, <2>1 DEF FailuresCounted
<1>. QED  BY <1>4, <1>8, <1>9, <1>10, <1>11 DEF PoolInv

LEMMA RefreshesPool ==
  ASSUME PoolInv, RefreshPool
  PROVE  PoolInv'
<1>1. PICK list \in Lists, us \in SUBSET Proxies :
        \E healthy \in SUBSET Admitted(list, us) : Refresh(list, healthy)
  BY DEF RefreshPool
<1>2. PICK healthy \in SUBSET Admitted(list, us) : Refresh(list, healthy)  BY <1>1
<1>3. healthy \in SUBSET DOMAIN list  BY DEF Admitted, Located
<1>4. CASE Replace(list, healthy, TRUE)  BY <1>3, <1>4, ReplacesPool
<1>5. CASE Replace(list, DOMAIN list, FALSE)  BY <1>5, ReplacesPool
<1>6. CASE UNCHANGED <<pool, current, streak>>
  BY <1>6 DEF PoolInv, FailuresCounted, First
<1>. QED  BY <1>2, <1>4, <1>5, <1>6 DEF Refresh

\* The rotation stays within the pool, and what it finds has failures to spare.
LEMMA RotationStays ==
  ASSUME PoolInv, pool # <<>>, NEW k \in Nat
  PROVE  After(k) \in 0..(Len(pool) - 1)
<1>1. Len(pool) \in Nat /\ Len(pool) > 0  BY DEF PoolInv
<1>2. current + k \in Nat  BY <1>1 DEF PoolInv
<1>. QED  BY <1>1, <1>2 DEF After

LEMMA TakesProxy ==
  ASSUME Inv, NEW c \in Calls, TakeProxy(c), UNCHANGED at
  PROVE  Inv' /\ TakesUsable
<1>1. PICK k \in 0..(Len(pool) - 1) :
        /\ Usable(pool[1 + After(k)])
        /\ via' = [via EXCEPT ![c] = pool[1 + After(k)].proxy]
        /\ current' = After(k + 1)
  BY DEF TakeProxy
<1>2. Len(pool) \in Nat /\ DOMAIN pool = 1..Len(pool) /\ pool # <<>>
  BY <1>1 DEF Inv, PoolInv
<1>3. After(k) \in 0..(Len(pool) - 1) /\ After(k + 1) \in 0..(Len(pool) - 1)
  <2>1. k \in Nat /\ k + 1 \in Nat /\ PoolInv  BY <1>2 DEF Inv
  <2>. QED  BY <1>2, <2>1, RotationStays
<1>. DEFINE i == 1 + After(k)
<1>4. i \in DOMAIN pool  BY <1>2, <1>3
<1>. HIDE DEF i
<1>5. pool[i] \in Entry  BY <1>4 DEF Inv, PoolInv
<1>6. pool[i].proxy \in Proxies /\ pool[i].failures \in Nat /\ pool[i].failures < MaxFailures
  BY <1>1, <1>5 DEF Entry, Usable, i
<1>7. UNCHANGED <<pool, streak>>  BY DEF TakeProxy
<1>8. PoolInv'
  BY <1>1, <1>2, <1>3, <1>7 DEF Inv, PoolInv, FailuresCounted, First
<1>9. wire' = [wire EXCEPT ![c] = "socks"] /\ wire[c] = "ready"  BY DEF TakeProxy
<1>10. via' = [via EXCEPT ![c] = pool[i].proxy]  BY <1>1 DEF i
<1>11. WireInv'
  BY <1>6, <1>9, <1>10, RotationAssumption DEF Inv, WireInv, WireLabels
<1>12. TakesUsable
  <2>1. SUFFICES ASSUME ListedOnce(pool[i].proxy) PROVE streak[pool[i].proxy] < MaxFailures
    BY <1>6, <1>9, <1>10 DEF TakesUsable, Inv, WireInv
  <2>2. i \in First(pool[i].proxy)
    BY <1>2, <1>4, <2>1 DEF First, ListedOnce
  <2>3. streak[pool[i].proxy] <= pool[i].failures
    BY <1>4, <2>2 DEF Inv, PoolInv, FailuresCounted
  <2>4. streak[pool[i].proxy] \in Nat  BY <1>6 DEF Inv, PoolInv
  <2>. QED  BY <1>6, <2>3, <2>4, RotationAssumption
<1>. QED  BY <1>8, <1>11, <1>12 DEF Inv

\* A report leaves the pool's other half alone.
LEMMA ReportOn ==
  ASSUME Inv, NEW c \in Calls, via[c] # NoProxy, UNCHANGED current,
         MarkFailure(via[c]) \/ MarkSuccess(via[c])
  PROVE  PoolInv'
BY ReportsFailure, ReportsSuccess DEF Inv, WireInv

LEMMA PoolUntouched ==
  ASSUME PoolInv, UNCHANGED <<pool, current, streak>>
  PROVE  PoolInv'
BY DEF PoolInv, FailuresCounted, First

\* The other steps of a dial, and the end of one without a connection.
LEMMA Dialling ==
  ASSUME Inv, NEW c \in Calls, DialStep(c), UNCHANGED at
  PROVE  Inv' /\ TakesUsable
<1>1. CASE TakeProxy(c)  BY <1>1, TakesProxy
<1>2. CASE DialDirectly(c)
  <2>1. PoolInv'  BY <1>2, PoolUnchanged DEF Inv, DialDirectly
  <2>2. WireInv'  BY <1>2 DEF Inv, WireInv, WireLabels, DialDirectly
  <2>. QED  BY <1>2, <2>1, <2>2, NobodyTakes DEF Inv, DialDirectly, WireLabels
<1>3. CASE ProxyFails(c)
  <2>1. PoolInv'  BY <1>3, ReportOn DEF Inv, WireInv, ProxyFails
  <2>2. WireInv'  BY <1>3 DEF Inv, WireInv, WireLabels, ProxyFails
  <2>. QED  BY <1>3, <2>1, <2>2, NobodyTakes DEF Inv, ProxyFails, WireLabels
<1>4. CASE Connects(c)
  <2>1. PoolInv'  BY <1>4, PoolUnchanged DEF Inv, Connects
  <2>2. WireInv'  BY <1>4 DEF Inv, WireInv, WireLabels, Connects
  <2>. QED  BY <1>4, <2>1, <2>2, NobodyTakes DEF Inv, Connects, WireLabels
<1>5. CASE Handshake(c)
  <2>1. PoolInv'  BY <1>5, ReportOn, PoolUntouched DEF Inv, Handshake
  <2>2. WireInv'  BY <1>5 DEF Inv, WireInv, WireLabels, Handshake
  <2>. QED  BY <1>5, <2>1, <2>2, NobodyTakes DEF Inv, Handshake, WireLabels
<1>6. CASE ReuseConnection(c)
  <2>1. PoolInv'  BY <1>6, PoolUnchanged DEF Inv, ReuseConnection
  <2>2. WireInv'  BY <1>6 DEF Inv, WireInv, WireLabels, ReuseConnection
  <2>. QED  BY <1>6, <2>1, <2>2, NobodyTakes DEF Inv, ReuseConnection, WireLabels
<1>. QED  BY <1>1, <1>2, <1>3, <1>4, <1>5, <1>6 DEF DialStep

LEMMA DialEnds ==
  ASSUME Inv, NEW c \in Calls, NoConnection(c),
         NEW w \in {"pause", "ready", "off"}, wire' = [wire EXCEPT ![c] = w],
         NEW l \in CallLabels, at' = [at EXCEPT ![c] = l], w = "off" <=> l \notin Requests
  PROVE  Inv' /\ TakesUsable
<1>1. PoolInv'
  BY ReportOn, PoolUntouched, PoolUnchanged DEF Inv, NoConnection, GiveUpDial
<1>2. via' = [via EXCEPT ![c] = NoProxy]
  BY DEF Inv, WireInv, NoConnection, GiveUpDial
<1>3. WireInv'  BY <1>2 DEF Inv, WireInv, WireLabels
<1>. QED  BY <1>1, <1>3, NobodyTakes DEF Inv, WireLabels

\* A step of a call that leaves the proxies alone, by where it goes and whether a
\* request is then under way.
LEMMA Moves ==
  ASSUME Inv, NEW c \in Calls, UNCHANGED <<poolVars, via>>,
         NEW l \in CallLabels, at' = [at EXCEPT ![c] = l],
         NEW w \in {"off", "ready", "sent"}, wire' = [wire EXCEPT ![c] = w],
         wire[c] \notin {"socks", "tls"}, w = "off" <=> l \notin Requests
  PROVE  Inv' /\ TakesUsable
<1>1. PoolInv'  BY PoolUnchanged DEF Inv
<1>2. WireInv'  BY DEF Inv, WireInv, WireLabels
<1>. QED  BY <1>1, <1>2, NobodyTakes DEF Inv, WireLabels

LEMMA Idles ==
  ASSUME Inv, NEW c \in Calls, UNCHANGED <<poolVars, wire, via>>, at[c] \notin Requests,
         NEW l \in CallLabels \ Requests, at' = [at EXCEPT ![c] = l]
  PROVE  Inv' /\ TakesUsable
<1>1. PoolInv'  BY PoolUnchanged DEF Inv
<1>2. WireInv'  BY DEF Inv, WireInv
<1>3. TakesUsable  BY DEF TakesUsable
<1>. QED  BY <1>1, <1>2, <1>3 DEF Inv

LEMMA RequestEnds ==
  ASSUME Inv, NEW c \in Calls, UNCHANGED <<poolVars, via>>, wire[c] = "sent",
         at' = [at EXCEPT ![c] = "done"], wire' = [wire EXCEPT ![c] = "off"]
  PROVE  Inv' /\ TakesUsable
<1>1. PoolInv'  BY PoolUnchanged DEF Inv
<1>2. WireInv'  BY DEF Inv, WireInv, WireLabels, CallLabels, Requests, Retried
<1>. QED  BY <1>1, <1>2, NobodyTakes DEF Inv, WireLabels

LEMMA Stays ==
  ASSUME Inv, UNCHANGED <<poolVars, wire, via, at>>
  PROVE  Inv' /\ TakesUsable
<1>1. PoolInv'  BY PoolUnchanged DEF Inv
<1>2. WireInv'  BY DEF Inv, WireInv
<1>3. TakesUsable  BY DEF TakesUsable
<1>. QED  BY <1>1, <1>2, <1>3 DEF Inv

LEMMA CallKeeps ==
  ASSUME Inv, NEW c \in Calls, CallStep(c)
  PROVE  Inv' /\ TakesUsable
<1>. USE DEF Doing, Goto, CallLabels, Requests, Retried
<1>0. /\ wire[c] # "off" <=> at[c] \in Requests
      /\ wire[c] \in WireLabels
  BY DEF Inv, WireInv
<1>1. CASE Begin(c)
  BY <1>1, Idles DEF Begin, netVars
<1>2. CASE FindRun(c)
  BY <1>0, <1>2, Moves DEF FindRun, Request, netVars
<1>3. CASE MissRun(c)
  BY <1>3, Idles DEF MissRun, netVars
<1>4. CASE AskRun(c)
  BY <1>0, <1>4, Moves DEF AskRun, Request, netVars
<1>5. CASE RunStarted(c)
  BY <1>0, <1>5, Moves DEF RunStarted, Request, netVars
<1>6. CASE Rejected(c)
  <2>1. at' = [at EXCEPT ![c] = "done"]  BY <1>6 DEF Rejected, Fail
  <2>2. /\ wire[c] = "sent" /\ wire' = [wire EXCEPT ![c] = "off"]
        /\ UNCHANGED <<poolVars, via>>
    BY <1>6 DEF Rejected
  <2>. QED  BY <2>1, <2>2, RequestEnds
<1>7. CASE Answered(c)
  <2>1. at' = [at EXCEPT ![c] = "done"] /\ wire[c] = "sent"
        /\ wire' = [wire EXCEPT ![c] = "off"] /\ UNCHANGED <<poolVars, via>>
    BY <1>7 DEF Answered
  <2>. QED  BY <2>1, RequestEnds
<1>8. CASE SessionLost(c)
  BY <1>0, <1>8, Moves DEF SessionLost, Request, netVars
<1>9. CASE SessionAnswered(c)
  <2>1. PICK s : SessionStarted(c, s) \/ SessionFound(c, s) \/ Polled(c, s)
    BY <1>9 DEF SessionAnswered
  <2>2. wire[c] = "sent" /\ wire' = [wire EXCEPT ![c] = "off"] /\ UNCHANGED <<poolVars, via>>
    BY <2>1 DEF SessionStarted, SessionFound, Polled, Told
  <2>3. \E l \in {"wait", "run", "done"} : at' = [at EXCEPT ![c] = l]
    BY <2>1 DEF SessionStarted, SessionFound, Polled, Retry, GiveUp, Fail
  <2>. QED  BY <2>2, <2>3, Moves
<1>10. CASE Poll(c)
  BY <1>0, <1>10, Moves DEF Poll, Request, netVars
<1>11. CASE StopWaiting(c)
  <2>1. at[c] = "wait" /\ at' = [at EXCEPT ![c] = "done"] /\ UNCHANGED <<poolVars, wire, via>>
    BY <1>11 DEF StopWaiting, Fail
  <2>. QED  BY <2>1, Idles
<1>12. CASE RetryTransport(c)
  BY <1>0, <1>12, DialEnds DEF RetryTransport, Inv, WireInv
<1>13. CASE PauseEnds(c)
  BY <1>0, <1>13, Moves DEF PauseEnds, netVars, callVars, Inv, WireInv
<1>14. CASE TransportFails(c)
  <2>1. \/ at' = [at EXCEPT ![c] = "reread"] /\ wire' = [wire EXCEPT ![c] = "ready"]
        \/ at' = [at EXCEPT ![c] = "done"] /\ wire' = [wire EXCEPT ![c] = "off"]
    BY <1>14 DEF TransportFails, Unanswered, Request, Fail
  <2>2. \/ NoConnection(c)
        \/ wire[c] \in {"ready", "pause"} /\ UNCHANGED <<poolVars, via>>
    BY <1>14 DEF TransportFails
  <2>3. CASE NoConnection(c)
    BY <2>1, <2>3, DialEnds
  <2>4. CASE wire[c] \in {"ready", "pause"} /\ UNCHANGED <<poolVars, via>>
    BY <2>1, <2>4, Moves
  <2>. QED  BY <2>2, <2>3, <2>4
<1>15. CASE Dials(c)
  <2>1. UNCHANGED at
    BY <1>15 DEF Dials, callVars
  <2>2. CASE DialStep(c)
    BY <2>1, <2>2, Dialling
  <2>3. CASE ConnectPlainly(c)
    <3>1. /\ wire[c] = "ready" /\ wire' = [wire EXCEPT ![c] = "sent"]
          /\ UNCHANGED <<poolVars, via>>
      BY <2>3 DEF ConnectPlainly
    <3>2. PoolInv' /\ WireInv'
      BY <2>1, <3>1, PoolUnchanged DEF Inv, WireInv, WireLabels
    <3>. QED  BY <3>1, <3>2, NobodyTakes DEF Inv, WireLabels
  <2>. QED  BY <1>15, <2>2, <2>3 DEF Dials
<1>16. CASE Streams(c)
  BY <1>16, Stays DEF Streams, callVars
<1>. QED
  BY <1>1, <1>2, <1>3, <1>4, <1>5, <1>6, <1>7, <1>8, <1>9, <1>10, <1>11, <1>12, <1>13,
     <1>14, <1>15, <1>16 DEF CallStep

LEMMA NextKeeps ==
  ASSUME Inv, [Next]_vars
  PROVE  Inv' /\ TakesUsable
<1>1. ASSUME NEW c \in Calls, CallStep(c) PROVE Inv' /\ TakesUsable
  BY <1>1, CallKeeps
<1>2. ASSUME NEW c \in Calls, Cancel(c) PROVE Inv' /\ TakesUsable
  BY <1>2, Stays DEF Cancel, callVars
<1>3. CASE UpdatePool
  <2>1. PoolInv'  BY <1>3, RefreshesPool DEF UpdatePool, Inv
  <2>2. UNCHANGED <<at, wire, via>>
    BY <1>3 DEF UpdatePool, RefreshPool, Refresh, callVars
  <2>3. WireInv' /\ TakesUsable  BY <2>2 DEF Inv, WireInv, TakesUsable
  <2>. QED  BY <2>1, <2>3 DEF Inv
<1>4. CASE UpdateRegistry
  BY <1>4, Stays DEF UpdateRegistry
<1>5. CASE UNCHANGED vars
  BY <1>5, Stays DEF vars, callVars
<1>. QED  BY <1>1, <1>2, <1>3, <1>4, <1>5 DEF Next, AtRest

LEMMA InitHolds == Init => Inv
<1>. SUFFICES ASSUME Init PROVE Inv
  OBVIOUS
<1>1. PICK s \in Scenarios :
        /\ at = [c \in Calls |-> IF s.op[c] = "none" THEN "done" ELSE "arrived"]
        /\ pool = [i \in DOMAIN s.proxies |->
                     [proxy |-> s.proxies[i], country |-> "unknown", alive |-> TRUE, failures |-> 0]]
        /\ current = 0
        /\ streak = [p \in Proxies |-> 0]
        /\ wire = [c \in Calls |-> "off"]
        /\ via = [c \in Calls |-> NoProxy]
  BY DEF Init
<1>2. s.proxies \in Seq(Proxies)  BY ScenariosAssumption
<1>3. pool \in [1..Len(s.proxies) -> Entry] /\ Len(s.proxies) \in Nat
      /\ \A i \in DOMAIN pool : pool[i].failures = 0
  BY <1>1, <1>2 DEF Entry, Countries
<1>4. pool \in Seq(Entry) /\ Len(pool) \in Nat /\ (pool # <<>> => Len(pool) > 0)  BY <1>3
<1>5. FailuresCounted
  <2>1. SUFFICES ASSUME NEW i \in DOMAIN pool PROVE streak[pool[i].proxy] <= pool[i].failures
    BY DEF FailuresCounted
  <2>2. pool[i].proxy \in Proxies  BY <1>3 DEF Entry
  <2>3. streak[pool[i].proxy] = 0  BY <1>1, <2>2
  <2>. QED  BY <1>3, <2>3
<1>6. PoolInv  BY <1>1, <1>4, <1>5 DEF PoolInv
<1>7. WireInv  BY <1>1 DEF WireInv, WireLabels, CallLabels, Requests, Retried
<1>. QED  BY <1>6, <1>7 DEF Inv

\* The rotation is well-typed in every reachable state: the pool is a list of entries,
\* the rotation stands within it, and a call holds a proxy only while it dials through it.
THEOREM RotationTyped == Spec => []RotationTypeOK
<1>1. Inv /\ [Next]_vars => Inv'  BY NextKeeps
<1>2. Inv => RotationTypeOK  BY DEF Inv, PoolInv, WireInv, RotationTypeOK
<1>. QED  BY <1>1, <1>2, InitHolds, PTL DEF Spec

\* A proxy that has failed MaxFailures times in a row is handed to no dial before one
\* that had it succeeds or the list is replaced, for any number of calls and proxies.
THEOREM EvictedProxiesStayOut == Spec => EvictedStayOut
<1>1. Inv /\ [Next]_vars => Inv'  BY NextKeeps
<1>2. Inv /\ [Next]_vars =>
        [\A c \in Calls :
           wire[c] = "ready" /\ wire'[c] = "socks" /\ ListedOnce(via'[c])
             => streak[via'[c]] < MaxFailures]_<<poolVars, wire, via>>
  BY NextKeeps DEF TakesUsable
<1>. QED  BY <1>1, <1>2, InitHolds, PTL DEF Spec, EvictedStayOut
-------------------------------------------------------------------------------
(* The sessions of the calls.                                                  *)

OnActiveSession(c) ==
  /\ session[c] \in told[c]
  /\ session[c].status = "active"
  /\ program = "unified" /\ session[c].model # NoModel => model[c] = Canonical[session[c].model]

RetryInv ==
  /\ at \in [Calls -> CallLabels]
  /\ again \in [Calls -> BOOLEAN]
  /\ DOMAIN session = Calls /\ DOMAIN model = Calls /\ DOMAIN told = Calls
  /\ \A c \in Calls : at[c] = "arrived" => ~again[c]
  /\ \A c \in Calls : again[c] /\ at[c] \in {"run", "ask", "start_run", "chat"} => OnActiveSession(c)

\* A step of a call that leaves its session alone.
LEMMA SessionKept ==
  ASSUME RetryInv, NEW c \in Calls, NEW l \in CallLabels, at' = [at EXCEPT ![c] = l],
         UNCHANGED <<program, session, model, again, told>>,
         l # "arrived",
         \/ at[c] \in {"run", "ask", "start_run", "chat"}
         \/ l \notin {"run", "ask", "start_run", "chat"}
  PROVE  RetryInv'
BY DEF RetryInv, OnActiveSession

\* Nobody's session and step change.
LEMMA SessionsKept ==
  ASSUME RetryInv, UNCHANGED <<program, at, session, model, again, told>>
  PROVE  RetryInv'
BY DEF RetryInv, OnActiveSession

\* What upstream tells a call that waits for a session, and what the call makes of it.
LEMMA SessionTold ==
  ASSUME RetryInv, NEW c \in Calls, SessionAnswered(c)
  PROVE  RetryInv'
<1>1. PICK s : SessionStarted(c, s) \/ SessionFound(c, s) \/ Polled(c, s)
  BY DEF SessionAnswered
<1>2. /\ at[c] \in {"start", "reread", "poll"}
      /\ told' = [told EXCEPT ![c] = @ \cup {s}]
      /\ UNCHANGED program
  BY <1>1 DEF SessionStarted, SessionFound, Polled, Told, fixedVars
<1>3. CASE s.status = "active" /\ Retry(c, s)
  <2>1. /\ at' = [at EXCEPT ![c] = "run"]
        /\ again' = [again EXCEPT ![c] = TRUE]
        /\ session' = [session EXCEPT ![c] = s]
        /\ model' = [model EXCEPT ![c] = RetryModel(c, s)]
    BY <1>3 DEF Retry, Goto
  <2>2. program = "unified" /\ s.model # NoModel => RetryModel(c, s) = Canonical[s.model]
    BY DEF RetryModel, ModelFor
  <2>3. /\ at' \in [Calls -> CallLabels] /\ again' \in [Calls -> BOOLEAN]
        /\ DOMAIN session' = Calls /\ DOMAIN model' = Calls /\ DOMAIN told' = Calls
        /\ \A d \in Calls : at'[d] = "arrived" => ~again'[d]
    BY <1>2, <2>1 DEF RetryInv, CallLabels
  <2>4. OnActiveSession(c)'
    BY <1>2, <1>3, <2>1, <2>2 DEF OnActiveSession, RetryInv
  <2>5. \A d \in Calls \ {c} :
          again'[d] /\ at'[d] \in {"run", "ask", "start_run", "chat"} => OnActiveSession(d)'
    BY <1>2, <2>1 DEF OnActiveSession, RetryInv
  <2>. QED  BY <2>3, <2>4, <2>5 DEF RetryInv
<1>4. CASE /\ UNCHANGED <<session, again, model>>
           /\ \E l \in {"wait", "done"} : at' = [at EXCEPT ![c] = l]
  <2>1. PICK l \in {"wait", "done"} : at' = [at EXCEPT ![c] = l]  BY <1>4
  <2>2. l \in CallLabels  BY DEF CallLabels
  <2>. QED  BY <1>2, <1>4, <2>1, <2>2 DEF RetryInv, OnActiveSession
<1>5. \/ s.status = "active" /\ Retry(c, s)
      \/ UNCHANGED <<session, again, model>> /\ at' = [at EXCEPT ![c] = "done"]
      \/ UNCHANGED <<session, again, model>> /\ at' = [at EXCEPT ![c] = "wait"]
  BY <1>1 DEF SessionStarted, SessionFound, Polled, Fresh, GiveUp, Fail, Goto
<1>. QED  BY <1>3, <1>4, <1>5

LEMMA CallKeepsSession ==
  ASSUME RetryInv, NEW c \in Calls, CallStep(c)
  PROVE  RetryInv'
<1>. USE DEF Doing, Goto, CallLabels, Requests, Retried, fixedVars
<1>1. CASE Begin(c)
  BY <1>1 DEF Begin, RetryInv, OnActiveSession
<1>2. CASE FindRun(c)
  BY <1>2, SessionKept DEF FindRun, Request
<1>3. CASE MissRun(c)
  BY <1>3, SessionKept DEF MissRun
<1>4. CASE AskRun(c)
  BY <1>4, SessionKept DEF AskRun, Request
<1>5. CASE RunStarted(c)
  BY <1>5, SessionKept DEF RunStarted, Request
<1>6. CASE Rejected(c)
  BY <1>6, SessionKept DEF Rejected, Fail
<1>7. CASE Answered(c)
  BY <1>7, SessionKept DEF Answered
<1>8. CASE SessionLost(c)
  <2>1. /\ at' = [at EXCEPT ![c] = "start"] /\ told' = [told EXCEPT ![c] = {}]
        /\ UNCHANGED <<program, session, model, again>>
    BY <1>8 DEF SessionLost, Request
  <2>. QED  BY <2>1 DEF RetryInv, OnActiveSession
<1>9. CASE SessionAnswered(c)
  BY <1>9, SessionTold
<1>10. CASE Poll(c)
  BY <1>10, SessionKept DEF Poll, Request
<1>11. CASE StopWaiting(c)
  BY <1>11, SessionKept DEF StopWaiting, Fail
<1>12. CASE RetryTransport(c)
  BY <1>12, SessionsKept DEF RetryTransport
<1>13. CASE PauseEnds(c)
  BY <1>13, SessionsKept DEF PauseEnds, callVars
<1>14. CASE TransportFails(c)
  <2>1. \/ at' = [at EXCEPT ![c] = "reread"]
        \/ at' = [at EXCEPT ![c] = "done"]
    BY <1>14 DEF TransportFails, Unanswered, Request, Fail
  <2>2. UNCHANGED <<program, session, model, again, told>>  BY <1>14 DEF TransportFails
  <2>. QED  BY <2>1, <2>2, SessionKept
<1>15. CASE Dials(c)
  BY <1>15, SessionsKept DEF Dials, callVars
<1>16. CASE Streams(c)
  BY <1>16, SessionsKept DEF Streams, callVars
<1>. QED
  BY <1>1, <1>2, <1>3, <1>4, <1>5, <1>6, <1>7, <1>8, <1>9, <1>10, <1>11, <1>12, <1>13,
     <1>14, <1>15, <1>16 DEF CallStep

\* Every retry goes out on a session upstream told of after the refusal and that was
\* active then, with that session's model if it is freebuff-unified's.
THEOREM RetriesOnActiveSession == Spec => []RetriedOnActiveSession
<1>1. Init => RetryInv
  <2>. SUFFICES ASSUME Init PROVE RetryInv
    OBVIOUS
  <2>1. PICK s \in Scenarios :
          /\ at = [c \in Calls |-> IF s.op[c] = "none" THEN "done" ELSE "arrived"]
          /\ session = s.session /\ model = s.wanted
          /\ again = [c \in Calls |-> FALSE] /\ told = [c \in Calls |-> {}]
    BY DEF Init
  <2>. QED  BY <2>1, ScenariosAssumption DEF RetryInv, CallLabels
<1>2. RetryInv /\ [Next]_vars => RetryInv'
  <2>. SUFFICES ASSUME RetryInv, [Next]_vars PROVE RetryInv'
    OBVIOUS
  <2>1. ASSUME NEW c \in Calls, CallStep(c) PROVE RetryInv'
    BY <2>1, CallKeepsSession
  <2>2. CASE (\E c \in Calls : Cancel(c)) \/ UpdatePool \/ UNCHANGED vars
    BY <2>2, SessionsKept DEF Cancel, UpdatePool, vars, callVars
  <2>3. CASE UpdateRegistry
    BY <2>3, SessionsKept DEF UpdateRegistry, fixedVars
  <2>. QED  BY <2>1, <2>2, <2>3 DEF Next, AtRest
<1>3. RetryInv => RetriedOnActiveSession
  BY DEF RetryInv, OnActiveSession, RetriedOnActiveSession
<1>. QED  BY <1>1, <1>2, <1>3, PTL DEF Spec
-------------------------------------------------------------------------------
(* Induction over numbers, as a fact about sets.                               *)

\* A set of numbers with zero and every successor has them all.
LEMMA SetInduction ==
  ASSUME NEW S, 0 \in S, \A n \in Nat : n \in S => n + 1 \in S
  PROVE  \A n \in Nat : n \in S
<1>. DEFINE T == Nat \ S
<1>1. SUFFICES ASSUME T # {} PROVE FALSE
  OBVIOUS
<1>2. \E x \in T : \A y \in T : ~(<<y, x>> \in OpToRel(<, Nat))
  BY <1>1, NatLessThanWellFounded, WFMin, Zenon
<1>3. \A x, y \in Nat : y < x => <<y, x>> \in OpToRel(<, Nat)
  BY DEF OpToRel
<1>4. PICK x \in T : \A y \in T : ~(y < x)
  BY <1>2, <1>3, Zenon
<1>. HIDE DEF T
<1>5. x \in Nat /\ x # 0
  BY <1>4 DEF T
<1>6. x - 1 \in Nat /\ x - 1 < x /\ (x - 1) + 1 = x
  BY <1>5
<1>7. x - 1 \in T
  BY <1>4, <1>5, <1>6 DEF T
<1>. QED  BY <1>4, <1>6, <1>7

\* The first of the positions that something is true of.
LEMMA FirstExists ==
  ASSUME NEW S \in SUBSET Nat, S # {}
  PROVE  \E i \in S : \A j \in S : i <= j
<1>. DEFINE Above == {n \in Nat : \A j \in S : n < j}
<1>1. SUFFICES ASSUME \A i \in S : \E j \in S : j < i PROVE FALSE
  OBVIOUS
<1>2. 0 \in Above
  <2>1. \A j \in S : j # 0
    BY <1>1
  <2>. QED  BY <2>1
<1>3. ASSUME NEW n \in Nat, n \in Above PROVE n + 1 \in Above
  BY <1>1, <1>3
<1>. HIDE DEF Above
<1>4. \A n \in Nat : n \in Above
  BY <1>2, <1>3, SetInduction
<1>5. PICK j : j \in S
  OBVIOUS
<1>. QED  BY <1>4, <1>5 DEF Above

\* The last one below a bound.
LEMMA LastExists ==
  ASSUME NEW n \in Nat, NEW S \in SUBSET (1..n), S # {}
  PROVE  \E i \in S : \A j \in S : j <= i
<1>. DEFINE R == {n - i : i \in S}
<1>1. \A i \in S : i \in 1..n /\ n - i \in Nat
  OBVIOUS
<1>2. R \in SUBSET Nat /\ R # {}
  BY <1>1
<1>. HIDE DEF R
<1>3. PICK r \in R : \A q \in R : r <= q
  BY <1>2, FirstExists
<1>4. PICK i \in S : r = n - i
  BY DEF R
<1>5. \A j \in S : n - i <= n - j
  BY <1>3, <1>4 DEF R
<1>6. \A j \in S : j <= i
  BY <1>1, <1>5
<1>. QED  BY <1>6
-------------------------------------------------------------------------------
(* The streams.                                                                *)

\* What a reader has taken of the body: all but what is left.
Taken(c) == Len(served[c]) - Len(body[c])
DeltasUpTo(b, n) == {i \in 1..n : b[i] = "delta"}

StreamTypes ==
  /\ body \in [Calls -> Seq(Events)] /\ served \in [Calls -> Seq(Events)]
  /\ reader \in [Calls -> {"none", "scan", "send", "fail", "close", "ended"}]
  /\ consumer \in [Calls -> {"none", "range", "ask", "finished", "left"}]
  /\ bound \in [Calls -> BOOLEAN] /\ failed \in [Calls -> BOOLEAN]
  /\ errs \in [Calls -> 0..1] /\ got \in [Calls -> Nat]

\* Before a call is answered it has no stream.
Unopened(c) ==
  /\ reader[c] = "none" /\ consumer[c] = "none"
  /\ errs[c] = 0 /\ got[c] = 0 /\ ~failed[c]

\* What is left is a tail of what was served, and all before it was read without an end or
\* an error and handed over, but the delta in the goroutine's hands.
Reading(c) ==
  /\ Len(body[c]) <= Len(served[c])
  /\ \A i \in DOMAIN body[c] : body[c][i] = served[c][Taken(c) + i]
  /\ \A i \in 1..Taken(c) : served[c][i] \in {"delta", "empty"}
  /\ reader[c] = "scan" => got[c] = Cardinality(DeltasUpTo(served[c], Taken(c)))
  /\ reader[c] = "send" => got[c] + 1 = Cardinality(DeltasUpTo(served[c], Taken(c)))

Complete(c) == Sound(served[c]) /\ got[c] = Deltas(Counted(served[c]))

StreamOk(c) ==
  /\ at[c] # "done" => Unopened(c)
  /\ reader[c] \in {"scan", "send"} => Reading(c)
  /\ reader[c] \in {"close", "ended"} => errs[c] = 1 \/ failed[c] \/ c \in cancelled \/ Complete(c)
  /\ consumer[c] \in {"ask", "finished"} => reader[c] = "ended"
  /\ IF consumer[c] = "finished" THEN errs[c] = 0 ELSE ~failed[c]

StreamInv ==
  /\ StreamTypes /\ at \in [Calls -> CallLabels]
  /\ \A c \in Calls : StreamOk(c)

\* Counting the deltas one position further.
LEMMA CountStep ==
  ASSUME NEW b \in Seq(Events), NEW n \in Nat
  PROVE  /\ IsFiniteSet(DeltasUpTo(b, n)) /\ Cardinality(DeltasUpTo(b, n)) \in Nat
         /\ Cardinality(DeltasUpTo(b, n + 1))
              = Cardinality(DeltasUpTo(b, n)) + (IF b[n + 1] = "delta" THEN 1 ELSE 0)
<1>1. IsFiniteSet(DeltasUpTo(b, n))
  <2>1. IsFiniteSet(1..n) /\ DeltasUpTo(b, n) \subseteq 1..n
    BY FS_Interval DEF DeltasUpTo
  <2>. QED  BY <2>1, FS_Subset
<1>2. Cardinality(DeltasUpTo(b, n)) \in Nat
  BY <1>1, FS_CardinalityType
<1>3. CASE b[n + 1] = "delta"
  <2>1. DeltasUpTo(b, n + 1) = DeltasUpTo(b, n) \cup {n + 1} /\ n + 1 \notin DeltasUpTo(b, n)
    BY <1>3 DEF DeltasUpTo
  <2>. QED  BY <1>1, <1>2, <1>3, <2>1, FS_AddElement
<1>4. CASE b[n + 1] # "delta"
  <2>1. DeltasUpTo(b, n + 1) = DeltasUpTo(b, n)
    BY <1>4 DEF DeltasUpTo
  <2>. QED  BY <1>1, <1>2, <1>4, <2>1
<1>. QED  BY <1>1, <1>2, <1>3, <1>4

\* What counts of a body that has no end ...
LEMMA CountedWhole ==
  ASSUME NEW b \in Seq(Events), \A i \in 1..Len(b) : b[i] \in {"delta", "empty"}
  PROVE  Sound(b) /\ Deltas(Counted(b)) = Cardinality(DeltasUpTo(b, Len(b)))
<1>1. DOMAIN b = 1..Len(b) /\ Ends(b) = {}
  BY DEF Ends
<1>2. Counted(b) = b
  BY <1>1 DEF Counted
<1>. QED  BY <1>1, <1>2 DEF Sound, Deltas, DeltasUpTo

\* ... and of one that is ended by [DONE].
LEMMA CountedToDone ==
  ASSUME NEW b \in Seq(Events), NEW n \in Nat, n + 1 <= Len(b), b[n + 1] = "done",
         \A i \in 1..n : b[i] \in {"delta", "empty"}
  PROVE  Sound(b) /\ Deltas(Counted(b)) = Cardinality(DeltasUpTo(b, n))
<1>1. DOMAIN b = 1..Len(b) /\ Len(b) \in Nat
  OBVIOUS
<1>2. n + 1 \in Ends(b) /\ \A i \in Ends(b) : n + 1 <= i
  BY <1>1 DEF Ends
<1>3. (CHOOSE i \in Ends(b) : \A j \in Ends(b) : i <= j) = n + 1
  <2>1. \A i \in Ends(b) : i \in Nat /\ ((\A j \in Ends(b) : i <= j) => i = n + 1)
    BY <1>1, <1>2 DEF Ends
  <2>. QED  BY <1>2, <2>1
<1>4. Counted(b) = SubSeq(b, 1, n + 1)
  BY <1>2, <1>3 DEF Counted
<1>5. DOMAIN Counted(b) = 1..(n + 1) /\ \A i \in 1..(n + 1) : Counted(b)[i] = b[i]
  BY <1>1, <1>4
<1>6. Sound(b)
  <2>1. \A i \in 1..(n + 1) : i \in 1..n \/ i = n + 1
    OBVIOUS
  <2>. QED  BY <1>5, <2>1 DEF Sound
<1>7. {i \in DOMAIN Counted(b) : Counted(b)[i] = "delta"} = DeltasUpTo(b, n + 1)
  BY <1>5 DEF DeltasUpTo
<1>8. DeltasUpTo(b, n + 1) = DeltasUpTo(b, n)
  <2>1. \A i \in 1..(n + 1) : i \in 1..n \/ i = n + 1
    OBVIOUS
  <2>2. \A i \in 1..n : i \in 1..(n + 1)
    OBVIOUS
  <2>. QED  BY <2>1, <2>2 DEF DeltasUpTo
<1>. QED  BY <1>6, <1>7, <1>8 DEF Deltas

SameStream(d) ==
  /\ body'[d] = body[d] /\ served'[d] = served[d] /\ reader'[d] = reader[d]
  /\ bound'[d] = bound[d] /\ errs'[d] = errs[d] /\ consumer'[d] = consumer[d]
  /\ got'[d] = got[d] /\ failed'[d] = failed[d]

\* A stream nothing happens to, but that its caller may cancel or still be waiting.
LEMMA StreamStays ==
  ASSUME NEW d \in Calls, StreamOk(d), SameStream(d), cancelled \subseteq cancelled',
         at'[d] # "done" => at[d] # "done"
  PROVE  StreamOk(d)'
BY DEF StreamOk, SameStream, Unopened, Reading, Taken, Complete

LEMMA OneStream ==
  ASSUME StreamInv, NEW c \in Calls, StreamTypes', at' \in [Calls -> CallLabels], StreamOk(c)',
         \A d \in Calls \ {c} : SameStream(d) /\ (at'[d] # "done" => at[d] # "done"),
         cancelled \subseteq cancelled'
  PROVE  StreamInv'
<1>1. \A d \in Calls \ {c} : StreamOk(d)'
  BY StreamStays DEF StreamInv
<1>. QED  BY <1>1 DEF StreamInv

LEMMA StreamsStay ==
  ASSUME StreamInv, UNCHANGED streamVars, cancelled \subseteq cancelled',
         at' \in [Calls -> CallLabels], \A d \in Calls : at'[d] # "done" => at[d] # "done"
  PROVE  StreamInv'
<1>1. StreamTypes' /\ \A d \in Calls : SameStream(d)
  BY DEF StreamInv, StreamTypes, streamVars, SameStream
<1>2. \A d \in Calls : StreamOk(d)'
  BY <1>1, StreamStays DEF StreamInv
<1>. QED  BY <1>1, <1>2 DEF StreamInv

\* The goroutine takes an event, or finds the end of the body.
LEMMA Scans ==
  ASSUME StreamInv, NEW c \in Calls, Scan(c), UNCHANGED at
  PROVE  StreamInv'
<1>. DEFINE b == served[c]
            n == Taken(c)
<1>t. StreamTypes /\ StreamOk(c) /\ at \in [Calls -> CallLabels]
  BY DEF StreamInv
<1>1. /\ reader[c] = "scan" /\ at[c] = "done" /\ Reading(c)
      /\ consumer[c] \notin {"ask", "finished"}
  BY <1>t DEF Scan, StreamOk, Unopened
<1>2. /\ b \in Seq(Events) /\ body[c] \in Seq(Events)
      /\ Len(b) \in Nat /\ Len(body[c]) \in Nat /\ Len(body[c]) <= Len(b)
      /\ n \in Nat /\ n + Len(body[c]) = Len(b)
  BY <1>t, <1>1 DEF StreamTypes, Reading, Taken
<1>3. /\ got[c] = Cardinality(DeltasUpTo(b, n)) /\ \A i \in 1..n : b[i] \in {"delta", "empty"}
  BY <1>1 DEF Reading
<1>u. UNCHANGED <<bound, errs, consumer, got, failed, served, cancelled>>
  BY DEF Scan
<1>4. CASE body[c] = <<>>
  <2>1. UNCHANGED body /\ reader' = [reader EXCEPT ![c] = "close"]
    BY <1>4 DEF Scan
  <2>2. Complete(c)
    BY <1>2, <1>3, <1>4, CountedWhole DEF Complete
  <2>3. StreamTypes'
    BY <1>t, <1>u, <2>1 DEF StreamTypes
  <2>4. StreamOk(c)'
    BY <1>t, <1>1, <1>u, <2>1, <2>2 DEF StreamOk, Complete, StreamTypes
  <2>. QED  BY <1>t, <1>u, <2>1, <2>3, <2>4, OneStream DEF SameStream, StreamTypes
<1>5. CASE body[c] # <<>>
  <2>. DEFINE e == Head(body[c])
  <2>1. /\ reader' = [reader EXCEPT ![c] = AfterEvent(e)]
        /\ body' = [body EXCEPT ![c] = Tail(body[c])]
    BY <1>5 DEF Scan
  <2>2. /\ e \in Events /\ Tail(body[c]) \in Seq(Events) /\ Len(Tail(body[c])) = Len(body[c]) - 1
        /\ \A i \in DOMAIN Tail(body[c]) : Tail(body[c])[i] = body[c][i + 1] /\ i + 1 \in DOMAIN body[c]
        /\ e = body[c][1] /\ 1 \in DOMAIN body[c] /\ Len(body[c]) > 0
    BY <1>2, <1>5
  <2>3. e = b[n + 1] /\ n + 1 <= Len(b)
    BY <1>1, <1>2, <2>2 DEF Reading
  <2>. HIDE DEF e
  <2>4. AfterEvent(e) \in {"send", "scan", "close", "fail"}
    BY <2>2 DEF AfterEvent, Events
  <2>5. StreamTypes'
    BY <1>t, <1>u, <2>1, <2>2, <2>4 DEF StreamTypes
  <2>6. Taken(c)' = n + 1 /\ body'[c] = Tail(body[c]) /\ served'[c] = b /\ reader'[c] = AfterEvent(e)
    BY <1>t, <1>u, <1>2, <2>1, <2>2 DEF StreamTypes, Taken
  <2>7. StreamOk(c)'
    <3>1. CASE AfterEvent(e) \in {"send", "scan"}
      <4>1. e \in {"delta", "empty"} /\ (AfterEvent(e) = "send" <=> e = "delta")
        BY <2>2, <3>1 DEF AfterEvent, Events
      <4>2. \A i \in 1..(n + 1) : b[i] \in {"delta", "empty"}
        <5>1. \A i \in 1..(n + 1) : i \in 1..n \/ i = n + 1
          BY <1>2
        <5>. QED  BY <1>3, <2>3, <4>1, <5>1
      <4>3. Cardinality(DeltasUpTo(b, n + 1)) = got[c] + (IF e = "delta" THEN 1 ELSE 0)
        BY <1>2, <1>3, <2>3, CountStep
      <4>4. \A i \in DOMAIN Tail(body[c]) : Tail(body[c])[i] = b[(n + 1) + i]
        <5>1. ASSUME NEW i \in DOMAIN Tail(body[c]) PROVE Tail(body[c])[i] = b[(n + 1) + i]
          <6>1. Tail(body[c])[i] = body[c][i + 1] /\ i + 1 \in DOMAIN body[c] /\ i \in Nat
            BY <2>2
          <6>2. body[c][i + 1] = b[n + (i + 1)]
            BY <1>1, <6>1 DEF Reading
          <6>. QED  BY <1>2, <6>1, <6>2
        <5>. QED  BY <5>1
      <4>5. got[c] \in Nat
        BY <1>t DEF StreamTypes
      <4>6. Reading(c)'
        <5>1. Len(body[c]') <= Len(served[c]')
          BY <1>2, <2>2, <2>6
        <5>2. /\ reader'[c] = "scan" => got'[c] = Cardinality(DeltasUpTo(b, n + 1))
              /\ reader'[c] = "send" => got'[c] + 1 = Cardinality(DeltasUpTo(b, n + 1))
          BY <1>u, <2>6, <4>1, <4>3, <4>5
        <5>. QED  BY <2>6, <4>2, <4>4, <5>1, <5>2 DEF Reading
      <4>. QED  BY <1>t, <1>1, <1>u, <2>6, <3>1, <4>6 DEF StreamOk
    <3>2. CASE AfterEvent(e) = "close"
      <4>1. e = "done"
        BY <2>2, <3>2 DEF AfterEvent, Events
      <4>2. Complete(c)
        BY <1>2, <1>3, <2>3, <4>1, CountedToDone DEF Complete
      <4>. QED  BY <1>t, <1>1, <1>u, <2>6, <3>2, <4>2 DEF StreamOk, Complete
    <3>3. CASE AfterEvent(e) = "fail"
      BY <1>t, <1>1, <1>u, <2>6, <3>3 DEF StreamOk
    <3>. QED  BY <2>4, <3>1, <3>2, <3>3
  <2>. QED  BY <1>t, <1>u, <2>1, <2>5, <2>7, OneStream DEF SameStream, StreamTypes
<1>. QED  BY <1>4, <1>5

\* The other steps of a stream.
LEMMA StreamSteps ==
  ASSUME StreamInv, NEW c \in Calls, StreamStep(c), UNCHANGED at
  PROVE  StreamInv'
<1>t. StreamTypes /\ StreamOk(c) /\ at \in [Calls -> CallLabels]
  BY DEF StreamInv
<1>. SUFFICES ASSUME ~Scan(c)
     PROVE  /\ StreamTypes' /\ StreamOk(c)' /\ UNCHANGED cancelled
            /\ \A d \in Calls \ {c} : SameStream(d)
  <2>1. CASE Scan(c)
    BY <2>1, Scans
  <2>. QED  BY <1>t, <2>1, OneStream
<1>2. CASE ReadFails(c)
  BY <1>t, <1>2 DEF ReadFails, StreamTypes, StreamOk, Unopened, SameStream
<1>3. CASE Receive(c)
  <2>1. /\ reader[c] = "send" /\ consumer[c] = "range" /\ at[c] = "done" /\ Reading(c)
        /\ got' = [got EXCEPT ![c] = got[c] + 1] /\ reader' = [reader EXCEPT ![c] = "scan"]
        /\ UNCHANGED <<body, bound, errs, consumer, failed, served, cancelled>>
    BY <1>t, <1>3 DEF Receive, StreamOk, Unopened
  <2>2. StreamTypes' /\ \A d \in Calls \ {c} : SameStream(d)
    BY <1>t, <2>1 DEF StreamTypes, SameStream
  <2>3. Reading(c)'
    BY <1>t, <2>1 DEF Reading, Taken, StreamTypes
  <2>. QED  BY <1>t, <2>1, <2>2, <2>3 DEF StreamOk, StreamTypes
<1>4. CASE SendCancelled(c)
  BY <1>t, <1>4 DEF SendCancelled, StreamTypes, StreamOk, Unopened, SameStream
<1>5. CASE SendError(c)
  BY <1>t, <1>5 DEF SendError, StreamTypes, StreamOk, Unopened, SameStream
<1>6. CASE DropError(c)
  BY <1>t, <1>6 DEF DropError, StreamTypes, StreamOk, Unopened, SameStream
<1>7. CASE Close(c)
  BY <1>t, <1>7 DEF Close, StreamTypes, StreamOk, Unopened, SameStream, Complete
<1>8. CASE RangeEnds(c)
  BY <1>t, <1>8 DEF RangeEnds, StreamTypes, StreamOk, Unopened, SameStream, Complete
<1>9. CASE TakeError(c)
  <2>1. /\ consumer[c] = "ask" /\ reader[c] = "ended" /\ at[c] = "done"
        /\ failed' = [failed EXCEPT ![c] = errs[c] = 1] /\ errs' = [errs EXCEPT ![c] = 0]
        /\ consumer' = [consumer EXCEPT ![c] = "finished"]
        /\ UNCHANGED <<body, reader, bound, got, served, cancelled>>
    BY <1>t, <1>9 DEF TakeError, StreamOk, Unopened
  <2>2. (errs[c] = 1) \in BOOLEAN
    OBVIOUS
  <2>3. failed' \in [Calls -> BOOLEAN] /\ \A d \in Calls \ {c} : failed'[d] = failed[d]
    BY <1>t, <2>1, <2>2 DEF StreamTypes
  <2>4. StreamTypes' /\ \A d \in Calls \ {c} : SameStream(d)
    BY <1>t, <2>1, <2>3 DEF StreamTypes, SameStream
  <2>5. errs[c] = 1 => failed'[c]
    BY <1>t, <2>1 DEF StreamTypes
  <2>6. /\ reader'[c] = "ended" /\ errs'[c] = 0 /\ at'[c] = "done" /\ consumer'[c] = "finished"
        /\ served'[c] = served[c] /\ got'[c] = got[c] /\ cancelled' = cancelled
        /\ ~failed[c]
    BY <1>t, <2>1 DEF StreamTypes, StreamOk
  <2>7. StreamOk(c)'
    BY <1>t, <2>1, <2>5, <2>6 DEF StreamOk, Complete
  <2>. QED  BY <2>1, <2>4, <2>7
<1>10. CASE Leave(c)
  BY <1>t, <1>10 DEF Leave, StreamTypes, StreamOk, Unopened, SameStream, Complete, Reading, Taken
<1>. QED
  BY <1>2, <1>3, <1>4, <1>5, <1>6, <1>7, <1>8, <1>9, <1>10 DEF StreamStep

\* A call returns: with a stream over the body of the answer, with one that holds the
\* error only, or without one.
LEMMA StreamOpens ==
  ASSUME StreamInv, NEW c \in Calls, at[c] # "done", at' = [at EXCEPT ![c] = "done"],
         UNCHANGED cancelled,
         \/ FailedStream(c)
         \/ \E b \in Bodies, watching \in BOOLEAN : OpenStream(c, b, watching)
         \/ UNCHANGED streamVars
  PROVE  StreamInv'
<1>t. StreamTypes /\ StreamOk(c) /\ Unopened(c) /\ at \in [Calls -> CallLabels]
  BY DEF StreamInv, StreamOk
<1>1. CASE FailedStream(c)
  <2>1. StreamTypes' /\ \A d \in Calls \ {c} : SameStream(d)
    BY <1>t, <1>1 DEF FailedStream, StreamTypes, SameStream
  <2>2. StreamOk(c)'
    BY <1>t, <1>1 DEF FailedStream, StreamTypes, StreamOk, Unopened
  <2>. QED  BY <1>t, <2>1, <2>2, OneStream DEF CallLabels
<1>2. ASSUME NEW b \in Bodies, NEW watching \in BOOLEAN, OpenStream(c, b, watching)
      PROVE  StreamInv'
  <2>1. b \in Seq(Events)
    BY BodiesAssumption
  <2>2. StreamTypes' /\ \A d \in Calls \ {c} : SameStream(d)
    BY <1>t, <1>2, <2>1 DEF OpenStream, StreamTypes, SameStream
  <2>3. /\ body'[c] = b /\ served'[c] = b /\ reader'[c] = "scan" /\ got'[c] = 0 /\ errs'[c] = 0
        /\ consumer'[c] = "range" /\ ~failed'[c]
    BY <1>t, <1>2 DEF OpenStream, StreamTypes, Unopened
  <2>4. Taken(c)' = 0 /\ DeltasUpTo(b, 0) = {}
    BY <2>1, <2>3 DEF Taken, DeltasUpTo
  <2>5. Reading(c)'
    <3>1. Len(b) \in Nat /\ DOMAIN b = 1..Len(b) /\ \A i \in DOMAIN b : 0 + i = i
      BY <2>1
    <3>2. Cardinality(DeltasUpTo(b, 0)) = 0
      BY <2>4, FS_EmptySet
    <3>. QED  BY <2>3, <2>4, <3>1, <3>2 DEF Reading
  <2>6. StreamOk(c)'
    BY <1>t, <2>3, <2>5 DEF StreamOk
  <2>. QED  BY <1>t, <2>2, <2>6, OneStream DEF CallLabels
<1>3. CASE UNCHANGED streamVars
  BY <1>t, <1>3, StreamsStay DEF CallLabels
<1>. QED  BY <1>1, <1>2, <1>3

\* Going on without touching the streams.
LEMMA StreamWaits ==
  ASSUME StreamInv, NEW c \in Calls, at[c] # "done", NEW l \in CallLabels,
         at' = [at EXCEPT ![c] = l], UNCHANGED <<streamVars, cancelled>>
  PROVE  StreamInv'
BY StreamsStay DEF StreamInv

LEMMA CallKeepsStreams ==
  ASSUME StreamInv, NEW c \in Calls, CallStep(c)
  PROVE  StreamInv'
<1>. USE DEF Doing, Goto, CallLabels, Requests, Retried, netVars
<1>1. CASE Begin(c) \/ FindRun(c) \/ MissRun(c) \/ AskRun(c) \/ RunStarted(c)
  BY <1>1, StreamWaits DEF Begin, FindRun, MissRun, AskRun, RunStarted, Request
<1>6. CASE Rejected(c)
  BY <1>6, StreamOpens DEF Rejected, Fail
<1>7. CASE Answered(c)
  <2>1. /\ at[c] # "done" /\ at' = [at EXCEPT ![c] = "done"] /\ UNCHANGED cancelled
        /\ UNCHANGED streamVars \/ \E b \in Bodies : OpenStream(c, b, Watches(c))
    BY <1>7 DEF Answered
  <2>2. \E watching \in BOOLEAN : \A b : OpenStream(c, b, Watches(c)) => OpenStream(c, b, watching)
    <3>1. CASE program = "proxy" /\ again[c]
      <4>1. \A b : OpenStream(c, b, Watches(c)) => OpenStream(c, b, TRUE)
        BY <3>1, Zenon DEF OpenStream, Watches
      <4>. QED  BY <4>1
    <3>2. CASE ~(program = "proxy" /\ again[c])
      <4>1. \A b : OpenStream(c, b, Watches(c)) => OpenStream(c, b, FALSE)
        BY <3>2, Zenon DEF OpenStream, Watches
      <4>. QED  BY <4>1
    <3>. QED  BY <3>1, <3>2
  <2>. QED  BY <2>1, <2>2, StreamOpens
<1>8. CASE SessionLost(c) \/ Poll(c)
  BY <1>8, StreamWaits DEF SessionLost, Poll, Request
<1>9. CASE SessionAnswered(c)
  <2>1. PICK s : SessionStarted(c, s) \/ SessionFound(c, s) \/ Polled(c, s)
    BY <1>9 DEF SessionAnswered
  <2>2. at[c] # "done" /\ UNCHANGED cancelled
    BY <2>1 DEF SessionStarted, SessionFound, Polled, Told
  <2>3. \/ \E l \in {"wait", "run"} : at' = [at EXCEPT ![c] = l] /\ UNCHANGED streamVars
        \/ Fail(c)
    BY <2>1 DEF SessionStarted, SessionFound, Polled, Retry, GiveUp
  <2>. QED  BY <2>2, <2>3, StreamWaits, StreamOpens DEF Fail
<1>11. CASE StopWaiting(c)
  BY <1>11, StreamOpens DEF StopWaiting, Fail
<1>12. CASE RetryTransport(c) \/ PauseEnds(c)
  BY <1>12, StreamsStay DEF RetryTransport, PauseEnds, callVars, StreamInv
<1>14. CASE TransportFails(c)
  <2>1. /\ at[c] # "done" /\ UNCHANGED cancelled
        /\ \/ at' = [at EXCEPT ![c] = "reread"] /\ UNCHANGED streamVars
           \/ Fail(c)
    BY <1>14 DEF TransportFails, Unanswered, Request
  <2>. QED  BY <2>1, StreamWaits, StreamOpens DEF Fail
<1>15. CASE Dials(c)
  BY <1>15, StreamsStay DEF Dials, callVars, StreamInv
<1>16. CASE Streams(c)
  BY <1>16, StreamSteps DEF Streams, callVars
<1>. QED
  BY <1>1, <1>6, <1>7, <1>8, <1>9, <1>11, <1>12, <1>14, <1>15, <1>16 DEF CallStep

LEMMA StreamsAlways == Spec => []StreamInv
<1>1. Init => StreamInv
  <2>. SUFFICES ASSUME Init PROVE StreamInv
    OBVIOUS
  <2>1. StreamInit /\ at \in [Calls -> CallLabels]
    BY DEF Init, CallLabels
  <2>2. StreamTypes
    BY <2>1 DEF StreamInit, StreamTypes
  <2>3. \A c \in Calls : StreamOk(c)
    BY <2>1 DEF StreamInit, StreamOk, Unopened
  <2>. QED  BY <2>1, <2>2, <2>3 DEF StreamInv
<1>2. StreamInv /\ [Next]_vars => StreamInv'
  <2>. SUFFICES ASSUME StreamInv, [Next]_vars PROVE StreamInv'
    OBVIOUS
  <2>1. ASSUME NEW c \in Calls, CallStep(c) PROVE StreamInv'
    BY <2>1, CallKeepsStreams
  <2>2. CASE (\E c \in Calls : Cancel(c)) \/ UpdatePool \/ UNCHANGED vars
    BY <2>2, StreamsStay DEF Cancel, UpdatePool, vars, callVars, StreamInv
  <2>3. CASE UpdateRegistry
    BY <2>3, StreamsStay DEF UpdateRegistry, StreamInv
  <2>. QED  BY <2>1, <2>2, <2>3 DEF Next, AtRest
<1>. QED  BY <1>1, <1>2, PTL DEF Spec

\* Whoever takes the end of a stream and no error has the whole answer, for any bodies,
\* however calls, readers and their callers interleave: but for who has cancelled.
THEOREM ErrorsAreReported == Spec => []ErrorIsReported
<1>1. StreamInv => ErrorIsReported
  BY DEF StreamInv, StreamTypes, StreamOk, Complete, ErrorIsReported
<1>. QED  BY <1>1, StreamsAlways, PTL
-------------------------------------------------------------------------------
(* The registry's parser.                                                      *)

\* What a chain of the aliases that are still allowed after d of them leads to.
Chained(t, k, chain, n, m) ==
  /\ chain[1] = n
  /\ \A i \in 1..(k - 1) :
       Value(t, chain[i]) = {} /\ PlainAlias(t, chain[i]) /\ chain[i + 1] = t.alias[chain[i]]
  /\ m \in Value(t, chain[k])
Follows(t, d, n, m) ==
  \E k \in 1..(MaxAliasDepth - d + 1) : \E chain \in [1..k -> Names] : Chained(t, k, chain, n, m)
AllValues(t) == UNION {Value(t, n) : n \in Names}
Reached(t, d, n) == {m \in AllValues(t) : Follows(t, d, n, m)}

\* One hop of resolve, with the rest of the way given by h.
Hop(t, h, d, n) ==
  IF Value(t, n) # {} THEN Value(t, n)
  ELSE IF PlainAlias(t, n) /\ d < MaxAliasDepth THEN h[d + 1][t.alias[n]]
  ELSE {}

IsResolver(t, h) == h = [d \in 0..MaxAliasDepth |-> [n \in Names |-> Hop(t, h, d, n)]]

LEMMA FollowsHere ==
  ASSUME NEW t, NEW d \in 0..MaxAliasDepth, NEW n \in Names, Value(t, n) # {}, NEW m
  PROVE  Follows(t, d, n, m) <=> m \in Value(t, n)
<1>1. ASSUME Follows(t, d, n, m) PROVE m \in Value(t, n)
  <2>k. PICK k \in 1..(MaxAliasDepth - d + 1) :
          \E chain \in [1..k -> Names] : Chained(t, k, chain, n, m)
    BY <1>1 DEF Follows
  <2>1. PICK chain \in [1..k -> Names] : Chained(t, k, chain, n, m)
    BY <2>k
  <2>2. k = 1
    <3>1. k # 1 => 1 \in 1..(k - 1)
      BY RegistryAssumption
    <3>. QED  BY <2>1, <3>1 DEF Chained
  <2>. QED  BY <2>1, <2>2 DEF Chained
<1>2. ASSUME m \in Value(t, n) PROVE Follows(t, d, n, m)
  <2>. DEFINE chain == [i \in 1..1 |-> n]
  <2>1. 1 \in 1..(MaxAliasDepth - d + 1) /\ 1..(1 - 1) = {}
    BY RegistryAssumption
  <2>2. chain \in [1..1 -> Names] /\ chain[1] = n
    OBVIOUS
  <2>. HIDE DEF chain
  <2>. QED  BY <1>2, <2>1, <2>2 DEF Follows, Chained
<1>. QED  BY <1>1, <1>2

LEMMA FollowsOn ==
  ASSUME NEW t, NEW d \in 0..MaxAliasDepth, NEW n \in Names, Value(t, n) = {}, NEW m
  PROVE  Follows(t, d, n, m)
           <=> PlainAlias(t, n) /\ d < MaxAliasDepth /\ Follows(t, d + 1, t.alias[n], m)
<1>d. d \in Nat /\ MaxAliasDepth \in Nat /\ d <= MaxAliasDepth
  BY RegistryAssumption
<1>1. ASSUME Follows(t, d, n, m)
      PROVE  PlainAlias(t, n) /\ d < MaxAliasDepth /\ Follows(t, d + 1, t.alias[n], m)
  <2>k. PICK k \in 1..(MaxAliasDepth - d + 1) :
          \E chain \in [1..k -> Names] : Chained(t, k, chain, n, m)
    BY <1>1 DEF Follows
  <2>c. PICK chain \in [1..k -> Names] : Chained(t, k, chain, n, m)
    BY <2>k
  <2>1. /\ chain[1] = n
        /\ \A i \in 1..(k - 1) :
             Value(t, chain[i]) = {} /\ PlainAlias(t, chain[i])
             /\ chain[i + 1] = t.alias[chain[i]]
        /\ m \in Value(t, chain[k])
    BY <2>c DEF Chained
  <2>2. k # 1 /\ k \in Nat /\ k >= 2 /\ 1 \in 1..(k - 1)
    BY <1>d, <2>1
  <2>. DEFINE rest == [i \in 1..(k - 1) |-> chain[i + 1]]
  <2>3. rest \in [1..(k - 1) -> Names]
    BY <2>2
  <2>4. \A i \in 1..(k - 1) : rest[i] = chain[i + 1]
    OBVIOUS
  <2>. HIDE DEF rest
  <2>5. rest[1] = t.alias[n] /\ PlainAlias(t, n)
    BY <2>1, <2>2, <2>4
  <2>6. rest[k - 1] = chain[k]
    BY <2>2, <2>4
  <2>7. \A i \in 1..((k - 1) - 1) :
          Value(t, rest[i]) = {} /\ PlainAlias(t, rest[i]) /\ rest[i + 1] = t.alias[rest[i]]
    <3>1. \A i \in 1..((k - 1) - 1) : i \in 1..(k - 1) /\ i + 1 \in 1..(k - 1)
      BY <2>2
    <3>. QED  BY <2>1, <2>4, <3>1
  <2>8. d < MaxAliasDepth /\ k - 1 \in 1..(MaxAliasDepth - (d + 1) + 1)
    BY <1>d, <2>2
  <2>. QED  BY <2>1, <2>3, <2>5, <2>6, <2>7, <2>8 DEF Follows, Chained
<1>2. ASSUME PlainAlias(t, n), d < MaxAliasDepth, Follows(t, d + 1, t.alias[n], m)
      PROVE  Follows(t, d, n, m)
  <2>k. PICK k \in 1..(MaxAliasDepth - (d + 1) + 1) :
          \E rest \in [1..k -> Names] : Chained(t, k, rest, t.alias[n], m)
    BY <1>2 DEF Follows
  <2>r. PICK rest \in [1..k -> Names] : Chained(t, k, rest, t.alias[n], m)
    BY <2>k
  <2>1. /\ rest[1] = t.alias[n]
        /\ \A i \in 1..(k - 1) :
             Value(t, rest[i]) = {} /\ PlainAlias(t, rest[i])
             /\ rest[i + 1] = t.alias[rest[i]]
        /\ m \in Value(t, rest[k])
    BY <2>r DEF Chained
  <2>2. k \in Nat /\ k >= 1 /\ k + 1 \in 1..(MaxAliasDepth - d + 1)
    BY <1>d
  <2>. DEFINE chain == [i \in 1..(k + 1) |-> IF i = 1 THEN n ELSE rest[i - 1]]
  <2>3. chain \in [1..(k + 1) -> Names]
    BY <2>2
  <2>4. chain[1] = n /\ \A i \in 1..k : chain[i + 1] = rest[i]
    BY <2>2
  <2>. HIDE DEF chain
  <2>5. m \in Value(t, chain[k + 1])
    BY <2>1, <2>2, <2>4
  <2>6. \A i \in 1..((k + 1) - 1) :
          Value(t, chain[i]) = {} /\ PlainAlias(t, chain[i]) /\ chain[i + 1] = t.alias[chain[i]]
    <3>1. SUFFICES ASSUME NEW i \in 1..k
                   PROVE  Value(t, chain[i]) = {} /\ PlainAlias(t, chain[i])
                          /\ chain[i + 1] = t.alias[chain[i]]
      <4>1. (k + 1) - 1 = k
        BY <2>2
      <4>. QED  BY <4>1
    <3>2. CASE i = 1
      BY <1>2, <2>1, <2>4, <3>2
    <3>3. CASE i # 1
      <4>1. i - 1 \in 1..(k - 1) /\ i - 1 \in 1..k /\ (i - 1) + 1 = i
        BY <2>2, <3>3
      <4>2. chain[i] = rest[i - 1] /\ chain[i + 1] = rest[i]
        BY <2>4, <4>1
      <4>. QED  BY <2>1, <4>1, <4>2
    <3>. QED  BY <3>2, <3>3
  <2>. QED  BY <2>2, <2>3, <2>4, <2>5, <2>6 DEF Follows, Chained
<1>. QED  BY <1>1, <1>2

\* So what is reached is what one hop gives, if the rest of the way gives what is reached.
LEMMA ReachedByHop ==
  ASSUME NEW t, NEW h, NEW d \in 0..MaxAliasDepth, NEW n \in Names,
         d < MaxAliasDepth => \A k \in Names : h[d + 1][k] = Reached(t, d + 1, k)
  PROVE  Hop(t, h, d, n) = Reached(t, d, n)
<1>1. Value(t, n) \subseteq AllValues(t)
  BY DEF AllValues
<1>2. CASE Value(t, n) # {}
  BY <1>1, <1>2, FollowsHere DEF Hop, Reached
<1>3. CASE Value(t, n) = {} /\ PlainAlias(t, n) /\ d < MaxAliasDepth
  <2>1. t.alias[n] \in Names
    BY <1>3 DEF PlainAlias
  <2>2. Hop(t, h, d, n) = Reached(t, d + 1, t.alias[n])
    BY <1>3, <2>1 DEF Hop
  <2>. QED  BY <1>3, <2>2, FollowsOn DEF Reached
<1>4. CASE Value(t, n) = {} /\ ~(PlainAlias(t, n) /\ d < MaxAliasDepth)
  BY <1>4, FollowsOn DEF Hop, Reached
<1>. QED  BY <1>2, <1>3, <1>4

\* There is a resolver, and any other agrees with it.
LEMMA ResolverExists ==
  ASSUME NEW t
  PROVE  \E h : IsResolver(t, h)
<1>. DEFINE h == [d \in 0..MaxAliasDepth |-> [n \in Names |-> Reached(t, d, n)]]
<1>1. ASSUME NEW d \in 0..MaxAliasDepth, NEW n \in Names
      PROVE  Hop(t, h, d, n) = Reached(t, d, n)
  <2>1. d < MaxAliasDepth => d + 1 \in 0..MaxAliasDepth
    BY RegistryAssumption
  <2>2. d < MaxAliasDepth => \A k \in Names : h[d + 1][k] = Reached(t, d + 1, k)
    BY <2>1
  <2>. HIDE DEF h
  <2>. QED  BY <2>2, ReachedByHop
<1>2. IsResolver(t, h)
  BY <1>1 DEF IsResolver
<1>. QED  BY <1>2

LEMMA ResolverReaches ==
  ASSUME NEW t, NEW h, IsResolver(t, h)
  PROVE  \A n \in Names : h[0][n] = Reached(t, 0, n)
<1>. DEFINE Good(d) == \A n \in Names : h[d][n] = Reached(t, d, n)
            S == {e \in Nat : e <= MaxAliasDepth => Good(MaxAliasDepth - e)}
<1>1. ASSUME NEW d \in 0..MaxAliasDepth, d < MaxAliasDepth => Good(d + 1)
      PROVE  Good(d)
  <2>1. \A n \in Names : h[d][n] = Hop(t, h, d, n)
    <3>. DEFINE f == [e \in 0..MaxAliasDepth |-> [n \in Names |-> Hop(t, h, e, n)]]
    <3>1. h = f
      BY DEF IsResolver
    <3>2. \A n \in Names : f[d][n] = Hop(t, h, d, n)
      OBVIOUS
    <3>. HIDE DEF f
    <3>. QED  BY <3>1, <3>2
  <2>. QED  BY <1>1, <2>1, ReachedByHop
<1>. HIDE DEF Good
<1>2. 0 \in S
  <2>1. MaxAliasDepth - 0 \in 0..MaxAliasDepth /\ ~(MaxAliasDepth - 0 < MaxAliasDepth)
    BY RegistryAssumption
  <2>. QED  BY <1>1, <2>1
<1>3. ASSUME NEW e \in Nat, e \in S PROVE e + 1 \in S
  <2>1. SUFFICES ASSUME e + 1 <= MaxAliasDepth PROVE Good(MaxAliasDepth - (e + 1))
    BY RegistryAssumption
  <2>2. /\ MaxAliasDepth - (e + 1) \in 0..MaxAliasDepth
        /\ (MaxAliasDepth - (e + 1)) + 1 = MaxAliasDepth - e /\ e <= MaxAliasDepth
    BY <2>1, RegistryAssumption
  <2>3. Good(MaxAliasDepth - e)
    BY <1>3, <2>2
  <2>. QED  BY <1>1, <2>2, <2>3
<1>. HIDE DEF S
<1>4. MaxAliasDepth \in S
  BY <1>2, <1>3, SetInduction, RegistryAssumption
<1>5. Good(0)
  <2>1. MaxAliasDepth - MaxAliasDepth = 0 /\ MaxAliasDepth <= MaxAliasDepth
    BY RegistryAssumption
  <2>. QED  BY <1>4, <2>1 DEF S
<1>. QED  BY <1>5 DEF Good

\* Resolve, which goes from level to level down to MaxAliasDepth, in terms of the chains
\* that Says is stated with.
LEMMA ResolveFollowsAliases ==
  ASSUME NEW t, NEW key \in Names, NEW m
  PROVE  m \in Resolve(t, key) <=> LeadsTo(t, key, m)
<1>. DEFINE chosen == CHOOSE h : IsResolver(t, h)
<1>1. Resolve(t, key) = chosen[0][key]
  BY DEF Resolve, IsResolver, Hop
<1>2. IsResolver(t, chosen)
  BY ResolverExists
<1>. HIDE DEF chosen
<1>3. Resolve(t, key) = Reached(t, 0, key)
  BY <1>1, <1>2, ResolverReaches
<1>4. LeadsTo(t, key, m) <=> Follows(t, 0, key, m)
  <2>1. MaxAliasDepth - 0 + 1 = MaxAliasDepth + 1
    BY RegistryAssumption
  <2>. QED  BY <2>1 DEF LeadsTo, Follows, Chained
<1>5. Follows(t, 0, key, m) => m \in AllValues(t)
  <2>1. SUFFICES ASSUME NEW k \in 1..(MaxAliasDepth - 0 + 1), NEW chain \in [1..k -> Names],
                        m \in Value(t, chain[k])
                 PROVE  m \in AllValues(t)
    BY DEF Follows, Chained
  <2>2. chain[k] \in Names
    BY RegistryAssumption
  <2>. QED  BY <2>1, <2>2 DEF AllValues
<1>. QED  BY <1>3, <1>4, <1>5 DEF Reached

\* What the parser makes of the sources: for each model that they say something of, the
\* agent they say last.
LEMMA ParsedIsSaid ==
  ASSUME NEW t \in Texts, NEW m
  PROVE  /\ m \in DOMAIN Parsed(t) => Says(t, m, Parsed(t)[m])
         /\ m \notin DOMAIN Parsed(t) => \A a : ~Says(t, m, a)
<1>. DEFINE keyed == {i \in DOMAIN t.root : m \in Resolve(t, t.root[i].key)}
            last == CHOOSE i \in keyed : \A j \in keyed : j <= i
<1>1. DOMAIN t.root = 1..Len(t.root) /\ Len(t.root) \in Nat
  BY TextsAssumption
<1>2. keyed = {i \in DOMAIN t.root : LeadsTo(t, t.root[i].key, m)}
  BY ResolveFollowsAliases, TextsAssumption
<1>3. m \in DOMAIN Parsed(t) <=> keyed # {}
  BY DEF Parsed
<1>4. m \in DOMAIN Parsed(t) => Parsed(t)[m] = t.root[last].agent
  BY DEF Parsed
<1>. HIDE DEF keyed, last
<1>5. ASSUME keyed # {} PROVE last \in keyed /\ \A j \in keyed : j <= last
  <2>1. keyed \in SUBSET (1..Len(t.root))
    BY <1>1, <1>2
  <2>2. \E i \in keyed : \A j \in keyed : j <= i
    BY <1>1, <1>5, <2>1, LastExists
  <2>. QED  BY <2>2 DEF last
<1>6. ASSUME m \in DOMAIN Parsed(t) PROVE Says(t, m, Parsed(t)[m])
  <2>1. last \in DOMAIN t.root /\ LeadsTo(t, t.root[last].key, m)
    BY <1>2, <1>3, <1>5, <1>6
  <2>2. \A j \in (last + 1)..Len(t.root) : ~LeadsTo(t, t.root[j].key, m)
    <3>1. \A j \in (last + 1)..Len(t.root) : j \in DOMAIN t.root /\ ~(j <= last)
      BY <1>1, <2>1
    <3>. QED  BY <1>2, <1>3, <1>5, <1>6, <3>1
  <2>. QED  BY <1>4, <1>6, <2>1, <2>2 DEF Says
<1>. QED  BY <1>2, <1>3, <1>6 DEF Says

\* The table in use is that of the sources that were read last, if any were.
RegistryIsSource ==
  \/ source = {} /\ live = << >>
  \/ \E t \in Texts : source = {t} /\ live = Parsed(t)

\* agentIDForModel finds an agent that the sources, or else the built-in table, pair with
\* the model.
LEMMA AgentIsPaired ==
  ASSUME RegistryIsSource, NEW name
  PROVE  Agent(name) \in Paired(source, name)
<1>. DEFINE m == Canonical[name]
            said(texts) == {a \in UNION {{t.root[i].agent : i \in DOMAIN t.root} : t \in texts} :
                              \E t \in texts : Says(t, m, a)}
<1>1. CASE source = {} /\ live = << >>
  <2>1. said({}) = {} /\ m \notin DOMAIN live
    BY <1>1
  <2>. QED  BY <1>1, <2>1 DEF Agent, Paired
<1>2. ASSUME NEW t \in Texts, source = {t}, live = Parsed(t)
      PROVE  Agent(name) \in Paired(source, name)
  <2>1. CASE m \in DOMAIN live
    <3>1. Says(t, m, live[m])
      BY <1>2, <2>1, ParsedIsSaid
    <3>2. live[m] \in said({t})
      BY <3>1 DEF Says
    <3>3. Agent(name) = live[m]
      BY <2>1 DEF Agent
    <3>. QED  BY <1>2, <3>2, <3>3 DEF Paired
  <2>2. CASE m \notin DOMAIN live
    <3>1. said({t}) = {}
      BY <1>2, <2>2, ParsedIsSaid
    <3>. QED  BY <1>2, <2>2, <3>1 DEF Agent, Paired
  <2>. QED  BY <2>1, <2>2
<1>. QED  BY <1>1, <1>2 DEF RegistryIsSource

\* A run is named by its agent, in the cache as well, and that agent goes with the model
\* while a request is under way for it.
RunInv ==
  /\ RegistryIsSource
  /\ \A r \in cache : r.run = r.key
  /\ DOMAIN run = Calls /\ DOMAIN agents = Calls /\ at \in [Calls -> CallLabels]
  /\ \A c \in Calls : at[c] \in Retried => run[c] \in agents[c]

\* The call goes on to a step without a run, or with the one it has.
LEMMA RunKept ==
  ASSUME RunInv, NEW c \in Calls, UNCHANGED <<live, source, cache, run, agents>>,
         NEW l \in CallLabels, at' = [at EXCEPT ![c] = l], l \in Retried => at[c] \in Retried
  PROVE  RunInv'
BY DEF RunInv, RegistryIsSource

LEMMA RunsKept ==
  ASSUME RunInv, UNCHANGED <<live, source, cache, run, agents, at>>
  PROVE  RunInv'
BY DEF RunInv, RegistryIsSource

\* The call has an agent for the model it sends.
LEMMA RunTaken ==
  ASSUME RunInv, NEW c \in Calls, UNCHANGED <<live, source, cache>>,
         NEW l \in Retried, at' = [at EXCEPT ![c] = l],
         run' = [run EXCEPT ![c] = Agent(model[c])],
         agents' = [agents EXCEPT ![c] = Paired(source, model[c])]
  PROVE  RunInv'
<1>1. Agent(model[c]) \in Paired(source, model[c])
  BY AgentIsPaired DEF RunInv
<1>2. at' \in [Calls -> CallLabels]
  BY DEF RunInv, CallLabels, Requests
<1>3. run'[c] \in agents'[c]
  BY <1>1 DEF RunInv
<1>. QED  BY <1>2, <1>3 DEF RunInv, RegistryIsSource

LEMMA CallKeepsRun ==
  ASSUME RunInv, NEW c \in Calls, CallStep(c)
  PROVE  RunInv'
<1>. USE DEF Doing, Goto, CallLabels, Requests, Retried, netVars, registryVars
<1>1. CASE Begin(c) \/ MissRun(c)
  BY <1>1, RunKept DEF Begin, MissRun
<1>2. CASE FindRun(c)
  <2>1. PICK r \in CachedRun(Agent(model[c])) : run' = [run EXCEPT ![c] = r.run]
    BY <1>2 DEF FindRun
  <2>2. r.run = Agent(model[c])
    BY <2>1 DEF CachedRun, RunInv
  <2>. QED  BY <1>2, <2>1, <2>2, RunTaken DEF FindRun, Request
<1>4. CASE AskRun(c)
  BY <1>4, RunTaken DEF AskRun, Request
<1>5. CASE RunStarted(c)
  <2>1. /\ at[c] = "start_run" /\ at' = [at EXCEPT ![c] = "chat"]
        /\ UNCHANGED <<live, source, run, agents>>
    BY <1>5 DEF RunStarted, Request
  <2>2. \A r \in cache' : r.run = r.key
    BY <1>5 DEF RunStarted, RunInv
  <2>. QED  BY <2>1, <2>2 DEF RunInv, RegistryIsSource
<1>6. CASE Rejected(c)
  BY <1>6, RunKept DEF Rejected, Fail
<1>7. CASE Answered(c)
  BY <1>7, RunKept DEF Answered
<1>8. CASE SessionLost(c) \/ Poll(c)
  BY <1>8, RunKept DEF SessionLost, Poll, Request
<1>9. CASE SessionAnswered(c)
  <2>1. PICK s : SessionStarted(c, s) \/ SessionFound(c, s) \/ Polled(c, s)
    BY <1>9 DEF SessionAnswered
  <2>2. \E l \in {"wait", "run", "done"} : at' = [at EXCEPT ![c] = l]
    BY <2>1 DEF SessionStarted, SessionFound, Polled, Retry, GiveUp, Fail
  <2>3. UNCHANGED <<live, source, cache, run, agents>>
    BY <2>1 DEF SessionStarted, SessionFound, Polled, Told
  <2>. QED  BY <2>2, <2>3, RunKept
<1>11. CASE StopWaiting(c)
  BY <1>11, RunKept DEF StopWaiting, Fail
<1>12. CASE RetryTransport(c) \/ PauseEnds(c)
  BY <1>12, RunsKept DEF RetryTransport, PauseEnds, callVars
<1>14. CASE TransportFails(c)
  <2>1. \E l \in {"reread", "done"} : at' = [at EXCEPT ![c] = l]
    BY <1>14 DEF TransportFails, Unanswered, Request, Fail
  <2>2. UNCHANGED <<live, source, cache, run, agents>>
    BY <1>14 DEF TransportFails
  <2>. QED  BY <2>1, <2>2, RunKept
<1>15. CASE Dials(c) \/ Streams(c)
  BY <1>15, RunsKept DEF Dials, Streams, callVars
<1>. QED
  BY <1>1, <1>2, <1>4, <1>5, <1>6, <1>7, <1>8, <1>9, <1>11, <1>12, <1>14, <1>15 DEF CallStep

LEMMA RunStep == RunInv /\ [Next]_vars => RunInv'
<1>. SUFFICES ASSUME RunInv, [Next]_vars PROVE RunInv'
  OBVIOUS
<1>1. ASSUME NEW c \in Calls, CallStep(c) PROVE RunInv'
  BY <1>1, CallKeepsRun
<1>2. ASSUME NEW c \in Calls, Cancel(c) PROVE RunInv'
  BY <1>2, RunsKept DEF Cancel, callVars, registryVars
<1>3. CASE UpdatePool
  BY <1>3, RunsKept DEF UpdatePool, callVars, registryVars
<1>4. CASE UpdateRegistry
  <2>1. UNCHANGED <<at, cache, run>>
    BY <1>4 DEF UpdateRegistry
  <2>2. CASE RefreshFails /\ UNCHANGED agents
    BY <2>1, <2>2, RunsKept DEF RefreshFails
  <2>3. ASSUME NEW t \in Texts, RefreshRegistry(t),
               agents' = [c \in Calls |-> agents[c] \cup Paired({t}, model[c])]
        PROVE  RunInv'
    <3>1. RegistryIsSource'
      BY <2>3 DEF RefreshRegistry, RegistryIsSource
    <3>. QED  BY <2>1, <2>3, <3>1 DEF RunInv
  <2>. QED  BY <1>4, <2>2, <2>3 DEF UpdateRegistry
<1>5. CASE UNCHANGED vars
  BY <1>5, RunsKept DEF vars, callVars, registryVars
<1>. QED  BY <1>1, <1>2, <1>3, <1>4, <1>5 DEF Next, AtRest

LEMMA RunStart == Init => RunInv
BY DEF Init, RunInv, RegistryIsSource, CallLabels, Requests, Retried

\* Every chat and the run before it go out under an agent that goes with the model, for
\* any sources and calls, however the cache, the registry's refreshes and the change of
\* session interleave.
THEOREM AgentsFitModels == Spec => []AgentFitsModel
<1>1. RunInv => AgentFitsModel
  BY DEF RunInv, Retried, AgentFitsModel
<1>. QED  BY <1>1, RunStart, RunStep, PTL DEF Spec
-------------------------------------------------------------------------------
(* Types.                                                                      *)

\* The limits of a call's loops; a result is a call's last word; whoever has a run has
\* agents to compare it with.
BoundsInv ==
  /\ at \in [Calls -> CallLabels]
  /\ attempt \in [Calls -> 1..Attempts]
  /\ polls \in [Calls -> 0..MaxPolls]
  /\ DOMAIN result = Calls /\ DOMAIN run = Calls /\ DOMAIN agents = Calls
  /\ \A c \in Calls : result[c] # "none" => at[c] = "done"
  /\ \A c \in Calls : run[c] # NoAgent => agents[c] # {}

LEMMA BoundsStay ==
  ASSUME BoundsInv, UNCHANGED <<at, attempt, polls, result, run, agents>>
  PROVE  BoundsInv'
BY DEF BoundsInv

\* The call goes on, maybe with a new request.
LEMMA BoundsMove ==
  ASSUME BoundsInv, NEW c \in Calls, UNCHANGED <<result, run, agents>>,
         NEW l \in CallLabels, at' = [at EXCEPT ![c] = l], at[c] # "done",
         attempt' = attempt \/ attempt' = [attempt EXCEPT ![c] = 1],
         polls' \in [Calls -> 0..MaxPolls]
  PROVE  BoundsInv'
<1>1. 1 \in 1..Attempts
  BY ChatAssumption
<1>2. attempt' \in [Calls -> 1..Attempts]
  BY <1>1 DEF BoundsInv
<1>3. result[c] = "none"
  BY DEF BoundsInv
<1>. QED  BY <1>2, <1>3 DEF BoundsInv

LEMMA BoundsTaken ==
  ASSUME BoundsInv, NEW c \in Calls, UNCHANGED <<result, polls>>,
         NEW l \in CallLabels, at' = [at EXCEPT ![c] = l], at[c] # "done",
         attempt' = [attempt EXCEPT ![c] = 1],
         NEW r, run' = [run EXCEPT ![c] = r],
         NEW S, agents' = [agents EXCEPT ![c] = S], S # {}
  PROVE  BoundsInv'
BY ChatAssumption DEF BoundsInv

LEMMA BoundsReturn ==
  ASSUME BoundsInv, NEW c \in Calls, UNCHANGED <<attempt, polls, run, agents>>,
         at' = [at EXCEPT ![c] = "done"], NEW r, result' = [result EXCEPT ![c] = r]
  PROVE  BoundsInv'
BY DEF BoundsInv, CallLabels

LEMMA CallKeepsBounds ==
  ASSUME RunInv, BoundsInv, NEW c \in Calls, CallStep(c)
  PROVE  BoundsInv'
<1>. USE DEF Doing, Goto, CallLabels, Requests, Retried, netVars, registryVars
<1>0. polls \in [Calls -> 0..MaxPolls]
  BY DEF BoundsInv
<1>p. Paired(source, model[c]) # {}
  BY AgentIsPaired DEF RunInv
<1>1. CASE Begin(c) \/ MissRun(c)
  BY <1>0, <1>1, BoundsMove DEF Begin, MissRun
<1>2. CASE FindRun(c)
  BY <1>p, <1>2, BoundsTaken DEF FindRun, Request
<1>4. CASE AskRun(c)
  BY <1>p, <1>4, BoundsTaken DEF AskRun, Request
<1>5. CASE RunStarted(c)
  BY <1>0, <1>5, BoundsMove DEF RunStarted, Request
<1>6. CASE Rejected(c)
  BY <1>6, BoundsReturn DEF Rejected, Fail
<1>7. CASE Answered(c)
  BY <1>7, BoundsReturn DEF Answered
<1>8. CASE SessionLost(c)
  BY <1>0, <1>8, BoundsMove DEF SessionLost, Request
<1>9. CASE SessionAnswered(c)
  <2>1. PICK s : SessionStarted(c, s) \/ SessionFound(c, s) \/ Polled(c, s)
    BY <1>9 DEF SessionAnswered
  <2>2. /\ at[c] # "done" /\ UNCHANGED <<attempt, run, agents>>
    BY <2>1 DEF SessionStarted, SessionFound, Polled, Told
  <2>3. polls' = polls \/ polls' = [polls EXCEPT ![c] = 0]
    BY <2>1 DEF SessionStarted, SessionFound, Polled
  <2>4. polls' \in [Calls -> 0..MaxPolls]
    BY <1>0, <2>3, ChatAssumption
  <2>5. \/ \E l \in {"wait", "run"} : at' = [at EXCEPT ![c] = l] /\ UNCHANGED result
        \/ Fail(c) /\ UNCHANGED polls
    BY <2>1 DEF SessionStarted, SessionFound, Polled, Retry, GiveUp
  <2>. QED  BY <1>0, <2>2, <2>4, <2>5, BoundsMove, BoundsReturn DEF Fail
<1>10. CASE Poll(c)
  <2>1. polls' \in [Calls -> 0..MaxPolls]
    BY <1>0, <1>10, ChatAssumption DEF Poll
  <2>. QED  BY <1>0, <1>10, <2>1, BoundsMove DEF Poll, Request
<1>11. CASE StopWaiting(c)
  BY <1>11, BoundsReturn DEF StopWaiting, Fail
<1>12. CASE RetryTransport(c)
  <2>1. attempt' \in [Calls -> 1..Attempts]
    BY <1>12, ChatAssumption DEF RetryTransport, BoundsInv
  <2>. QED  BY <1>12, <2>1 DEF RetryTransport, BoundsInv
<1>13. CASE PauseEnds(c)
  BY <1>13, BoundsStay DEF PauseEnds, callVars
<1>14. CASE TransportFails(c)
  <2>1. \/ Request(c, "reread") /\ UNCHANGED result
        \/ Fail(c) /\ UNCHANGED attempt
    BY <1>14 DEF TransportFails, Unanswered
  <2>2. at[c] # "done" /\ UNCHANGED <<polls, run, agents>>
    BY <1>14 DEF TransportFails
  <2>. QED  BY <1>0, <2>1, <2>2, BoundsMove, BoundsReturn DEF Fail, Request
<1>15. CASE Dials(c) \/ Streams(c)
  BY <1>15, BoundsStay DEF Dials, Streams, callVars
<1>. QED
  BY <1>1, <1>2, <1>4, <1>5, <1>6, <1>7, <1>8, <1>9, <1>10, <1>11, <1>12, <1>13, <1>14,
     <1>15 DEF CallStep

\* The variables of every call have their types: retries and polls stay within
\* their limits, a result is a call's last step, and a request's way belongs to it.
THEOREM TypeCorrectFreebuff == Spec => []TypeOK
<1>1. Init => BoundsInv
  BY ChatAssumption DEF Init, BoundsInv, CallLabels, Requests, Retried
<1>2. RunInv /\ BoundsInv /\ [Next]_vars => BoundsInv'
  <2>. SUFFICES ASSUME RunInv, BoundsInv, [Next]_vars PROVE BoundsInv'
    OBVIOUS
  <2>1. ASSUME NEW c \in Calls, CallStep(c) PROVE BoundsInv'
    BY <2>1, CallKeepsBounds
  <2>2. CASE UpdateRegistry
    <3>1. UNCHANGED <<at, attempt, polls, result, run>>
      BY <2>2 DEF UpdateRegistry
    <3>2. CASE UNCHANGED agents
      BY <3>1, <3>2, BoundsStay
    <3>3. ASSUME NEW t \in Texts,
                 agents' = [c \in Calls |-> agents[c] \cup Paired({t}, model[c])]
          PROVE  BoundsInv'
      BY <3>1, <3>3 DEF BoundsInv
    <3>. QED  BY <2>2, <3>2, <3>3 DEF UpdateRegistry
  <2>3. CASE (\E c \in Calls : Cancel(c)) \/ UpdatePool \/ UNCHANGED vars
    BY <2>3, BoundsStay DEF Cancel, UpdatePool, vars, callVars
  <2>. QED  BY <2>1, <2>2, <2>3 DEF Next, AtRest
<1>3. Inv /\ [Next]_vars => Inv'
  BY NextKeeps
<1>4. StreamInv => errs \in [Calls -> 0..1]
  BY DEF StreamInv, StreamTypes
<1>5. Inv /\ BoundsInv /\ errs \in [Calls -> 0..1] => TypeOK
  BY DEF Inv, PoolInv, WireInv, RotationTypeOK, BoundsInv, CallLabels, TypeOK
<1>. QED
  BY <1>1, <1>2, <1>3, <1>4, <1>5, InitHolds, RunStart, RunStep, StreamsAlways, PTL DEF Spec
===============================================================================
