----------------------------- MODULE ProxyRotation -----------------------------
(***************************************************************************)
(* The SOCKS5 proxies of freebuff-proxy (stealth/proxy.go) and the dialer  *)
(* of its stealth client that goes through them (stealth/tls.go).          *)
(* (freebuff-unified has an earlier copy of both, which its chats do not   *)
(* go through.)                                                            *)
(*                                                                         *)
(* A dial takes the next usable entry, works without the pool's lock, and  *)
(* reports how it went by address: the entry it took may have been         *)
(* replaced by a refresh in the meantime, and other dials use it too.      *)
(* geoVerifyProxies, the list's host and the proxies are the environment.  *)
(***************************************************************************)
EXTENDS ChatCalls, Naturals, Sequences, FiniteSets, SequencesExt

CONSTANTS
  Proxies,           \* addresses, host and port
  NoProxy,           \* a dial without one
  Lists,             \* lists a refresh may fetch: sequences of [proxy, country]
  MaxFailures        \* failures before an entry is skipped: the 3 of Next and MarkFailure
                     \* (NewProxyPool does not keep its config's MaxFailures)

Countries == {"US", "other", "unknown"}

ASSUME RotationAssumption == NoProxy \notin Proxies /\ MaxFailures \in Nat \ {0}
ASSUME ListsAssumption == \A list \in Lists : list \in Seq([proxy : Proxies, country : Countries])

VARIABLES
  geo,               \* "open", "strict" (strict_geo) or "verify" (with geo_verify)
  pool,              \* entries, fastest first
  current,           \* where the rotation stands, from zero
  refreshes,         \* refreshes left to the run
  wire,              \* how far a call's request is on its way
  via,               \* the proxy its dial goes through
  streak             \* history: failures reported in a row for an address of this pool

poolVars == <<geo, pool, current, refreshes, streak>>

Entry == [proxy : Proxies, country : Countries, alive : BOOLEAN, failures : Nat]

First(p) == {i \in DOMAIN pool : pool[i].proxy = p /\ \A j \in 1..(i - 1) : pool[j].proxy # p}
ListedOnce(p) ==
  \A i, j \in DOMAIN pool : pool[i].proxy = p /\ pool[j].proxy = p => i = j

\* MarkFailure: the first entry of that address, whichever list it came from.
MarkFailure(p) ==
  /\ pool' = [i \in DOMAIN pool |->
                IF i \in First(p)
                THEN [pool[i] EXCEPT !.failures = @ + 1,
                                     !.alive = @ /\ pool[i].failures + 1 < MaxFailures]
                ELSE pool[i]]
  /\ streak' = [streak EXCEPT ![p] = IF @ < MaxFailures THEN @ + 1 ELSE @]

\* MarkSuccess: revives it as well.
MarkSuccess(p) ==
  /\ pool' = [i \in DOMAIN pool |->
                IF i \in First(p) THEN [pool[i] EXCEPT !.failures = 0, !.alive = TRUE] ELSE pool[i]]
  /\ streak' = [streak EXCEPT ![p] = 0]

\* Mutant of Usable: the last failure is one too many.
UsableOnceMore(e) == e.failures <= MaxFailures

Usable(e) == e.alive /\ e.failures < MaxFailures

\* Mutant of After: the rotation does not go round.
AfterTheEnd(k) == current + k

\* Next.
After(k) == (current + k) % Len(pool)

TakeProxy(c) ==
  /\ wire[c] = "ready"
  /\ \E k \in 0..(Len(pool) - 1) :
       /\ Usable(pool[1 + After(k)])
       /\ \A j \in 0..(k - 1) : ~Usable(pool[1 + After(j)])
       /\ via' = [via EXCEPT ![c] = pool[1 + After(k)].proxy]
       /\ current' = After(k + 1)
  /\ wire' = [wire EXCEPT ![c] = "socks"]
  /\ UNCHANGED <<geo, pool, refreshes, streak>>

\* No usable proxy, or none configured: dial directly.
DialDirectly(c) ==
  /\ wire[c] = "ready"
  /\ \A i \in DOMAIN pool : ~Usable(pool[i])
  /\ wire' = [wire EXCEPT ![c] = "direct"]
  /\ UNCHANGED <<poolVars, via>>

\* Dial: the proxy does not connect, which is reported; go directly.
ProxyFails(c) ==
  /\ wire[c] = "socks"
  /\ MarkFailure(via[c])
  /\ via' = [via EXCEPT ![c] = NoProxy]
  /\ wire' = [wire EXCEPT ![c] = "direct"]
  /\ UNCHANGED <<geo, current, refreshes>>

Connects(c) ==
  /\ wire[c] \in {"socks", "direct"}
  /\ wire' = [wire EXCEPT ![c] = "tls"]
  /\ UNCHANGED <<poolVars, via>>

\* The handshake completes: the request is sent.
Handshake(c) ==
  /\ wire[c] = "tls"
  /\ wire' = [wire EXCEPT ![c] = "sent"]
  /\ IF via[c] = NoProxy THEN UNCHANGED <<pool, streak>> ELSE MarkSuccess(via[c])
  /\ via' = [via EXCEPT ![c] = NoProxy]
  /\ UNCHANGED <<geo, current, refreshes>>

\* http.Transport has an idle connection.
ReuseConnection(c) ==
  /\ wire[c] = "ready"
  /\ wire' = [wire EXCEPT ![c] = "sent"]
  /\ UNCHANGED <<poolVars, via>>

\* What a dial that ends without a connection reports: a failed handshake counts
\* against the proxy, a failed direct dial against nobody.
GiveUpDial(c) ==
  /\ wire[c] \in {"direct", "tls"}
  /\ IF via[c] = NoProxy THEN UNCHANGED <<pool, streak>> ELSE MarkFailure(via[c])
  /\ via' = [via EXCEPT ![c] = NoProxy]
  /\ UNCHANGED <<geo, current, refreshes>>

DialStep(c) ==
  TakeProxy(c) \/ DialDirectly(c) \/ ProxyFails(c) \/ Connects(c) \/ Handshake(c)
    \/ ReuseConnection(c)

\* geoVerifyProxies: those the service locates in the US, nobody if it fails.
Located(list, us) == {i \in DOMAIN list : list[i].proxy \in us}

\* Which entries of a list may be used, by the country the service or the list names.
Admitted(list, us) ==
  IF geo = "verify" THEN Located(list, us)
  ELSE {i \in DOMAIN list : geo = "open" \/ list[i].country \in {"US", "unknown"}}

\* The pool is replaced by some of a list, in the order the latencies happen to give.
Replace(list, chosen, alive) ==
  /\ \E order \in SetToSeqs(chosen) :
       pool' = [k \in 1..Cardinality(chosen) |->
                  [proxy    |-> list[order[k]].proxy,
                   country  |-> IF geo = "verify" THEN "US" ELSE list[order[k]].country,
                   alive    |-> alive,
                   failures |-> 0]]
  /\ current' = 0
  /\ streak' = [p \in Proxies |-> 0]

\* Refresh: a failure, and in strict mode a list of which nothing remains, leave the
\* pool as it is; in the open mode a list nobody of which answers is kept as dead.
Refresh(list, healthy) ==
  /\ refreshes > 0
  /\ refreshes' = refreshes - 1
  /\ \/ healthy # {} /\ Replace(list, healthy, TRUE)
     \/ healthy = {} /\ geo = "open" /\ list # <<>> /\ Replace(list, DOMAIN list, FALSE)
     \/ healthy = {} /\ (geo # "open" \/ list = <<>>) /\ UNCHANGED <<pool, current, streak>>
  /\ UNCHANGED <<geo, wire, via>>

RefreshPool ==
  \E list \in Lists, us \in SUBSET Proxies :
    \E healthy \in SUBSET Admitted(list, us) : Refresh(list, healthy)
-------------------------------------------------------------------------------
RotationTypeOK ==
  /\ pool \in Seq(Entry)
  /\ current \in 0..Len(pool)
  /\ pool # <<>> => current < Len(pool)
  /\ \A c \in Calls : via[c] # NoProxy => wire[c] \in {"socks", "tls"}

\* A proxy that has failed MaxFailures times in a row since the list was replaced is
\* handed to no dial until one that had it before succeeds, however the dials of several
\* calls and a refresh interleave (an address the list names twice is the exception:
\* failures only ever count against its first entry).
EvictedStayOut ==
  [][\A c \in Calls :
       wire[c] = "ready" /\ wire'[c] = "socks" /\ ListedOnce(via'[c])
         => streak[via'[c]] < MaxFailures]_<<poolVars, wire, via>>
================================================================================
