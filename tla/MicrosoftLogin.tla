---------------------------- MODULE MicrosoftLogin ----------------------------
(***************************************************************************)
(* Sign-in with Microsoft Enterprise SSO (auth/microsoft_sso.go): a table  *)
(* of login sessions that handlers start, continue with a pasted callback  *)
(* URL and cancel, and that timers remove.                                 *)
(*                                                                         *)
(* The table has a lock, which every operation on it holds in one step,    *)
(* and each session one of its own, which Continue holds across its        *)
(* network calls.  Cancel does not wait for that lock: it marks the        *)
(* session and wipes it only if nobody holds it, and relies on the holder  *)
(* to look at the mark before it leaves.                                   *)
(***************************************************************************)
EXTENDS PanelHandlers, ExternalIdp, Naturals

CONSTANTS
  Sessions,       \* session IDs
  MaxSessions,    \* microsoftSSOMaxSessions
  Lapsing,        \* sessions whose ten minutes may pass
  Descriptors,    \* [client, issuer, scopes]: what Kiro's portal may send back
  Documents       \* [issuer, authorize, token]: answers to a discovery request

ASSUME SessionsAssumption == MaxSessions \in Nat \ {0} /\ Lapsing \subseteq Sessions

VARIABLES
  msTable,        \* microsoftSSOSessions
  msStage,        \* stage of a session, "none" before it is started
  msExpired,      \* sessions past ExpiresAt
  msCanceled,     \* sessions whose `canceled` is set
  msPortal,       \* sessions that still hold PortalState and ProxyURL
  msLeg,          \* providerLeg: the configuration the second leg works with
  msLock,         \* who holds a session's lock
  marking,        \* <<g, s>>: g took s from the table and has yet to mark it
  wiping,         \* <<g, s>>: g has marked s and will wipe it if nobody holds it
  missed          \* history: marked while the holder had looked for the last time

msVars == <<msTable, msStage, msExpired, msCanceled, msPortal, msLeg, msLock,
            marking, wiping, missed>>

MsOps == {"ms_start", "ms_continue", "ms_cancel", "ms_timer"}
S(g) == job[g].id

\* The descriptors the first leg accepts before it asks Microsoft.
Acceptable == {d \in Descriptors : d.client \in Clients /\ ValidScopes(d.scopes, d.client)}

\* Mutant of Retire: the session only leaves the table.
RetireUnmarked(s) ==
  /\ msTable' = msTable \ {s}
  /\ UNCHANGED <<msCanceled, msPortal, msLeg>>

\* Leave the table, be marked and wiped at once: for a holder of the session's lock.
Retire(s) ==
  /\ msTable' = msTable \ {s}
  /\ msCanceled' = msCanceled \cup {s}
  /\ msPortal' = msPortal \ {s}
  /\ msLeg' = [msLeg EXCEPT ![s] = NoConfiguration]

Keep(s) == UNCHANGED <<msTable, msCanceled, msPortal, msLeg>>

\* Mutant of Room: one session too many.
RoomForOneMore(table) == Cardinality(table) <= MaxSessions
Room(table) == Cardinality(table) < MaxSessions

\* StartMicrosoftSSOLogin: sessions past their time leave the table, a new one enters
\* if there is room; those that left are discarded after the table's lock.
MsStart(g) ==
  /\ Doing(g, "ms_start", "routed")
  /\ msStage[S(g)] = "none"
  /\ LET old == msTable \cap msExpired
     IN  /\ IF Room(msTable \ old)
            THEN /\ msTable' = (msTable \ old) \cup {S(g)}
                 /\ msStage' = [msStage EXCEPT ![S(g)] = "portal"]
                 /\ msPortal' = msPortal \cup {S(g)}
            ELSE /\ msTable' = msTable \ old
                 /\ UNCHANGED <<msStage, msPortal>>
         /\ marking' = marking \cup {<<g, s>> : s \in old}
         /\ Goto(g, IF old = {} THEN "done" ELSE "ms_discarding")
  /\ UNCHANGED <<msExpired, msCanceled, msLeg, msLock, wiping, missed, up, job, then, grant>>

\* CancelMicrosoftSSOLogin and a session's timer: detach the session, if it is there.
MsDetach(g) ==
  /\ \/ Doing(g, "ms_cancel", "routed")
     \/ Doing(g, "ms_timer", "arrived") /\ S(g) \in msExpired
  /\ LET there == {S(g)} \cap msTable
     IN  /\ msTable' = msTable \ there
         /\ marking' = marking \cup {<<g, s>> : s \in there}
         /\ Goto(g, IF there = {} THEN "done" ELSE "ms_discarding")
  /\ UNCHANGED <<msStage, msExpired, msCanceled, msPortal, msLeg, msLock, wiping, missed,
                 up, job, then, grant>>

\* discardDetachedMicrosoftSSOSession marks the session ...
MsMark(g) ==
  /\ up
  /\ \E s \in Sessions :
       /\ <<g, s>> \in marking
       /\ msCanceled' = msCanceled \cup {s}
       /\ marking' = marking \ {<<g, s>>}
       /\ wiping' = wiping \cup {<<g, s>>}
  /\ UNCHANGED <<msTable, msStage, msExpired, msPortal, msLeg, msLock, missed, handlerVars>>

\* ... and wipes it unless its lock is taken.
MsWipe(g) ==
  /\ up
  /\ \E s \in Sessions :
       /\ <<g, s>> \in wiping
       /\ IF msLock[s] = NoHandler
          THEN /\ msPortal' = msPortal \ {s}
               /\ msLeg' = [msLeg EXCEPT ![s] = NoConfiguration]
               /\ UNCHANGED missed
          ELSE /\ missed' = IF at[msLock[s]] = "ms_unlock" THEN missed \cup {s} ELSE missed
               /\ UNCHANGED <<msPortal, msLeg>>
       /\ wiping' = wiping \ {<<g, s>>}
       /\ IF \E t \in Sessions : <<g, t>> \in marking \cup wiping'
          THEN UNCHANGED at
          ELSE Goto(g, "done")
  /\ UNCHANGED <<msTable, msStage, msExpired, msCanceled, msLock, marking, up, job, then, grant>>

\* getMicrosoftSSOSession: look the session up; one past its time leaves the table.
MsLookUp(g) ==
  /\ Doing(g, "ms_continue", "routed")
  /\ \/ /\ S(g) \notin msTable
        /\ Goto(g, "done")
        /\ UNCHANGED <<msTable, marking>>
     \/ /\ S(g) \in msTable \cap msExpired
        /\ msTable' = msTable \ {S(g)}
        /\ marking' = marking \cup {<<g, S(g)>>}
        /\ Goto(g, "ms_discarding")
     \/ /\ S(g) \in msTable \ msExpired
        /\ Goto(g, "ms_lock")
        /\ UNCHANGED <<msTable, marking>>
  /\ UNCHANGED <<msStage, msExpired, msCanceled, msPortal, msLeg, msLock, wiping, missed,
                 up, job, then, grant>>

\* What Continue does under the session's lock before it calls anyone.  The pasted URL
\* is unusable (another leg's, another session's state, a parameter missing, doubled or
\* malformed), reports an error, or carries what the leg needs.
MsContinue(g) ==
  /\ Doing(g, "ms_continue", "ms_lock")
  /\ msLock[S(g)] = NoHandler
  /\ msLock' = [msLock EXCEPT ![S(g)] = g]
  /\ \/ /\ S(g) \in msCanceled                              \* canceled while it waited
        /\ Keep(S(g)) /\ Goto(g, "ms_look")
     \/ /\ S(g) \in msExpired \ msCanceled
        /\ Retire(S(g)) /\ Goto(g, "ms_look")
     \/ /\ S(g) \notin msExpired \cup msCanceled
        /\ \/ Keep(S(g)) /\ Goto(g, "ms_look")              \* unusable
           \/ Retire(S(g)) /\ Goto(g, "ms_look")            \* an error parameter
           \/ /\ msStage[S(g)] = "portal" /\ Acceptable # {}
              /\ Keep(S(g)) /\ Goto(g, "ms_discovering")
           \/ /\ msStage[S(g)] = "provider" /\ msLeg[S(g)] # NoConfiguration
              /\ Keep(S(g)) /\ Goto(g, "ms_exchanging")
  /\ UNCHANGED <<msStage, msExpired, marking, wiping, missed, up, job, then, grant>>

\* The rest of continueMicrosoftPortalLeg: the discovery answer, a look at the mark,
\* the configuration of the second leg.
MsDiscovered(g) ==
  /\ Doing(g, "ms_continue", "ms_discovering")
  /\ \/ /\ Keep(S(g))                                       \* no or no fitting answer
        /\ UNCHANGED msStage
     \/ /\ S(g) \in msCanceled
        /\ Retire(S(g))
        /\ UNCHANGED msStage
     \/ /\ S(g) \notin msCanceled
        /\ \E d \in Acceptable, doc \in Documents :
             /\ ValidIssuer(d.issuer)
             /\ DiscoveryAccepted(d.issuer, doc)
             /\ msLeg' = [msLeg EXCEPT ![S(g)] =
                            [client |-> d.client, issuer |-> d.issuer,
                             token |-> doc.token, scopes |-> d.scopes]]
        /\ msStage' = [msStage EXCEPT ![S(g)] = "provider"]
        /\ UNCHANGED <<msTable, msCanceled, msPortal>>
  /\ Goto(g, "ms_look")
  /\ UNCHANGED <<msExpired, msLock, marking, wiping, missed, up, job, then, grant>>

\* The rest of continueMicrosoftProviderLeg: whatever the token endpoint answers, the
\* session ends; it gives an account unless it was canceled meanwhile, the answer has
\* no refresh token, or the access token names another issuer.
MsExchanged(g) ==
  /\ Doing(g, "ms_continue", "ms_exchanging")
  /\ \/ UNCHANGED grant
     \/ /\ S(g) \notin msCanceled
        /\ MaySendTo(msLeg[S(g)].token, msLeg[S(g)].issuer)
        /\ grant' = [grant EXCEPT ![g] = [login |-> S(g), conf |-> msLeg[S(g)]]]
  /\ Retire(S(g))
  /\ Goto(g, "ms_look")
  /\ UNCHANGED <<msStage, msExpired, msLock, marking, wiping, missed, up, job, then>>

\* Mutant of MsLook: the deferred function only unlocks.
MsLookAway(g) ==
  /\ Doing(g, "ms_continue", "ms_look")
  /\ Goto(g, "ms_unlock")
  /\ UNCHANGED <<msVars, up, job, then, grant>>

\* The deferred function: a last look at the mark ...
MsLook(g) ==
  /\ Doing(g, "ms_continue", "ms_look")
  /\ IF S(g) \in msCanceled
     THEN /\ msPortal' = msPortal \ {S(g)}
          /\ msLeg' = [msLeg EXCEPT ![S(g)] = NoConfiguration]
     ELSE UNCHANGED <<msPortal, msLeg>>
  /\ Goto(g, "ms_unlock")
  /\ UNCHANGED <<msTable, msStage, msExpired, msCanceled, msLock, marking, wiping, missed,
                 up, job, then, grant>>

\* ... and the unlock.
MsUnlock(g) ==
  /\ Doing(g, "ms_continue", "ms_unlock")
  /\ msLock' = [msLock EXCEPT ![S(g)] = NoHandler]
  /\ Goto(g, IF grant[g] = NoGrant THEN "done" ELSE "persist")
  /\ UNCHANGED <<msTable, msStage, msExpired, msCanceled, msPortal, msLeg, marking, wiping,
                 missed, up, job, then, grant>>

\* The ten minutes of a session pass.
MsExpire(s) ==
  /\ up
  /\ s \in Lapsing \ msExpired
  /\ msStage[s] # "none"
  /\ msExpired' = msExpired \cup {s}
  /\ UNCHANGED <<msTable, msStage, msCanceled, msPortal, msLeg, msLock, marking, wiping,
                 missed, handlerVars>>

MsStep(g) ==
  \/ MsStart(g) \/ MsDetach(g) \/ MsMark(g) \/ MsWipe(g) \/ MsLookUp(g)
  \/ MsContinue(g) \/ MsDiscovered(g) \/ MsExchanged(g) \/ MsLook(g) \/ MsUnlock(g)

\* `open` are the sessions an operator has started before.
MsInit(open) ==
  /\ msTable = open
  /\ msStage = [s \in Sessions |-> IF s \in open THEN "portal" ELSE "none"]
  /\ msExpired = {}
  /\ msCanceled = {}
  /\ msPortal = open
  /\ msLeg = [s \in Sessions |-> NoConfiguration]
  /\ msLock = [s \in Sessions |-> NoHandler]
  /\ marking = {}
  /\ wiping = {}
  /\ missed = {}

\* The process has been started again: no session of before is left.
MsForget ==
  /\ msTable' = {}
  /\ msPortal' = {}
  /\ msLeg' = [s \in Sessions |-> NoConfiguration]
  /\ msLock' = [s \in Sessions |-> NoHandler]
  /\ marking' = {}
  /\ wiping' = {}
  /\ UNCHANGED <<msStage, msExpired, msCanceled, missed>>
-------------------------------------------------------------------------------
\* Nothing of a canceled or finished login is kept: once a session is marked and all
\* who held it or were to wipe it have left, neither its states nor its verifier is in
\* memory.  The exception is the gap the code has: a cancel whose TryLock fails between
\* the holder's last look at the mark and its unlock (line 174 against 957).
SecretsWiped ==
  \A s \in msCanceled \ missed :
    (/\ msLock[s] = NoHandler
     /\ \A g \in Handlers : <<g, s>> \notin marking \cup wiping)
    => s \notin msPortal /\ msLeg[s] = NoConfiguration

\* A code goes only to the token endpoint of the tenant whose issuer the login is bound
\* to, and what is stored of a login passes the checks the package documents for every
\* later refresh (ValidateExternalIdpConfiguration).
LegsAreBound ==
  \A s \in Sessions : msLeg[s] # NoConfiguration => ValidConfiguration(msLeg[s])
===============================================================================
