------------------------------ MODULE DeviceLogins ------------------------------
(***************************************************************************)
(* The sign-ins with AWS: IAM Identity Center by a pasted callback         *)
(* (auth/iam_sso.go), Builder ID by a device code that the panel polls     *)
(* (auth/builderid.go), and the import of a batch of portal tokens, each   *)
(* of which runs the whole device flow by itself (auth/sso_token.go).      *)
(*                                                                         *)
(* Unlike a Microsoft session these have no lock of their own: a handler   *)
(* looks its session up, calls upstream, and deletes it after the answer,  *)
(* so two handlers may be at it at the same time.  That one code gives one *)
(* account is then up to the token endpoint, which takes a code once       *)
(* (`spent`).                                                              *)
(***************************************************************************)
EXTENDS PanelHandlers, Naturals, Sequences

CONSTANTS
  IamSessions, DeviceSessions,   \* session IDs of the two tables
  LapsingLogins,                 \* sessions of either whose time may run out
  Batch,                         \* the portal tokens of an import, a sequence
  NoConf                         \* these accounts have no external configuration

ASSUME LoginsAssumption == IamSessions \cap DeviceSessions = {}

VARIABLES
  iamTable,       \* sessions
  deviceTable,    \* builderIdSessions
  started,        \* sessions of either kind that were ever started
  overdue,        \* those past ExpiresAt
  spent,          \* upstream: codes and device codes it has given a token for
  interval,       \* Interval of a device login, in steps of five seconds
  batch,          \* of an import: <<tokens dealt with, step of the current one>>
  failures        \* of an import: the tokens that ended in an error

loginVars == <<iamTable, deviceTable, started, overdue, spent, interval, batch, failures>>

LoginOps == {"iam_start", "iam_complete", "bid_start", "bid_poll", "sso_import"}
Login(g) == job[g].id
MaxInterval == 2       \* bound on the slow_down answers counted

\* What an import does for one token; each step is a call upstream.
SsoSteps == <<"register", "authorize", "verify", "session", "accept", "approve", "poll">>
CurrentToken(g) == Batch[batch[g][1] + 1]
Granted(login) == [login |-> login, conf |-> NoConf]

\* Registering (or, for a device, asking for a code) fails: nothing is stored.
Refused(g) ==
  /\ Goto(g, "done")
  /\ UNCHANGED <<iamTable, deviceTable, started>>

\* StartIamSsoLogin: register upstream, store the session; cleanupExpiredSessions runs
\* in a goroutine, which the handler stands for from here on.
StartIam(g) ==
  /\ Doing(g, "iam_start", "routed")
  /\ Login(g) \notin started
  /\ \/ Refused(g)
     \/ /\ started' = started \cup {Login(g)}
        /\ iamTable' = iamTable \cup {Login(g)}
        /\ UNCHANGED deviceTable
        /\ Goto(g, "cleanup")
  /\ UNCHANGED <<overdue, spent, interval, batch, failures, up, job, then, grant>>

\* StartBuilderIdLogin, likewise.
StartBuilderId(g) ==
  /\ Doing(g, "bid_start", "routed")
  /\ Login(g) \notin started
  /\ \/ Refused(g)
     \/ /\ started' = started \cup {Login(g)}
        /\ deviceTable' = deviceTable \cup {Login(g)}
        /\ UNCHANGED iamTable
        /\ Goto(g, "cleanup")
  /\ UNCHANGED <<overdue, spent, interval, batch, failures, up, job, then, grant>>

\* cleanupExpiredSessions, cleanupExpiredBuilderIdSessions.
CleanUp(g) ==
  /\ up /\ at[g] = "cleanup"
  /\ iamTable' = IF Login(g) \in IamSessions THEN iamTable \ overdue ELSE iamTable
  /\ deviceTable' = IF Login(g) \in DeviceSessions THEN deviceTable \ overdue ELSE deviceTable
  /\ Goto(g, "done")
  /\ UNCHANGED <<started, overdue, spent, interval, batch, failures, up, job, then, grant>>

\* The lookup under the read lock, the expiry check after it.
LookUpLogin(g) ==
  /\ \/ Doing(g, "iam_complete", "routed") \/ Doing(g, "bid_poll", "routed")
  /\ Goto(g, IF Login(g) \notin iamTable \cup deviceTable THEN "done"
             ELSE IF Login(g) \in overdue THEN "forget"
             ELSE "asking")
  /\ UNCHANGED <<loginVars, up, job, then, grant>>

\* delete(sessions, id): after an expiry, a refusal or a token.
Forget(g) ==
  /\ up /\ at[g] = "forget"
  /\ iamTable' = iamTable \ {Login(g)}
  /\ deviceTable' = deviceTable \ {Login(g)}
  /\ Goto(g, IF grant[g] = NoGrant THEN "done" ELSE "persist")
  /\ UNCHANGED <<started, overdue, spent, interval, batch, failures, up, job, then, grant>>

\* The token endpoint gives a token for a code or device code once.
ReceiveToken(g) ==
  /\ Login(g) \notin spent
  /\ spent' = spent \cup {Login(g)}
  /\ grant' = [grant EXCEPT ![g] = Granted(Login(g))]
  /\ Goto(g, "forget")

\* The rest of CompleteIamSsoLogin: an unusable callback or a failing exchange leaves
\* the session for another try.
IamAnswer(g) ==
  /\ Doing(g, "iam_complete", "asking")
  /\ \/ /\ Goto(g, "done")
        /\ UNCHANGED <<spent, grant>>
     \/ ReceiveToken(g)
  /\ UNCHANGED <<iamTable, deviceTable, started, overdue, interval, batch, failures, up, job, then>>

\* PollBuilderIdAuth: pending, an error or an unexpected status leave the session,
\* slow_down raises its interval if it is still there, a denied or expired device code
\* removes it.
PollAnswer(g) ==
  /\ Doing(g, "bid_poll", "asking")
  /\ \/ /\ Goto(g, "done")
        /\ UNCHANGED <<spent, grant, interval>>
     \/ /\ Goto(g, "slower")
        /\ UNCHANGED <<spent, grant, interval>>
     \/ /\ Goto(g, "forget")
        /\ UNCHANGED <<spent, grant, interval>>
     \/ ReceiveToken(g) /\ UNCHANGED interval
  /\ UNCHANGED <<iamTable, deviceTable, started, overdue, batch, failures, up, job, then>>

SlowDown(g) ==
  /\ up /\ at[g] = "slower"
  /\ interval' = IF Login(g) \in deviceTable /\ interval[Login(g)] < MaxInterval
                 THEN [interval EXCEPT ![Login(g)] = @ + 1] ELSE interval
  /\ Goto(g, "done")
  /\ UNCHANGED <<iamTable, deviceTable, started, overdue, spent, batch, failures, up, job, then, grant>>

\* apiImportSsoToken goes through the batch; ImportFromSsoToken takes a token through
\* the steps, and the first that fails ends it.  A device flow without a context skips
\* the approval.
SsoNext(g) ==
  /\ up /\ job[g].op = "sso_import" /\ at[g] \in {"routed", "next"}
  /\ Goto(g, IF batch[g][1] = Len(Batch) THEN "done" ELSE "flow")
  /\ UNCHANGED <<loginVars, up, job, then, grant>>

SsoStep(g) ==
  /\ Doing(g, "sso_import", "flow")
  /\ batch[g][2] < Len(SsoSteps)
  /\ \E to \in 2..Len(SsoSteps) :
       /\ \/ to = batch[g][2] + 1
          \/ SsoSteps[batch[g][2]] = "accept" /\ SsoSteps[to] = "poll"
       /\ batch' = [batch EXCEPT ![g][2] = to]
  /\ UNCHANGED <<iamTable, deviceTable, started, overdue, spent, interval, failures, handlerVars>>

\* Mutant of SsoFail: a token that failed is tried again.
SsoFailRetries(g) ==
  /\ Doing(g, "sso_import", "flow")
  /\ batch' = [batch EXCEPT ![g][2] = 1]
  /\ Goto(g, "next")
  /\ UNCHANGED <<iamTable, deviceTable, started, overdue, spent, interval, failures, up, job, then, grant>>

\* A step fails, or pollForToken meets an error other than pending and slow_down, or
\* its two minutes are over.
SsoFail(g) ==
  /\ Doing(g, "sso_import", "flow")
  /\ failures' = [failures EXCEPT ![g] = Append(@, CurrentToken(g))]
  /\ batch' = [batch EXCEPT ![g] = <<@[1] + 1, 1>>]
  /\ Goto(g, "next")
  /\ UNCHANGED <<iamTable, deviceTable, started, overdue, spent, interval, up, job, then, grant>>

SsoToken(g) ==
  /\ Doing(g, "sso_import", "flow")
  /\ batch[g][2] = Len(SsoSteps)
  /\ grant' = [grant EXCEPT ![g] = Granted(CurrentToken(g))]
  /\ batch' = [batch EXCEPT ![g] = <<@[1] + 1, 1>>]
  /\ Goto(g, "persist")
  /\ UNCHANGED <<iamTable, deviceTable, started, overdue, spent, interval, failures, up, job, then>>

LoginExpires(s) ==
  /\ up
  /\ s \in (started \cap LapsingLogins) \ overdue
  /\ overdue' = overdue \cup {s}
  /\ UNCHANGED <<iamTable, deviceTable, started, spent, interval, batch, failures, handlerVars>>

LoginStep(g) ==
  \/ StartIam(g) \/ StartBuilderId(g) \/ CleanUp(g) \/ LookUpLogin(g) \/ Forget(g)
  \/ IamAnswer(g) \/ PollAnswer(g) \/ SlowDown(g) \/ SsoNext(g) \/ SsoStep(g) \/ SsoFail(g) \/ SsoToken(g)

LoginInit(open) ==
  /\ iamTable = open \cap IamSessions
  /\ deviceTable = open \cap DeviceSessions
  /\ started = open
  /\ overdue = {}
  /\ spent = {}
  /\ interval = [s \in DeviceSessions |-> 1]
  /\ batch = [g \in Handlers |-> <<0, 1>>]
  /\ failures = [g \in Handlers |-> <<>>]

\* The process has been started again: no session of before is left.
LoginForget ==
  /\ iamTable' = {}
  /\ deviceTable' = {}
  /\ UNCHANGED <<started, overdue, spent, interval, batch, failures>>
===============================================================================
