---------------------------- MODULE AdminSessions ----------------------------
(***************************************************************************)
(* Who may use the admin panel (proxy/admin.go): sessions with a cookie,   *)
(* the throttle of failed logins, and the change of the password, which    *)
(* ends all sessions.  The sessions, the throttle and the password are     *)
(* each read and written under a lock, and a handler takes one after the   *)
(* other.                                                                  *)
(***************************************************************************)
EXTENDS ConfigFile, FiniteSets

CONSTANTS
  Owner,             \* the cookie of a session there is from the start
  MaxLoginFails,     \* maxLoginFails
  AdminOps           \* jobs for which the panel wants a session

ASSUME SessionsLimits == MaxLoginFails \in Nat \ {0} /\ Owner \notin Handlers

VARIABLES
  sessions,          \* live cookies; a handler's own name stands for the one it issues
  under,             \* the password a cookie was given for
  racers,            \* history: handlers under way when the sessions were last ended
  fails, locked,     \* loginFails of the client's address: count, lockedUntil
  guesses            \* history: wrong passwords compared since the throttle was fresh

sessionVars == <<sessions, under, racers, fails, locked, guesses>>
Cookies == Handlers \cup {Owner}

\* authed: no password, or a cookie of a live session; a client may present any other.
Enter(g) ==
  /\ up /\ at[g] = "arrived" /\ job[g].op \in AdminOps
  /\ \/ (mem.password = "" \/ sessions # {}) /\ Goto(g, "routed")
     \/ mem.password # "" /\ Goto(g, "done")
  /\ UNCHANGED <<configVars, sessionVars, up, job, then, grant>>

\* Mutant of LoginLocked: the lockout is not looked at.
LoginUnlocked(g) ==
  /\ Doing(g, "login", "arrived")
  /\ Goto(g, "compare")
  /\ UNCHANGED <<configVars, sessionVars, up, job, then, grant>>

\* apiLogin: loginLocked ...
LoginLocked(g) ==
  /\ Doing(g, "login", "arrived")
  /\ Goto(g, IF locked THEN "done" ELSE "compare")
  /\ UNCHANGED <<configVars, sessionVars, up, job, then, grant>>

\* ... the comparison with the password of this moment ...
ComparePassword(g) ==
  /\ Doing(g, "login", "compare")
  /\ Goto(g, IF mem.password = "" THEN "issue"
             ELSE IF job[g].id = mem.password THEN "clear" ELSE "failed")
  /\ under' = [under EXCEPT ![g] = mem.password]
  /\ UNCHANGED <<configVars, sessions, racers, fails, locked, guesses, up, job, then, grant>>

\* ... registerLoginFail ...
RegisterLoginFail(g) ==
  /\ Doing(g, "login", "failed")
  /\ fails' = IF fails + 1 >= MaxLoginFails THEN 0 ELSE fails + 1
  /\ locked' = (locked \/ fails + 1 >= MaxLoginFails)
  /\ guesses' = guesses + 1
  /\ Goto(g, "done")
  /\ UNCHANGED <<configVars, sessions, under, racers, up, job, then, grant>>

\* ... or clearLoginFails.
ClearLoginFails(g) ==
  /\ Doing(g, "login", "clear")
  /\ fails' = 0
  /\ locked' = FALSE
  /\ guesses' = 0
  /\ Goto(g, "issue")
  /\ UNCHANGED <<configVars, sessions, under, racers, up, job, then, grant>>

\* newSession.
Issue(g) ==
  /\ up /\ at[g] = "issue"
  /\ sessions' = sessions \cup {g}
  /\ Goto(g, "done")
  /\ UNCHANGED <<configVars, under, racers, fails, locked, guesses, up, job, then, grant>>

\* A client that was refused tries again.
TryAgain(g) ==
  /\ Doing(g, "login", "done")
  /\ g \notin sessions
  /\ job[g].id # mem.password
  /\ Goto(g, "arrived")
  /\ UNCHANGED <<configVars, sessionVars, up, job, then, grant>>

\* loginLockout has passed, or loginWindow since the last failure.
ThrottlePasses ==
  /\ up
  /\ locked \/ fails > 0
  /\ locked' = FALSE
  /\ fails' = IF locked THEN fails ELSE 0
  /\ guesses' = IF locked THEN fails ELSE 0
  /\ UNCHANGED <<configVars, sessions, under, racers, handlerVars>>

\* logout, and a session's twelve hours (validSession, gcSessions).
Logout(g) ==
  /\ Doing(g, "logout", "routed")
  /\ \E c \in Cookies : sessions' = sessions \ {c}
  /\ Goto(g, "done")
  /\ UNCHANGED <<configVars, under, racers, fails, locked, guesses, up, job, then, grant>>

\* apiSetPassword: the current password is asked for again.
CheckCurrent(g) ==
  /\ Doing(g, "set_password", "routed")
  /\ Goto(g, IF mem.password \in {"", job[g].id.current} THEN "replace" ELSE "done")
  /\ UNCHANGED <<configVars, sessionVars, up, job, then, grant>>

ReplacePassword(g) ==
  /\ Doing(g, "set_password", "replace")
  /\ Store(g, "password", job[g].id.new)
  /\ Call(g, "save", "reset")
  /\ UNCHANGED <<sessionVars, up, job, grant>>

\* Mutant of ResetSessions: only the session that was there from the start ends.
ResetOneSession(g) ==
  /\ Doing(g, "set_password", "reset")
  /\ sessions' = sessions \ {Owner}
  /\ racers' = {h \in Handlers : InProgress(h)}
  /\ under' = [under EXCEPT ![g] = job[g].id.new]
  /\ Goto(g, IF job[g].id.new = "" THEN "done" ELSE "issue")
  /\ UNCHANGED <<configVars, fails, locked, guesses, up, job, then, grant>>

\* All sessions end, and the caller gets a new one if there is a password.
ResetSessions(g) ==
  /\ Doing(g, "set_password", "reset")
  /\ sessions' = {}
  /\ racers' = {h \in Handlers : InProgress(h)}
  /\ under' = [under EXCEPT ![g] = job[g].id.new]
  /\ Goto(g, IF job[g].id.new = "" THEN "done" ELSE "issue")
  /\ UNCHANGED <<configVars, fails, locked, guesses, up, job, then, grant>>

SessionStep(g) ==
  \/ Enter(g) \/ LoginLocked(g) \/ ComparePassword(g) \/ RegisterLoginFail(g)
  \/ ClearLoginFails(g) \/ Issue(g) \/ Logout(g) \/ CheckCurrent(g) \/ ReplacePassword(g)
  \/ ResetSessions(g)

\* Sessions and throttle live in memory only.
ForgetSessions ==
  /\ sessions' = {}
  /\ racers' = {}
  /\ fails' = 0
  /\ locked' = FALSE
  /\ guesses' = 0
  /\ UNCHANGED under

SessionInit ==
  /\ sessions = {Owner}
  /\ under = [c \in Cookies |-> mem.password]
  /\ racers = {}
  /\ fails = 0
  /\ locked = FALSE
  /\ guesses = 0
-------------------------------------------------------------------------------
\* A change of the password ends the sessions given for the old one ("so a stolen cookie
\* can't outlive a rotation", admin.go:435): every live session was given for the
\* password in force, except while a change has yet to end them, and except for those of
\* logins and changes that were already under way at that moment.
RotationEndsSessions ==
  \A c \in sessions :
    \/ under[c] = mem.password
    \/ c \in racers
    \/ \E g \in Handlers : job[g].op = "set_password"
                           /\ at[g] \in {"save", "truncate", "write", "reset"}

\* The throttle counts after the comparison, so logins that arrive together all get
\* theirs; but it lets no more than those through: from one address there are at most
\* MaxLoginFails wrong guesses and one for each other login in progress before it locks.
GuessesBounded == guesses <= MaxLoginFails + Cardinality(Handlers) - 1
===============================================================================
