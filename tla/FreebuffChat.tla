------------------------------ MODULE FreebuffChat ------------------------------
(***************************************************************************)
(* Chat calls of the Freebuff clients: of freebuff-proxy                   *)
(* (internal/freebuff/chat.go), which replaces a lost session once, and of *)
(* freebuff-unified (internal/freebuff/client.go), which calls itself      *)
(* again with the new session, as often as it is refused.                  *)
(*                                                                         *)
(* A call starts a run for the model's agent, or finds one in the cache,   *)
(* and sends the chat under it.  The requests of freebuff-proxy's stealth  *)
(* client go over the rotating proxies (ProxyRotation) and have a time     *)
(* limit; those of a plain client (defaultHTTPClient of either program,    *)
(* and the one main.go of freebuff-unified gives a transport) go over the  *)
(* transport alone, and an answer's body may take for ever.  The agent     *)
(* comes from the registry (AgentRegistry), which is refreshed meanwhile;  *)
(* a chat that is answered by a stream goes on in FreebuffStream.          *)
(* Upstream and http.Transport are external.                               *)
(***************************************************************************)
EXTENDS ProxyRotation, AgentRegistry, FreebuffStream

CONSTANTS
  Sessions,          \* sessions upstream may tell of: [id, status, model]
  NoId,              \* the instance ID of a record without one
  NoModel,           \* a session that names no model
  NoAgent,           \* no run yet
  Attempts,          \* maxTransportAttempts
  MaxPolls,          \* polls that fit into the two minutes
  Scenarios          \* what the calls of an instance are

ASSUME ScenariosAssumption ==
  \A s \in Scenarios : s.proxies \in Seq(Proxies) /\ DOMAIN s.session = Calls /\ DOMAIN s.wanted = Calls
ASSUME ChatAssumption == Attempts \in Nat \ {0} /\ MaxPolls \in Nat \ {0}

\* newHTTPClient: proxies make the client a stealth one.  freebuff-unified has no other
\* than a plain one.
ASSUME ClientAssumption ==
  \A s \in Scenarios :
    /\ s.client \in {"stealth", "plain"}
    /\ s.program = "unified" => s.client = "plain"
    /\ s.client = "plain" => s.proxies = <<>> /\ s.refreshes = 0

VARIABLES
  program,           \* "proxy" or "unified"
  client,            \* "stealth" or "plain"
  op,                \* "complete", "stream" or "none" of a call
  wanted,            \* the model its caller asks for
  losing,            \* calls whose session upstream may refuse
  leaving,           \* calls that may be cancelled
  at,                \* its next step
  attempt,           \* of the request that is under way
  session,           \* the session the call works with
  model,             \* the model it sends
  again,             \* whether it has replaced its session
  polls,             \* polls of the session it waits for
  run,               \* the agent of the run it has
  cache,             \* RunCache: [key, run], agents
  result,            \* "none", "answer" or "error"
  told,              \* history: sessions upstream told of since the last refusal
  agents             \* history: agents the sources paired with the model meanwhile

callVars == <<program, client, op, wanted, losing, leaving, at, attempt, session, model, again, polls, run,
              cache, result, told, agents>>
vars == <<callVars, poolVars, wire, via, registryVars, streamVars, cancelled>>
fixedVars == <<program, client, op, wanted, losing, leaving>>
netVars == <<poolVars, registryVars, streamVars, cancelled>>

Doing(c, label) == at[c] = label
Goto(c, label) == at' = [at EXCEPT ![c] = label]

\* A request to upstream is under way in these steps; the first two are retried when the
\* transport fails (doJSONRequest), the others are not (doSessionRequest).
Retried == {"start_run", "chat"}
Requests == Retried \cup {"start", "reread", "poll"}

\* modelForActiveSession.
ModelFor(s, fallback) == IF s.model = NoModel THEN fallback ELSE Canonical[s.model]

\* Sending a request starts with a dial.
Request(c, label) ==
  /\ Goto(c, label)
  /\ wire' = [wire EXCEPT ![c] = "ready"]
  /\ attempt' = [attempt EXCEPT ![c] = 1]

\* Complete and Stream return; a Stream by way of failedChatStream.
Fail(c) ==
  /\ Goto(c, "done")
  /\ result' = [result EXCEPT ![c] = "error"]
  /\ IF op[c] = "stream" THEN FailedStream(c) ELSE UNCHANGED streamVars

\* Complete, Stream: up to the run's request.
Begin(c) ==
  /\ Doing(c, "arrived")
  /\ model' = [model EXCEPT ![c] =
       ModelFor(session[c], IF program = "proxy" THEN Canonical[wanted[c]] ELSE wanted[c])]
  /\ Goto(c, "run")
  /\ UNCHANGED <<fixedVars, attempt, session, again, polls, run, cache,
                 result, told, agents, netVars, wire, via>>

CachedRun(agent) == {r \in cache : r.key = agent}

\* startAgentRun: freebuff-proxy looks for a run of the agent in its cache.
FindRun(c) ==
  /\ Doing(c, "run") /\ program = "proxy"
  /\ \E r \in CachedRun(Agent(model[c])) : run' = [run EXCEPT ![c] = r.run]
  /\ agents' = [agents EXCEPT ![c] = Paired(source, model[c])]
  /\ Request(c, "chat")
  /\ UNCHANGED <<fixedVars, session, model, again, polls, cache, result, told,
                 netVars, via>>

MissRun(c) ==
  /\ Doing(c, "run")
  /\ program = "proxy" => CachedRun(Agent(model[c])) = {}
  /\ Goto(c, "ask")
  /\ UNCHANGED <<fixedVars, attempt, session, model, again, polls, run, cache,
                 result, told, agents, netVars, wire, via>>

\* The agent is looked up a second time for the request.
AskRun(c) ==
  /\ Doing(c, "ask")
  /\ run' = [run EXCEPT ![c] = Agent(model[c])]
  /\ agents' = [agents EXCEPT ![c] = Paired(source, model[c])]
  /\ Request(c, "start_run")
  /\ UNCHANGED <<fixedVars, session, model, again, polls, cache, result, told,
                 netVars, via>>

\* The run is there; the chat is built and sent under it.
RunStarted(c) ==
  /\ Doing(c, "start_run") /\ wire[c] = "sent"
  /\ cache' = IF program = "proxy"
              THEN {r \in cache : r.key # run[c]} \cup {[key |-> run[c], run |-> run[c]]}
              ELSE cache
  /\ Request(c, "chat")
  /\ UNCHANGED <<fixedVars, session, model, again, polls, run, result, told,
                 agents, netVars, via>>

\* A status upstream does not mean as a success, or an answer that does not decode.
Rejected(c) ==
  /\ at[c] \in Retried /\ wire[c] = "sent"
  /\ wire' = [wire EXCEPT ![c] = "off"]
  /\ Fail(c)
  /\ UNCHANGED <<fixedVars, attempt, session, model, again, polls, run, cache,
                 told, agents, poolVars, registryVars, cancelled, via>>

\* The chat is answered: Complete returns, Stream hands the body on.  Only freebuff-proxy's
\* doStream has the goroutine that reads it watch the context.
Watches(c) == program = "proxy" /\ again[c]
Answered(c) ==
  /\ Doing(c, "chat") /\ wire[c] = "sent"
  /\ wire' = [wire EXCEPT ![c] = "off"]
  /\ Goto(c, "done")
  /\ result' = [result EXCEPT ![c] = "answer"]
  /\ \/ op[c] = "complete" /\ UNCHANGED streamVars
     \/ op[c] = "stream" /\ \E b \in Bodies : OpenStream(c, b, Watches(c))
  /\ UNCHANGED <<fixedVars, attempt, session, model, again, polls, run, cache,
                 told, agents, poolVars, registryVars, cancelled, via>>

\* The chat is refused for its session (ShouldRecoverSessionFromResponse): StartSession.
\* freebuff-proxy's second try is an ordinary failure then (Rejected), freebuff-unified's
\* is recovered once more, for as long as upstream refuses: nothing counts the calls.
Recovers(c) == program = "unified" \/ ~again[c]

SessionLost(c) ==
  /\ Doing(c, "chat") /\ wire[c] = "sent" /\ Recovers(c) /\ c \in losing
  /\ told' = [told EXCEPT ![c] = {}]
  /\ Request(c, "start")
  /\ UNCHANGED <<fixedVars, session, model, again, polls, run, cache, result, agents,
                 netVars, via>>

\* Mutant of Fresh: a session that waits in the queue is taken as well.
FreshOrQueued(s) == s.status \in {"active", "queued"}

\* retryWithFreshSession: only an active session is a fresh one.
Fresh(s) == s.status = "active"

\* The retry: doComplete and doStream keep the model, the calls of freebuff-unified
\* begin anew with the session's.
RetryModel(c, s) == IF program = "proxy" THEN model[c] ELSE ModelFor(s, wanted[c])

Retry(c, s) ==
  /\ session' = [session EXCEPT ![c] = s]
  /\ again' = [again EXCEPT ![c] = TRUE]
  /\ model' = [model EXCEPT ![c] = RetryModel(c, s)]
  /\ Goto(c, "run")
  /\ UNCHANGED <<result, streamVars>>

GiveUp(c) == Fail(c) /\ UNCHANGED <<session, again, model>>

Told(c, s) ==
  /\ at[c] \in {"start", "reread", "poll"} /\ wire[c] = "sent"
  /\ wire' = [wire EXCEPT ![c] = "off"]
  /\ told' = [told EXCEPT ![c] = @ \cup {s}]
  /\ UNCHANGED <<fixedVars, attempt, run, cache, agents, poolVars,
                 registryVars, cancelled, via>>

\* recoverSession: what StartSession answers; a queued session is waited for.
SessionStarted(c, s) ==
  /\ Doing(c, "start") /\ Told(c, s)
  /\ \/ s.status = "queued" /\ Goto(c, "wait") /\ polls' = [polls EXCEPT ![c] = 0]
        /\ UNCHANGED <<session, again, model, result, streamVars>>
     \/ s.status # "queued" /\ Fresh(s) /\ Retry(c, s) /\ UNCHANGED polls
     \/ s.status # "queued" /\ ~Fresh(s) /\ GiveUp(c) /\ UNCHANGED polls

\* It has failed, and GetSession knows of one.
SessionFound(c, s) ==
  /\ Doing(c, "reread") /\ Told(c, s)
  /\ \/ s.id # NoId /\ Fresh(s) /\ Retry(c, s)
     \/ (s.id = NoId \/ ~Fresh(s)) /\ GiveUp(c)
  /\ UNCHANGED polls

\* Mutant of InTime: the waiting has no limit.
AlwaysInTime(c) == TRUE

\* pollSessionUntilActive: five seconds later, if the two minutes are not over.
InTime(c) == polls[c] < MaxPolls

Poll(c) ==
  /\ Doing(c, "wait") /\ InTime(c)
  /\ polls' = [polls EXCEPT ![c] = IF @ < MaxPolls THEN @ + 1 ELSE @]
  /\ Request(c, "poll")
  /\ UNCHANGED <<fixedVars, session, model, again, run, cache, result, told,
                 agents, netVars, via>>

\* They are over, after however many answers, or the caller has gone.
StopWaiting(c) ==
  /\ Doing(c, "wait") /\ (c \in cancelled \/ polls[c] > 0)
  /\ Fail(c)
  /\ UNCHANGED <<fixedVars, attempt, session, model, again, polls, run, cache,
                 told, agents, poolVars, wire, via, registryVars, cancelled>>

Hopeless == {"disabled", "country_blocked", "banned", "rate_limited"}
Polled(c, s) ==
  /\ Doing(c, "poll") /\ Told(c, s)
  /\ \/ s.status = "active" /\ Retry(c, s)
     \/ s.status \in Hopeless /\ GiveUp(c)
     \/ s.status \notin Hopeless \cup {"active"} /\ Goto(c, "wait")
        /\ UNCHANGED <<session, again, model, result, streamVars>>
  /\ UNCHANGED polls

SessionAnswered(c) ==
  \E s \in Sessions : SessionStarted(c, s) \/ SessionFound(c, s) \/ Polled(c, s)

\* What a request without an answer, or a session request with an error, leads to.
Unanswered(c) ==
  \/ Doing(c, "start") /\ Request(c, "reread") /\ UNCHANGED <<result, streamVars>>
  \/ at[c] \in Requests \ {"start"} /\ Fail(c) /\ wire' = [wire EXCEPT ![c] = "off"]
     /\ UNCHANGED attempt

\* A plain client has its transport connect.
Plain == client = "plain"
ConnectPlainly(c) ==
  /\ wire[c] = "ready"
  /\ wire' = [wire EXCEPT ![c] = "sent"]
  /\ UNCHANGED <<poolVars, via>>

\* The transport fails.  A chat or run request is tried again after a pause, unless its
\* caller has gone or the client's own time limit was what ended it.
NoConnection(c) ==
  \/ GiveUpDial(c)
  \/ (wire[c] = "sent" \/ (Plain /\ wire[c] = "ready")) /\ UNCHANGED <<poolVars, via>>

RetryTransport(c) ==
  /\ at[c] \in Retried /\ attempt[c] < Attempts /\ c \notin cancelled
  /\ NoConnection(c)
  /\ attempt' = [attempt EXCEPT ![c] = @ + 1]
  /\ wire' = [wire EXCEPT ![c] = "pause"]
  /\ UNCHANGED <<fixedVars, at, session, model, again, polls, run, cache, result,
                 told, agents, registryVars, streamVars, cancelled>>

PauseEnds(c) ==
  /\ wire[c] = "pause"
  /\ wire' = [wire EXCEPT ![c] = "ready"]
  /\ UNCHANGED <<callVars, netVars, via>>

TransportFails(c) ==
  /\ at[c] \in Requests
  /\ \/ NoConnection(c)
     \/ wire[c] \in {"ready", "pause"} /\ c \in cancelled /\ UNCHANGED <<poolVars, via>>
  /\ Unanswered(c)
  /\ UNCHANGED <<fixedVars, session, model, again, polls, run, cache, told,
                 agents, registryVars, cancelled>>

Dials(c) ==
  /\ (~Plain /\ DialStep(c)) \/ (Plain /\ ConnectPlainly(c))
  /\ UNCHANGED <<callVars, registryVars, streamVars, cancelled>>

Streams(c) == StreamStep(c) /\ UNCHANGED <<callVars, poolVars, wire, via, registryVars>>

CallStep(c) ==
  \/ Begin(c) \/ FindRun(c) \/ MissRun(c) \/ AskRun(c) \/ RunStarted(c)
  \/ Rejected(c) \/ Answered(c) \/ SessionLost(c)
  \/ SessionAnswered(c) \/ Poll(c) \/ StopWaiting(c)
  \/ RetryTransport(c) \/ PauseEnds(c) \/ TransportFails(c)
  \/ Dials(c) \/ Streams(c)

\* A plain client waits for a body, of an answer or of a stream, without a time limit: only
\* a cancelled context ends it.
AwaitsUpstream(c) ==
  /\ Plain /\ c \notin cancelled
  /\ wire[c] = "sent" \/ reader[c] = "scan"

Cancel(c) ==
  /\ c \in leaving /\ c \notin cancelled
  /\ cancelled' = cancelled \cup {c}
  /\ UNCHANGED <<callVars, poolVars, wire, via, registryVars, streamVars>>

UpdatePool == RefreshPool /\ UNCHANGED <<callVars, registryVars, streamVars, cancelled>>

UpdateRegistry ==
  /\ \/ RefreshFails /\ UNCHANGED agents
     \/ \E t \in Texts :
          /\ RefreshRegistry(t)
          /\ agents' = [c \in Calls |-> agents[c] \cup Paired({t}, model[c])]
  /\ UNCHANGED <<fixedVars, at, attempt, session, model, again, polls, run,
                 cache, result, told, poolVars, wire, via, streamVars, cancelled>>
================================================================================
