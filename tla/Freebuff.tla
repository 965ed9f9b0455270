-------------------------------- MODULE Freebuff --------------------------------
(***************************************************************************)
(* The Freebuff client as a whole: the calls of a scenario, the refresh of *)
(* the proxies and that of the agent registry, and callers who cancel.     *)
(*                                                                         *)
(* Fairness: a call goes on while it does not wait for upstream without a  *)
(* limit.  Its own steps are a running goroutine's.  The stealth client    *)
(* ends every request, with its body, after 180 seconds, and its dials and *)
(* handshakes earlier (stealth/client.go:108, tls.go:87 and 132); a plain  *)
(* client's transport limits the dial, the handshake and the header        *)
(* (freebuff/client.go:131-141 and, of freebuff-unified, 156-165), and     *)
(* nothing limits the body, so that nothing is assumed of it unless the    *)
(* call is cancelled.  A caller that does not cancel keeps receiving.      *)
(* Nothing is assumed of refreshes, of cancelling and of what is answered. *)
(***************************************************************************)
EXTENDS FreebuffChat

Init ==
  \E s \in Scenarios :
    /\ program = s.program
    /\ client = s.client
    /\ op = s.op
    /\ geo = s.geo
    /\ session = s.session
    /\ wanted = s.wanted
    /\ losing = s.losing
    /\ leaving = s.leaving
    /\ refreshes = s.refreshes
    /\ fetches = s.fetches
    /\ cancelled = {}
    /\ at = [c \in Calls |-> IF s.op[c] = "none" THEN "done" ELSE "arrived"]
    /\ attempt = [c \in Calls |-> 1]
    /\ model = s.wanted
    /\ again = [c \in Calls |-> FALSE]
    /\ polls = [c \in Calls |-> 0]
    /\ run = [c \in Calls |-> NoAgent]
    /\ cache = {}
    /\ result = [c \in Calls |-> "none"]
    /\ told = [c \in Calls |-> {}]
    /\ agents = [c \in Calls |-> {}]
    /\ pool = [i \in DOMAIN s.proxies |->
                 [proxy |-> s.proxies[i], country |-> "unknown", alive |-> TRUE, failures |-> 0]]
    /\ current = 0
    /\ streak = [p \in Proxies |-> 0]
    /\ wire = [c \in Calls |-> "off"]
    /\ via = [c \in Calls |-> NoProxy]
    /\ live = << >>
    /\ source = {}
    /\ StreamInit

\* Nothing is left to do, or only a stream whose caller has left is.
AtRest ==
  /\ \A c \in Calls : at[c] = "done"
  /\ UNCHANGED vars

Next ==
  \/ \E c \in Calls : CallStep(c)
  \/ \E c \in Calls : Cancel(c)
  \/ UpdatePool
  \/ UpdateRegistry
  \/ AtRest

GoesOn(c) == ~AwaitsUpstream(c) /\ CallStep(c)

Spec == Init /\ [][Next]_vars /\ \A c \in Calls : WF_vars(GoesOn(c))
-------------------------------------------------------------------------------
\* The calls' variables have their types, and a request's way belongs to its step.
TypeOK ==
  /\ RotationTypeOK
  /\ at \in [Calls -> {"arrived", "run", "ask", "wait", "done"} \cup Requests]
  /\ \A c \in Calls :
       /\ wire[c] # "off" <=> at[c] \in Requests
       /\ attempt[c] \in 1..Attempts /\ polls[c] \in 0..MaxPolls
       /\ result[c] # "none" => at[c] = "done"
       /\ run[c] # NoAgent => agents[c] # {}
  /\ errs \in [Calls -> 0..1]

\* A chat that is sent again after a refusal goes out on a session upstream has told of
\* since, active when it did (recovery by starting, finding or waiting for one), and from
\* freebuff-unified with the model of that session if it has one.
RetriedOnActiveSession ==
  \A c \in Calls :
    again[c] /\ at[c] = "chat" =>
      /\ session[c] \in told[c]
      /\ session[c].status = "active"
      /\ program = "unified" /\ session[c].model # NoModel => model[c] = Canonical[session[c].model]

\* A chat goes out under a run of an agent that upstream's own sources, or else the
\* built-in table, paired with the model it is sent with, while the run was looked up or
\* later: the cache of runs, the registry's parser and its refreshes, and the change of
\* model with the session never mix up two agents.
AgentFitsModel ==
  \A c \in Calls : at[c] \in {"start_run", "chat"} => run[c] \in agents[c]

\* A call of freebuff-unified is refused, and recovers, once more.
Refused(c) == program = "unified" /\ at[c] = "start"

\* Every call returns, and its caller comes to the end of a stream or leaves it; the
\* goroutine that reads a stream ends, unless its caller left and it does not watch the
\* call's context.  The exceptions are the two waits the code sets no limit to: a plain
\* client's for a body that does not come, and freebuff-unified's for an upstream that
\* stops refusing its sessions.
CallsReturn ==
  \A c \in Calls :
    \/ <>[]AwaitsUpstream(c)
    \/ []<>Refused(c)
    \/ /\ at[c] = "arrived" ~> at[c] = "done"
       /\ consumer[c] = "range" ~>
            /\ consumer[c] \in {"finished", "left"}
            /\ reader[c] = "ended" \/ (consumer[c] = "left" /\ ~bound[c])
================================================================================
