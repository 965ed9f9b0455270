------------------------------- MODULE EventFeed -------------------------------
(***************************************************************************)
(* The panel's event stream: the hub that fans events out to subscribers   *)
(* (proxy/events.go), the log ring that publishes its entries              *)
(* (proxy/logs.go), and the handler that serves a subscriber               *)
(* (proxy/admin_extra.go).                                                 *)
(*                                                                         *)
(* Publish visits the subscribers under the hub's read lock and skips one  *)
(* whose channel is full; unsubscribing closes the channel under the write *)
(* lock.  What is published about the accounts is a copy taken before the  *)
(* hub's lock, so two publishers may deliver theirs in either order.       *)
(***************************************************************************)
EXTENDS PanelHandlers, Naturals, Sequences

CONSTANTS
  ChannelCap,        \* capacity of a subscriber's channel
  LogCap             \* capacity of the log ring

ASSUME FeedLimits == ChannelCap \in Nat \ {0} /\ LogCap \in Nat \ {0}

VARIABLES
  hub,               \* subscribers
  channel,           \* the events waiting in a subscriber's channel
  closed,            \* subscribers whose channel is closed
  event,             \* the event a handler is about to publish
  toVisit,           \* subscribers its Publish has yet to visit
  logged,            \* entries in the log ring
  offered,           \* history: account lists a subscriber was shown or sent
  skipped            \* history: subscribers an event was not sent to

feedVars == <<hub, channel, closed, event, toVisit, logged, offered, skipped>>

Quota == [type |-> "quota", list |-> {}]
Log == [type |-> "log", list |-> {}]
AccountList(accounts) == [type |-> "accounts", list |-> accounts]

\* Mutant of HubUnlocked: a subscriber leaves without the write lock.
HubNeverLocked == TRUE
HubUnlocked == \A g \in Handlers : at[g] # "publishing"

\* publishAccounts and the quota events: make the event, then publish it.
Announce(g, e) ==
  /\ event' = [event EXCEPT ![g] = e]
  /\ UNCHANGED <<hub, channel, closed, toVisit, logged, offered, skipped>>

\* EventHub.Publish: the read lock and the range over the subscribers ...
Publish(g) ==
  /\ up /\ at[g] = "publish"
  /\ toVisit' = [toVisit EXCEPT ![g] = hub]
  /\ Goto(g, IF hub = {} THEN then[g] ELSE "publishing")
  /\ UNCHANGED <<hub, channel, closed, event, logged, offered, skipped, up, job, then, grant>>

\* ... a non-blocking send to each.
Visit(g) ==
  /\ up /\ at[g] = "publishing"
  /\ \E w \in toVisit[g] :
       /\ toVisit' = [toVisit EXCEPT ![g] = @ \ {w}]
       /\ IF Len(channel[w]) < ChannelCap
          THEN /\ channel' = [channel EXCEPT ![w] = Append(@, event[g])]
               /\ offered' = [offered EXCEPT ![w] =
                                IF event[g].type = "accounts" THEN @ \cup {event[g].list} ELSE @]
               /\ UNCHANGED skipped
          ELSE /\ skipped' = skipped \cup {w}
               /\ UNCHANGED <<channel, offered>>
       /\ Goto(g, IF toVisit'[g] = {} THEN then[g] ELSE "publishing")
  /\ UNCHANGED <<hub, closed, event, logged, up, job, then, grant>>

\* LogStore.Add: into the ring, oldest out, then publish.
AddLog(g) ==
  /\ up /\ at[g] = "log"
  /\ logged' = IF logged < LogCap THEN logged + 1 ELSE LogCap
  /\ event' = [event EXCEPT ![g] = Log]
  /\ Call(g, "publish", "done")
  /\ UNCHANGED <<hub, channel, closed, toVisit, offered, skipped, up, job, grant>>

\* LogStore.Clear.
ClearLogs(g) ==
  /\ Doing(g, "clear_logs", "routed")
  /\ logged' = 0
  /\ Goto(g, "done")
  /\ UNCHANGED <<hub, channel, closed, event, toVisit, offered, skipped, up, job, then, grant>>

\* apiEvents: subscribe; the stream starts with no event at all.
Subscribe(w) ==
  /\ Doing(w, "watch", "routed")
  /\ HubUnlocked
  /\ hub' = hub \cup {w}
  /\ Goto(w, "watching")
  /\ UNCHANGED <<channel, closed, event, toVisit, logged, offered, skipped, up, job, then, grant>>

\* A page that has subscribed asks for the list, a request of its own (apiListAccounts).
\* (Asking again adds nothing to what its stream must send.)
LoadList(w, accounts) ==
  /\ Doing(w, "watch", "watching")
  /\ offered' = [offered EXCEPT ![w] = @ \cup {accounts}]
  /\ Goto(w, "listed")
  /\ UNCHANGED <<hub, channel, closed, event, toVisit, logged, skipped, up, job, then, grant>>

Watching(w) == Doing(w, "watch", "watching") \/ Doing(w, "watch", "listed")

\* apiEvents: pass an event on.
Deliver(w) ==
  /\ Watching(w)
  /\ channel[w] # <<>>
  /\ channel' = [channel EXCEPT ![w] = Tail(@)]
  /\ UNCHANGED <<hub, closed, event, toVisit, logged, offered, skipped, handlerVars>>

\* The client has left, or a write to it failed: the deferred unsubscribe.
Unsubscribe(w) ==
  /\ Watching(w)
  /\ HubUnlocked
  /\ hub' = hub \ {w}
  /\ closed' = closed \cup {w}
  /\ Goto(w, "done")
  /\ UNCHANGED <<channel, event, toVisit, logged, offered, skipped, up, job, then, grant>>

FeedStep(g) ==
  Publish(g) \/ Visit(g) \/ AddLog(g) \/ ClearLogs(g) \/ Subscribe(g) \/ Deliver(g)

FeedInit ==
  /\ hub = {}
  /\ channel = [w \in Handlers |-> <<>>]
  /\ closed = {}
  /\ event = [g \in Handlers |-> Log]
  /\ toVisit = [g \in Handlers |-> {}]
  /\ logged = 0
  /\ offered = [w \in Handlers |-> {}]
  /\ skipped = {}

\* Subscribers, channels and logs live in memory only.
ForgetFeed ==
  /\ hub' = {}
  /\ channel' = [w \in Handlers |-> <<>>]
  /\ closed' = {}
  /\ toVisit' = [g \in Handlers |-> {}]
  /\ logged' = 0
  /\ offered' = [w \in Handlers |-> {}]
  /\ skipped' = {}
  /\ UNCHANGED event
-------------------------------------------------------------------------------
\* Nothing is sent on a closed channel, which would end the process: a subscriber that
\* a Publish has yet to visit has not unsubscribed (a send in a select on a closed
\* channel panics, full or not).
NoSendOnClosed == \A g \in Handlers : at[g] = "publishing" => toVisit[g] \cap closed = {}
===============================================================================
