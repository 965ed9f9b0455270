------------------------------- MODULE MCFreebuff -------------------------------
(***************************************************************************)
(* Instances of Freebuff for TLC: two calls of one program, with what they *)
(* can meet in a scenario.                                                 *)
(***************************************************************************)
EXTENDS Freebuff

CONSTANTS c1, c2, p1, p2, s1, s2, m1, m2, alias, a1, a2, free, FREE, MINI, MODELS

MCCanonical == (m1 :> m1) @@ (m2 :> m2) @@ (alias :> m1)
MCStatic == m1 :> a1

\* Two lists, one that names an address twice and one from abroad.
MCLists ==
  {<<>>,
   <<[proxy |-> p1, country |-> "unknown"], [proxy |-> p2, country |-> "other"]>>,
   <<[proxy |-> p1, country |-> "US"], [proxy |-> p1, country |-> "US"]>>}

\* Sources in which m2 is two constants away from its key, sources that pair m1 anew, and
\* sources without the map.
MCTexts ==
  {[root |-> <<[key |-> FREE, agent |-> a2]>>,
    literal |-> << >>, alias |-> (FREE :> MINI) @@ (MINI :> <<MODELS, "v2">>),
    property |-> <<MODELS, "v2">> :> m2],
   [root |-> <<[key |-> MINI, agent |-> a1], [key |-> FREE, agent |-> a2]>>,
    literal |-> MINI :> m1, alias |-> FREE :> MINI, property |-> << >>],
   [root |-> << >>, literal |-> << >>, alias |-> << >>, property |-> << >>]}

S(id, status, m) == [id |-> id, status |-> status, model |-> m]
MCSessions ==
  {S(s2, "active", m2), S(s1, "active", m1), S(s2, "queued", NoModel), S(s2, "banned", NoModel),
   S(s2, "ended", NoModel), S(NoId, "active", NoModel)}

MCBodies ==
  {<<"delta", "empty", "delta", "done", "delta">>, <<"delta", "event_error">>, <<"delta">>,
   <<"delta", "cut">>}

Of(x, y) == (c1 :> x) @@ (c2 :> y)
Scenario(prog, kind, ops, losers, leavers, proxies, g, r, f) ==
  [program |-> prog, client |-> kind, op |-> ops, losing |-> losers, leaving |-> leavers, geo |-> g,
   proxies |-> proxies, refreshes |-> r, fetches |-> f,
   session |-> Of(S(s1, "active", NoModel), S(s1, "active", m2)), wanted |-> Of(alias, m1)]

\* Calls that share the proxies, and a refresh of either kind of list; calls that share
\* the cache of runs; a call alone that loses its session and its caller.
MCScenarios ==
  {Scenario("proxy", "stealth", Of("complete", "complete"), {}, {}, <<p1>>, "open", 1, 0),
   Scenario("proxy", "plain", Of("complete", "complete"), {}, {}, <<>>, "open", 0, 1),
   Scenario("proxy", "stealth", Of("complete", "none"), {}, {}, <<p1, p2>>, "strict", 2, 0),
   Scenario("proxy", "stealth", Of("complete", "none"), {}, {}, <<p1, p2>>, "verify", 2, 0),
   Scenario("proxy", "stealth", Of("stream", "none"), {c1}, {c1}, <<>>, "open", 0, 0),
   Scenario("proxy", "plain", Of("stream", "none"), {c1}, {c1}, <<>>, "open", 0, 0),
   Scenario("unified", "plain", Of("stream", "none"), {c1}, {c1}, <<>>, "open", 0, 0),
   Scenario("proxy", "stealth", Of("complete", "none"), {c1}, {}, <<>>, "open", 0, 1),
   Scenario("unified", "plain", Of("complete", "none"), {c1}, {}, <<>>, "open", 0, 1)}
================================================================================
