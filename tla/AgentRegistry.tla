----------------------------- MODULE AgentRegistry -----------------------------
(***************************************************************************)
(* Which agent a chat with a model must run under (freebuff/registry.go):  *)
(* the pairs that upstream's sources define, read every six hours from one *)
(* of two hosts, over a built-in table, over a default.                    *)
(*                                                                         *)
(* The four source files are one text, a record of what the parser's       *)
(* patterns find in it: the keys and agents of the root map in their       *)
(* order, string constants, constants that name another or an object's     *)
(* property, and the objects' properties.                                  *)
(***************************************************************************)
EXTENDS Naturals, Sequences

CONSTANTS
  Names,             \* identifiers of the sources
  Texts,             \* texts the hosts may serve: [root, literal, alias, property]
  Static,            \* the built-in table: a function from models to agents
  DefaultAgent,      \* defaultFreeAgentID
  Canonical,         \* aliases of models: a function from models to models
  MaxAliasDepth      \* the longest chain of aliases that is followed

ASSUME RegistryAssumption == MaxAliasDepth \in Nat
ASSUME TextsAssumption ==
  \A t \in Texts :
    /\ t.root \in Seq({t.root[i] : i \in DOMAIN t.root})
    /\ \A i \in DOMAIN t.root : t.root[i].key \in Names

VARIABLES
  live,              \* liveAgentRegistry: a function from some models to agents
  fetches,           \* refreshes left to the run
  source             \* history: the text the registry was loaded from, if any

registryVars == <<live, fetches, source>>

\* The model a constant stands for by itself: a literal, or a property of an object.
Value(t, n) ==
  IF n \in DOMAIN t.literal THEN {t.literal[n]}
  ELSE {t.property[p] : p \in {q \in DOMAIN t.property : n \in DOMAIN t.alias /\ t.alias[n] = q}}

PlainAlias(t, n) == n \in DOMAIN t.alias /\ t.alias[n] \in Names

\* Mutant of Resolve: only the constant itself is looked at.
ResolveNoAlias(t, name) == Value(t, name)

\* resolve: along the plain aliases, at most MaxAliasDepth of them.
Resolve(t, name) ==
  LET hop[d \in 0..MaxAliasDepth] ==
        [n \in Names |->
           IF Value(t, n) # {} THEN Value(t, n)
           ELSE IF PlainAlias(t, n) /\ d < MaxAliasDepth THEN hop[d + 1][t.alias[n]]
           ELSE {}]
  IN hop[0][name]

\* parseRootAgentMap: keys that do not resolve are skipped, a later one wins.
Parsed(t) ==
  LET keyed(m) == {i \in DOMAIN t.root : m \in Resolve(t, t.root[i].key)}
      models == UNION {Resolve(t, t.root[i].key) : i \in DOMAIN t.root}
  IN [m \in models |->
        t.root[CHOOSE i \in keyed(m) : \A j \in keyed(m) : j <= i].agent]

\* refreshAgentRegistry, when a source failed at both hosts or nothing was found in
\* them: the registry stays as it is.
RefreshFails ==
  /\ fetches > 0
  /\ fetches' = fetches - 1
  /\ UNCHANGED <<live, source>>

RefreshRegistry(t) ==
  /\ fetches > 0
  /\ DOMAIN Parsed(t) # {}
  /\ live' = Parsed(t)
  /\ source' = {t}
  /\ fetches' = fetches - 1

\* agentIDForModel.
Agent(model) ==
  LET m == Canonical[model]
  IN IF m \in DOMAIN live THEN live[m]
     ELSE IF m \in DOMAIN Static THEN Static[m]
     ELSE DefaultAgent
-------------------------------------------------------------------------------
\* What the sources say, without the parser: a chain of aliases leads from the key to a
\* constant that stands for the model.
LeadsTo(t, key, m) ==
  \E n \in 1..(MaxAliasDepth + 1) : \E chain \in [1..n -> Names] :
    /\ chain[1] = key
    /\ \A i \in 1..(n - 1) :
         Value(t, chain[i]) = {} /\ PlainAlias(t, chain[i]) /\ chain[i + 1] = t.alias[chain[i]]
    /\ m \in Value(t, chain[n])

Says(t, model, agent) ==
  \E i \in DOMAIN t.root :
    /\ t.root[i].agent = agent /\ LeadsTo(t, t.root[i].key, model)
    /\ \A j \in (i + 1)..Len(t.root) : ~LeadsTo(t, t.root[j].key, model)

\* The agents that go with a model after the sources in texts, at most one, were read.
Paired(texts, model) ==
  LET m == Canonical[model]
      said == {a \in UNION {{t.root[i].agent : i \in DOMAIN t.root} : t \in texts} :
                 \E t \in texts : Says(t, m, a)}
  IN IF said # {} THEN said ELSE IF m \in DOMAIN Static THEN {Static[m]} ELSE {DefaultAgent}
================================================================================
