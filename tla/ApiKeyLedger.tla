----------------------------- MODULE ApiKeyLedger -----------------------------
(***************************************************************************)
(* The API keys of clients (config/config.go) and the door every proxied   *)
(* request passes (proxy/server.go): the key is validated, its credit is   *)
(* checked, the turn is served, and its credits are recorded when the      *)
(* stream has ended.  The operator adds, disables and removes keys         *)
(* meanwhile.  Each of these is one access of the configuration.           *)
(***************************************************************************)
EXTENDS ConfigFile, EventFeed, FiniteSets

CONSTANTS
  Keys,
  CreditLimit,       \* the limit of every key
  MaxCost            \* the most a turn can cost

ASSUME LedgerLimits == CreditLimit \in Nat \ {0} /\ MaxCost \in Nat \ {0}

KeyOf(g) == job[g].id
KeyStates == [there : BOOLEAN, on : BOOLEAN, credits : Nat]
PastDoor == {g \in Handlers : job[g].op = "turn" /\ at[g] \in {"serving", "charge"}}

\* ValidateAPIKey.
ValidateKey(g) ==
  /\ Doing(g, "turn", "arrived")
  /\ Goto(g, IF mem.keys[KeyOf(g)].there /\ mem.keys[KeyOf(g)].on THEN "credit" ELSE "done")
  /\ UNCHANGED <<configVars, feedVars, up, job, then, grant>>

\* Mutant of OverCredit: a key is over its limit once it has exceeded it.
OverCreditBeyond(key) == key.there /\ key.credits > CreditLimit
OverCredit(key) == key.there /\ key.credits >= CreditLimit

\* APIKeyOverCredit, another look at the list.
CheckCredit(g) ==
  /\ Doing(g, "turn", "credit")
  /\ Goto(g, IF OverCredit(mem.keys[KeyOf(g)]) THEN "done" ELSE "serving")
  /\ UNCHANGED <<configVars, feedVars, up, job, then, grant>>

\* The turn: an answer streamed to its end, or none (which the log records as well).
ServeTurn(g) ==
  /\ Doing(g, "turn", "serving")
  /\ \/ Goto(g, "charge")
     \/ Goto(g, "log")
  /\ UNCHANGED <<configVars, feedVars, up, job, then, grant>>

\* RecordKeyUsage (after RecordUsage and UpdateQuotaCurrentDelta of the account), then
\* the quota event and the log entry.
Charge(g) ==
  /\ Doing(g, "turn", "charge")
  /\ \E cost \in 0..MaxCost :
       Store(g, "keys", IF mem.keys[KeyOf(g)].there
                        THEN [mem.keys EXCEPT ![KeyOf(g)].credits = @ + cost] ELSE mem.keys)
  /\ Announce(g, Quota)
  /\ Call(g, "publish", "log")
  /\ UNCHANGED <<up, job, grant>>

\* The client sends its next turn.
NextTurn(g) ==
  /\ Doing(g, "turn", "done")
  /\ Goto(g, "arrived")
  /\ UNCHANGED <<configVars, feedVars, up, job, then, grant>>

\* keys POST, PATCH and DELETE; a key that is not there is answered without a save.
KeyAdmin(g) ==
  /\ up /\ at[g] = "routed"
  /\ \/ /\ job[g].op = "add_key"
        /\ Store(g, "keys", [mem.keys EXCEPT ![KeyOf(g)] =
                               [there |-> TRUE, on |-> TRUE, credits |-> 0]])
        /\ Call(g, "save", "done")
     \/ /\ job[g].op \in {"remove_key", "toggle_key"}
        /\ mem.keys[KeyOf(g)].there
        /\ Store(g, "keys", IF job[g].op = "remove_key"
                            THEN [mem.keys EXCEPT ![KeyOf(g)].there = FALSE]
                            ELSE [mem.keys EXCEPT ![KeyOf(g)].on = ~@])
        /\ Call(g, "save", "done")
     \/ /\ job[g].op \in {"remove_key", "toggle_key"}
        /\ ~mem.keys[KeyOf(g)].there
        /\ Goto(g, "done")
        /\ UNCHANGED <<configVars, then>>
  /\ UNCHANGED <<feedVars, up, job, grant>>

LedgerStep(g) ==
  ValidateKey(g) \/ CheckCredit(g) \/ ServeTurn(g) \/ Charge(g) \/ KeyAdmin(g)
-------------------------------------------------------------------------------
\* A key is charged after the fact, so concurrent turns overdraw it, but by no more than
\* they can cost: with the turns under way all charged to the full, a key stays below
\* its limit plus one turn's cost for each client that uses it at the same time.
KeyOvershoot ==
  \A k \in Keys :
    LET clients == {g \in Handlers : job[g].op = "turn" /\ job[g].id = k}
        spending == PastDoor \cap clients
    IN  mem.keys[k].there =>
          mem.keys[k].credits + MaxCost * Cardinality(spending)
            <= CreditLimit - 1 + MaxCost * Cardinality(clients)
===============================================================================
