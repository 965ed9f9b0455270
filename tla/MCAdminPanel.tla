------------------------------ MODULE MCAdminPanel ------------------------------
(***************************************************************************)
(* Instances of AdminPanel for TLC: three goroutines with the jobs of a    *)
(* scenario.  A scenario names jobs that meet in some piece of state; what *)
(* the others of the panel do cannot reach it.                             *)
(***************************************************************************)
EXTENDS AdminPanel

CONSTANTS ms1, ms2, iam1, iam2, bid1, bid2, tok1, tok2, ksk1, acc1, acc2, key1, key2,
          tenant, other, braced, entra, elsewhere, client

MCHandlers == 1..3
J(op, id) == [op |-> op, id |-> id]
Nothing == J("none", "")
PasswordChange(current, new) == J("set_password", [current |-> current, new |-> new])

Issuer(t) == [plain |-> TRUE, query |-> FALSE, host |-> entra, tenant |-> t, path |-> IssuerPath]
Endpoint(t, h, p) == [plain |-> TRUE, query |-> FALSE, host |-> h, tenant |-> t, path |-> p]
GoodScopes == {Scope(client, "conversations"), Scope(Standard, "offline_access")}

MCDescriptors ==
  {[client |-> client, issuer |-> Issuer(tenant), scopes |-> GoodScopes],
   [client |-> client, issuer |-> Issuer(braced), scopes |-> GoodScopes],
   [client |-> client, issuer |-> Issuer(tenant), scopes |-> {Scope(Standard, "openid")}]}
Document(i, t, h) ==
  [issuer |-> Issuer(i), authorize |-> Endpoint(i, entra, AuthorizePath),
   token |-> Endpoint(t, h, TokenPath)]
MCDocuments ==
  {Document(tenant, t, h) : t \in {tenant, other}, h \in {entra, elsewhere}}
    \cup {Document(braced, braced, entra)}

MCFirstConfig ==
  [accounts |-> {Account(acc1, NoHandler)},
   keys |-> [k \in {key1, key2} |-> [there |-> k = key1, on |-> TRUE, credits |-> 0]],
   password |-> "old", models |-> "none", version |-> 0]

MicrosoftScenarios ==
  {<<J("ms_continue", ms1), J("ms_continue", ms1), J("ms_cancel", ms1)>>,
   <<J("ms_continue", ms1), J("ms_timer", ms1), J("ms_start", ms2)>>,
   <<J("ms_continue", ms1), J("ms_continue", ms1), J("ms_continue", ms1)>>}
LoginScenarios ==
  {<<J("iam_complete", iam1), J("iam_complete", iam1), J("iam_start", iam2)>>,
   <<J("bid_poll", bid1), J("bid_poll", bid1), J("bid_start", bid2)>>,
   <<J("sso_import", tok1), J("disable", acc1), Nothing>>,
   <<J("api_key", ksk1), J("remove", acc1), Nothing>>}
SessionScenarios ==
  {<<J("login", "old"), PasswordChange("old", "new"), Nothing>>,
   <<PasswordChange("old", "new"), PasswordChange("old", "newer"), Nothing>>,
   <<PasswordChange("old", ""), J("logout", ""), J("login", "old")>>,
   <<J("login", "wrong"), J("login", "guess"), J("login", "wrong")>>}
KeyScenarios ==
  {<<J("turn", key1), J("turn", key1), Nothing>>,
   <<J("turn", key1), J("remove_key", key1), Nothing>>,
   <<J("turn", key2), J("add_key", key2), Nothing>>,
   <<J("toggle_key", key1), J("toggle_key", key1), J("clear_logs", "")>>}
FileScenarios ==
  {<<J("add", acc2), Nothing, J("ticker", "")>>,
   <<J("add", acc2), J("shutdown", ""), J("ticker", "")>>,
   <<J("add", acc2), J("crash", ""), J("strategy", "")>>,
   <<PasswordChange("old", ""), J("crash", ""), J("ticker", "")>>,
   <<J("add", acc2), J("renew", ""), J("ticker", "")>>,
   <<J("sync", "list1"), J("sync", "list2"), J("crash", "")>>,
   <<J("test", acc1), J("quota", acc1), Nothing>>}
FeedScenarios ==
  {<<J("watch", ""), J("add", acc2), J("remove", acc1)>>,
   <<J("watch", ""), J("watch", ""), J("disable", acc1)>>,
   <<J("watch", ""), J("turn", key1), Nothing>>}

MCScenarios == MicrosoftScenarios \cup LoginScenarios \cup SessionScenarios
                 \cup KeyScenarios \cup FileScenarios \cup FeedScenarios
MCBatch == <<tok1, tok2>>
MCAdminOps ==
  {"ms_start", "ms_continue", "ms_cancel", "iam_start", "iam_complete", "bid_start", "bid_poll",
   "sso_import", "api_key", "add", "remove", "disable", "test", "quota", "sync", "strategy",
   "set_password", "logout", "add_key", "remove_key", "toggle_key", "clear_logs", "watch"}
================================================================================
