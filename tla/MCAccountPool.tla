---------------------------- MODULE MCAccountPool ----------------------------
(***************************************************************************)
(* Instances of AccountPool for TLC.                                       *)
(***************************************************************************)
EXTENDS AccountPool, TLC

CONSTANTS a1, a2, a3

RequestSymmetry == Permutations(Requests)

\* The list is loaded in the order a1, a2(, a3).
Order2 == <<a1, a2>>
Order3 == <<a1, a2, a3>>

\* Durations in clock ticks, in the order classifyCooldown gives them.
OneTick == [class \in Classes |-> 1]
ShortCooldowns == [class \in Classes |-> IF class = "server" THEN 1 ELSE 2]

NoQuota == [id \in Accounts |-> 0]
OneQuota == [id \in Accounts |-> IF id = a1 THEN 1 ELSE 0]
SecondQuota == [id \in Accounts |-> IF id = a2 THEN 1 ELSE 0]

Ok == [status |-> 200, quotaText |-> FALSE]
Rejected == [status |-> 400, quotaText |-> FALSE]
QuotaForbidden == [status |-> 403, quotaText |-> TRUE]
ServerError == [status |-> 500, quotaText |-> FALSE]
RateLimited == [status |-> 429, quotaText |-> TRUE]
NoAnswer == [status |-> 0, quotaText |-> FALSE]

OkOrServerError == {Ok, ServerError}
OkRejectedOrFailed == {Ok, Rejected, ServerError}
OkOrRateLimited == {Ok, RateLimited, NoAnswer}
OkOrQuota == {Ok, Rejected, ServerError, QuotaForbidden}

=============================================================================
