---------------------------- MODULE AggregatedTurn ----------------------------
(***************************************************************************)
(* The handlers that answer a client that does not stream with the whole   *)
(* turn at once (aggregateAnthropic, aggregateOpenAI).  They collect alike *)
(* and differ in how they lay the result out.                              *)
(***************************************************************************)
EXTENDS KiroTurn

VARIABLES
    agg,        \* what has been collected
    complete,   \* tools whose collected input is a JSON document when the body ends
    toolUses    \* the tool calls of aggregateAnthropic's answer

aggVars == <<agg, complete, toolUses>>

(* toolOrder: the tools in the order of their first frames; input gives    *)
(* for each tool the frames its input comes from.                          *)
InitialAggregate ==
    [thinking |-> <<>>, signature |-> None, text |-> <<>>, toolOrder |-> <<>>,
     input |-> [t \in Tools |-> <<>>], stopReason |-> "END_TURN"]

Seen(id) == \E i \in DOMAIN agg.toolOrder : agg.toolOrder[i] = id

(* Every frame with an ID counts, wherever it comes; a frame without one   *)
(* is left out.                                                            *)
CollectTool(f, n) ==
    IF f.id = None THEN agg
    ELSE [agg EXCEPT !.toolOrder = IF Seen(f.id) THEN @ ELSE Append(@, f.id),
                     !.input[f.id] = IF f.input THEN Append(@, n) ELSE @]

CollectThinking(f, n) ==
    [agg EXCEPT !.thinking = IF f.text THEN Append(@, n) ELSE @,
                !.signature = IF f.signature THEN n ELSE @]

CollectText(f, n) == [agg EXCEPT !.text = IF f.text THEN Append(@, n) ELSE @]

CollectMetadata(f) == [agg EXCEPT !.stopReason = IF f.reason = None THEN @ ELSE f.reason]

AggregateInit == agg = InitialAggregate /\ complete = {} /\ toolUses = <<>>

AggregateFrame(f) ==
    /\ LET n == Len(frames) + 1 IN
       agg' = CASE f.type = "thinking" -> CollectThinking(f, n)
                [] f.type = "text"     -> CollectText(f, n)
                [] f.type = "tool"     -> CollectTool(f, n)
                [] f.type = "metadata" -> CollectMetadata(f)
    /\ UNCHANGED <<complete, toolUses>>

(* {}, the input of no frames.                                             *)
EmptyObject == <<>>

(* The end of the body.  What has come of a tool's input need not be JSON  *)
(* (the turn may end in the midst of a call): aggregateAnthropic gives     *)
(* what does not parse, and what is blank, as the empty object;            *)
(* aggregateOpenAI gives the text as it is.                                *)
AggregateEnd ==
    /\ complete' \in SUBSET {t \in Tools : agg.input[t] # <<>>}
    /\ toolUses' = [i \in DOMAIN agg.toolOrder |->
          LET t == agg.toolOrder[i]
          IN  [id |-> t, input |-> IF t \in complete' THEN agg.input[t] ELSE EmptyObject]]
    /\ UNCHANGED agg
===============================================================================
