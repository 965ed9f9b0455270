----------------------------- MODULE OpenAIStream -----------------------------
(***************************************************************************)
(* The streaming translator of the OpenAI endpoint (streamOpenAI) and the  *)
(* completion a client assembles from its chunks: text and reasoning are   *)
(* appended, tool calls go by their index.                                 *)
(***************************************************************************)
EXTENDS KiroTurn

VARIABLES
    call,          \* the locals of the handler
    completion     \* the client: what the chunks have made so far

openAIVars == <<call, completion>>

OpenAIInit ==
    /\ call = [toolIndex |-> [t \in Tools |-> None], nextToolIdx |-> 0,
               curToolID |-> None, stopReason |-> "END_TURN"]
    /\ completion = [reasoning |-> <<>>, content |-> <<>>, calls |-> <<>>, finish |-> None]

--------------------------------------------------------------------------------
(* The client: a chunk with an ID announces the call at its index, and an  *)
(* announcement of a known index gives its call that ID.                   *)

Announced(calls, index, id) ==
    IF index = Len(calls) THEN Append(calls, [id |-> id, arguments |-> <<>>])
    ELSE [calls EXCEPT ![index + 1].id = id]

Extended(calls, index, n) == [calls EXCEPT ![index + 1].arguments = Append(@, n)]

--------------------------------------------------------------------------------
(* The handler. *)

OnReasoning(f, n) ==
    /\ completion' = IF f.text THEN [completion EXCEPT !.reasoning = Append(@, n)]
                     ELSE completion
    /\ UNCHANGED call

OnContent(f, n) ==
    /\ completion' = IF f.text THEN [completion EXCEPT !.content = Append(@, n)]
                     ELSE completion
    /\ UNCHANGED call

(* Mutant of OnToolCall: the index of a tool is not looked up again.       *)
OnToolCallAnew(f, n) ==
    LET switch == f.id \notin {None, call.curToolID}
        cur    == IF switch THEN f.id ELSE call.curToolID
        index  == IF switch THEN [call.toolIndex EXCEPT ![f.id] = call.nextToolIdx]
                  ELSE call.toolIndex
        calls  == IF switch THEN Announced(completion.calls, index[f.id], f.id)
                  ELSE completion.calls
    IN /\ completion' = [completion EXCEPT !.calls =
              IF f.input /\ cur # None THEN Extended(calls, index[cur], n) ELSE calls]
       /\ call' = [call EXCEPT !.toolIndex = index,
                               !.nextToolIdx = IF switch THEN @ + 1 ELSE @,
                               !.curToolID = IF f.stop THEN None ELSE cur]

(* A tool keeps the index of its first frame; input without an ID goes to  *)
(* the current tool, and nowhere once that has stopped.                    *)
OnToolCall(f, n) ==
    LET switch == f.id \notin {None, call.curToolID}
        new    == switch /\ call.toolIndex[f.id] = None
        cur    == IF switch THEN f.id ELSE call.curToolID
        index  == IF new THEN [call.toolIndex EXCEPT ![f.id] = call.nextToolIdx]
                  ELSE call.toolIndex
        calls  == IF switch THEN Announced(completion.calls, index[f.id], f.id)
                  ELSE completion.calls
    IN /\ completion' = [completion EXCEPT !.calls =
              IF f.input /\ cur # None THEN Extended(calls, index[cur], n) ELSE calls]
       /\ call' = [call EXCEPT !.toolIndex = index,
                               !.nextToolIdx = IF new THEN @ + 1 ELSE @,
                               !.curToolID = IF f.stop THEN None ELSE cur]

OnReason(f) ==
    /\ call' = [call EXCEPT !.stopReason = IF f.reason = None THEN @ ELSE f.reason]
    /\ UNCHANGED completion

OpenAIFrame(f) ==
    LET n == Len(frames) + 1 IN
    \/ f.type = "thinking" /\ OnReasoning(f, n)
    \/ f.type = "text" /\ OnContent(f, n)
    \/ f.type = "tool" /\ OnToolCall(f, n)
    \/ f.type = "metadata" /\ OnReason(f)

(* The last chunk gives the finish reason. *)
OpenAIEnd ==
    /\ completion' = [completion EXCEPT !.finish = call.stopReason]
    /\ UNCHANGED call
===============================================================================
