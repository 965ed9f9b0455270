---------------------------- MODULE TranslatedTurn ----------------------------
(***************************************************************************)
(* The same upstream turn through all the translators: what a client gets  *)
(* must not depend on whether it streams, nor on the endpoint it uses.     *)
(***************************************************************************)
EXTENDS AnthropicStream, OpenAIStream, AggregatedTurn

turnVariables == <<frames, turn, stream, phase, blocks, reason, call, completion, aggVars>>

TranslatedInit == Init /\ OpenAIInit /\ AggregateInit

Frame(f) == ReadFrame(f) /\ StreamFrame(f) /\ OpenAIFrame(f) /\ AggregateFrame(f)

Finish == EndOfBody /\ StreamEnd /\ OpenAIEnd /\ AggregateEnd

Panic == Overrun /\ StreamAbort /\ UNCHANGED <<call, completion, aggVars>>

Write == Emit /\ UNCHANGED <<call, completion, aggVars>>

TranslatedNext ==
    \/ \E f \in Kinds : Frame(f)
    \/ Finish
    \/ Panic
    \/ Write

TranslatedSpec == TranslatedInit /\ [][TranslatedNext]_turnVariables

--------------------------------------------------------------------------------
(* The Anthropic message, read by a client that has seen it all. *)

Done == phase = "stopped"

(* The frames whose content of a kind stands in block b. *)
Carried(b, kind) ==
    {blocks[b].parts[i][2] : i \in {j \in DOMAIN blocks[b].parts : blocks[b].parts[j][1] = kind}}

Streamed(kind) == UNION {Carried(b, kind) : b \in DOMAIN blocks}

(* The content of a kind comes in upstream's order, each frame's once,     *)
(* through all the blocks.                                                 *)
InOrder(kind) ==
    \A b, c \in DOMAIN blocks :
        \A i \in DOMAIN blocks[b].parts, j \in DOMAIN blocks[c].parts :
            /\ blocks[b].parts[i][1] = kind /\ blocks[c].parts[j][1] = kind
            /\ b < c \/ (b = c /\ i < j)
            => blocks[b].parts[i][2] < blocks[c].parts[j][2]

ToolBlocks == {b \in DOMAIN blocks : blocks[b].type = "tool"}

(* A list that gives the frames of a set in upstream's order, each once.   *)
Lists(list, set) ==
    /\ {list[i] : i \in DOMAIN list} = set
    /\ \A i, j \in DOMAIN list : i < j => list[i] < list[j]

(* Upstream gives a tool's frames together, each with the ID, from the     *)
(* first to the one that stops it.                                         *)
IsContent(f) == f.type \in {"text", "thinking"} /\ f.text
Together ==
    /\ \A i \in DOMAIN frames : frames[i].type = "tool" => frames[i].id # None
    /\ \A i, j \in DOMAIN frames :
           /\ i < j
           /\ frames[i].type = "tool" /\ frames[j].type = "tool"
           /\ frames[i].id = frames[j].id
           => /\ \A k \in i..j : ~IsContent(frames[k])
              /\ \A k \in i..j : frames[k].type = "tool" =>
                     frames[k].id = frames[i].id /\ (k < j => ~frames[k].stop)

TypeOK ==
    /\ TurnTypeOK
    /\ stream.openType \in {None, "text", "thinking", "tool"}
    /\ stream.openIndex \in -1..(stream.nextIndex - 1)
    /\ stream.curToolID \in Tools \cup {None}
    /\ phase \in {"none", "open", "closing", "stopped"}
    /\ call.nextToolIdx = Len(completion.calls)
    /\ \A t \in Tools : call.toolIndex[t] \in {None} \cup 0..(call.nextToolIdx - 1)

(* The tool call of an answer is that of a client's block b: the block has *)
(* all that was collected, and the answer has that as well if it is a JSON *)
(* document, and the empty object if not.                                  *)
SameCall(b, use) ==
    /\ Lists(agg.input[use.id], Carried(b, "input"))
    /\ IF use.id \in complete THEN Lists(use.input, Carried(b, "input"))
                              ELSE use.input = EmptyObject

(* A client of the Anthropic endpoint that streams gets the text and the   *)
(* thoughts that one that does not stream gets, in the same order and each *)
(* once, whatever tool calls come in between; and, when upstream gives     *)
(* tool frames together, the same tools, with the same input where it is a *)
(* JSON document.  (Of a call that is cut off it has what came of it, and  *)
(* the other has {}.)                                                      *)
AnthropicAgrees ==
    Done =>
      /\ Lists(agg.text, Streamed("text")) /\ InOrder("text")
      /\ Lists(agg.thinking, Streamed("thinking")) /\ InOrder("thinking")
      /\ reason = agg.stopReason
      /\ Together =>
           /\ {blocks[b].id : b \in ToolBlocks} = {toolUses[i].id : i \in DOMAIN toolUses}
           /\ \A b, c \in ToolBlocks, i, j \in DOMAIN toolUses :
                  blocks[b].id = toolUses[i].id /\ blocks[c].id = toolUses[j].id
                  => (b < c <=> i < j)
           /\ \A b \in ToolBlocks, i \in DOMAIN toolUses :
                  blocks[b].id = toolUses[i].id => SameCall(b, toolUses[i])
           /\ InOrder("input")

(* A client of the OpenAI endpoint that streams assembles, from chunks     *)
(* that name a call by its index only, the calls that one that does not    *)
(* stream gets, in the same order and with the same input, even when the   *)
(* frames of several tools are mixed and a tool that stopped goes on.      *)
(* Input that upstream sends without an ID is what only the stream has.    *)
OpenAIAgrees ==
    turn = "ended" =>
      /\ completion.content = agg.text
      /\ completion.reasoning = agg.thinking
      /\ completion.finish = agg.stopReason
      /\ agg.toolOrder = [i \in DOMAIN completion.calls |-> completion.calls[i].id]
      /\ \A i \in DOMAIN completion.calls :
             LET c     == completion.calls[i]
                 given == {c.arguments[k] : k \in DOMAIN c.arguments}
             IN  /\ Lists(c.arguments, given)
                 /\ Lists(agg.input[c.id], {n \in given : frames[n].id # None})

(* Frame n is about tool t: by its own ID, or if it has none by that of    *)
(* the last tool frame with an ID before it.                               *)
Names(f, t) == t # None /\ f.type = "tool" /\ f.id = t
About(n, t) ==
    \E m \in 1..n :
        /\ Names(frames[m], t)
        /\ \A k \in (m + 1)..n : frames[k].type = "tool" => frames[k].id = None

(* No input reaches another tool's call, in either stream and however the  *)
(* frames of tools, texts and stops are mixed.                             *)
InputStaysWithItsTool ==
    /\ \A b \in DOMAIN blocks : blocks[b].type = "tool" =>
           \A i \in DOMAIN blocks[b].parts : About(blocks[b].parts[i][2], blocks[b].id)
    /\ \A c \in DOMAIN completion.calls :
           \A i \in DOMAIN completion.calls[c].arguments :
               About(completion.calls[c].arguments[i], completion.calls[c].id)
===============================================================================
