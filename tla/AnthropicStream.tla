---------------------------- MODULE AnthropicStream ----------------------------
(***************************************************************************)
(* The streaming translator of the Anthropic endpoint (streamAnthropic)    *)
(* and the message a client assembles from its events.                     *)
(*                                                                         *)
(* A frame is handled in one step; the events it makes wait in `out` and   *)
(* are written one by one, since each is flushed to the client by itself   *)
(* and the client may disconnect between two of them.  No frame is read    *)
(* before the events of the last one are written.                          *)
(***************************************************************************)
EXTENDS KiroTurn

VARIABLES
    stream,    \* the locals of the handler, and the events it has yet to write
    phase,     \* the client: "none", "open", "closing", "stopped" or "error"
    blocks,    \* the client: the content blocks assembled
    reason     \* the client: the stop reason

streamVars == <<stream, phase, blocks, reason>>

--------------------------------------------------------------------------------
(* The events. *)

Event(e) == [event |-> e]
BlockStart(index, type, id) ==
    [event |-> "block_start", index |-> index, type |-> type, id |-> id]
BlockDelta(index, kind, part) ==
    [event |-> "block_delta", index |-> index, kind |-> kind, part |-> part]
BlockStop(index) == [event |-> "block_stop", index |-> index]
MessageDelta(why) == [event |-> "message_delta", reason |-> why]

--------------------------------------------------------------------------------
(* The handler.  s is a state of its locals, n the number of the frame. *)

InitialStream ==
    [openIndex |-> -1, openType |-> None, nextIndex |-> 0, curToolID |-> None,
     stopReason |-> "END_TURN", out |-> <<Event("message_start")>>]

CloseOpen(s) ==
    IF s.openIndex < 0 THEN s
    ELSE [s EXCEPT !.openIndex = -1, !.openType = None,
                   !.out = Append(@, BlockStop(s.openIndex))]

(* Mutant of OpenBlock: the next block gets the same index. *)
OpenBlockSameIndex(s, type, id) ==
    LET c == CloseOpen(s) IN
    [c EXCEPT !.openIndex = c.nextIndex, !.openType = type,
              !.out = Append(@, BlockStart(c.nextIndex, type, id))]

OpenBlock(s, type, id) ==
    LET c == CloseOpen(s) IN
    [c EXCEPT !.openIndex = c.nextIndex, !.nextIndex = c.nextIndex + 1,
              !.openType = type,
              !.out = Append(@, BlockStart(c.nextIndex, type, id))]

(* Mutant of Opened: an open block is used whatever its type. *)
OpenedAny(s, type) == IF s.openType # None THEN s ELSE OpenBlock(s, type, None)

Opened(s, type) == IF s.openType = type THEN s ELSE OpenBlock(s, type, None)

Delta(s, kind, n) ==
    [s EXCEPT !.out = Append(@, BlockDelta(s.openIndex, kind, n))]

OnThinking(s, f, n) ==
    LET t == IF f.text THEN Delta(Opened(s, "thinking"), "thinking", n) ELSE s IN
    IF f.signature /\ t.openType = "thinking" THEN Delta(t, "signature", n) ELSE t

OnText(s, f, n) == IF f.text THEN Delta(Opened(s, "text"), "text", n) ELSE s

(* Mutant of OnTool: a frame that starts a tool is not looked at for input. *)
OnToolStartOnly(s, f, n) ==
    LET starts == f.id \notin {None, s.curToolID}
        t == IF starts THEN [OpenBlock(s, "tool", f.id) EXCEPT !.curToolID = f.id] ELSE s
        u == IF f.input /\ ~starts /\ t.openType = "tool" THEN Delta(t, "input", n) ELSE t
    IN IF f.stop THEN [CloseOpen(u) EXCEPT !.curToolID = None] ELSE u

(* Mutant of OnTool: a tool is started only when no tool block is open. *)
OnToolIfNone(s, f, n) ==
    LET t == IF f.id \in {None, s.curToolID} \/ s.openType = "tool" THEN s
             ELSE [OpenBlock(s, "tool", f.id) EXCEPT !.curToolID = f.id]
        u == IF f.input /\ t.openType = "tool" THEN Delta(t, "input", n) ELSE t
    IN IF f.stop THEN [CloseOpen(u) EXCEPT !.curToolID = None] ELSE u

(* A frame without an ID, and one with the ID of the current tool, add to  *)
(* the open tool block; if another block has been opened since, what they  *)
(* carry is dropped.                                                       *)
OnTool(s, f, n) ==
    LET t == IF f.id \in {None, s.curToolID} THEN s
             ELSE [OpenBlock(s, "tool", f.id) EXCEPT !.curToolID = f.id]
        u == IF f.input /\ t.openType = "tool" THEN Delta(t, "input", n) ELSE t
    IN IF f.stop THEN [CloseOpen(u) EXCEPT !.curToolID = None] ELSE u

OnMetadata(s, f) == IF f.reason = None THEN s ELSE [s EXCEPT !.stopReason = f.reason]

OnFrame(s, f, n) ==
    CASE f.type = "thinking" -> OnThinking(s, f, n)
      [] f.type = "text"     -> OnText(s, f, n)
      [] f.type = "tool"     -> OnTool(s, f, n)
      [] f.type = "metadata" -> OnMetadata(s, f)

(* After the body: close the block, give the reason, stop. *)
OnEnd(s) ==
    LET c == CloseOpen(s) IN
    [c EXCEPT !.out = @ \o <<MessageDelta(s.stopReason), Event("message_stop")>>]

--------------------------------------------------------------------------------
(* The client: it appends a block at a start and otherwise goes by index. *)

Known(index) == index + 1 \in DOMAIN blocks

Receive(e) ==
    CASE e.event = "message_start" ->
             phase' = "open" /\ UNCHANGED <<blocks, reason>>
      [] e.event = "block_start" ->
             /\ blocks' = Append(blocks, [index |-> e.index, type |-> e.type,
                                          id |-> e.id, open |-> TRUE, parts |-> <<>>])
             /\ UNCHANGED <<phase, reason>>
      [] e.event = "block_delta" /\ Known(e.index) ->
             /\ blocks' = [blocks EXCEPT ![e.index + 1].parts = Append(@, <<e.kind, e.part>>)]
             /\ UNCHANGED <<phase, reason>>
      [] e.event = "block_stop" /\ Known(e.index) ->
             /\ blocks' = [blocks EXCEPT ![e.index + 1].open = FALSE]
             /\ UNCHANGED <<phase, reason>>
      [] e.event = "message_delta" ->
             phase' = "closing" /\ reason' = e.reason /\ UNCHANGED blocks
      [] e.event = "message_stop" ->
             phase' = "stopped" /\ UNCHANGED <<blocks, reason>>
      [] OTHER ->
             phase' = "error" /\ UNCHANGED <<blocks, reason>>

--------------------------------------------------------------------------------
StreamInit ==
    /\ stream = InitialStream
    /\ phase = "none"
    /\ blocks = <<>>
    /\ reason = None

(* The handler's part of reading a frame, and of the end of the body. *)
StreamFrame(f) ==
    /\ stream.out = <<>>
    /\ stream' = OnFrame(stream, f, Len(frames) + 1)
    /\ UNCHANGED <<phase, blocks, reason>>

StreamEnd ==
    /\ stream.out = <<>>
    /\ stream' = OnEnd(stream)
    /\ UNCHANGED <<phase, blocks, reason>>

StreamAbort == stream.out = <<>> /\ UNCHANGED streamVars

(* One event is written and flushed. *)
Emit ==
    /\ stream.out # <<>>
    /\ Receive(Head(stream.out))
    /\ stream' = [stream EXCEPT !.out = Tail(@)]
    /\ UNCHANGED turnVars

Init == TurnInit /\ StreamInit

Next ==
    \/ \E f \in Kinds : ReadFrame(f) /\ StreamFrame(f)
    \/ EndOfBody /\ StreamEnd
    \/ Overrun /\ StreamAbort
    \/ Emit

vars == <<frames, turn, stream, phase, blocks, reason>>

Spec == Init /\ [][Next]_vars

(* The client's message grows as MessageStream says. *)
Message == INSTANCE MessageStream WITH Parts <- 1..MaxFrames

(* For every order of upstream's frames (text in the midst of a tool call, *)
(* a signature without its thought, a turn cut off anywhere) the events    *)
(* streamAnthropic writes make a well-formed message.                      *)
MessageProtocol == Message!Spec
================================================================================
