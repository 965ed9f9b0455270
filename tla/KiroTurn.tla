------------------------------- MODULE KiroTurn -------------------------------
(***************************************************************************)
(* One turn of the Kiro upstream as KiroPool's translators see it: frames  *)
(* of an AWS event stream, in order, until the body ends.                  *)
(*                                                                         *)
(* The content of a frame is named by the number of the frame, and a tool  *)
(* by its ID (upstream sends the tool's name beside it).  Usage,           *)
(* context and metering frames do not reach the client's message and are   *)
(* left out here; module EventStream is about the framing and metering.    *)
(***************************************************************************)
EXTENDS Integers, Sequences

CONSTANTS
    Tools,       \* the tool-use IDs upstream gives
    None,        \* an absent ID, reason or signature
    Kinds,       \* the frames upstream may send
    MaxFrames    \* bound on the frames of a turn

Reasons == {"END_TURN", "TOOL_USE", "MAX_TOKENS"}

ThinkingFrames == [type : {"thinking"}, text : BOOLEAN, signature : BOOLEAN]
TextFrames     == [type : {"text"}, text : BOOLEAN]
ToolFrames     == [type : {"tool"}, id : Tools \cup {None},
                   input : BOOLEAN, stop : BOOLEAN]
MetadataFrames == [type : {"metadata"}, reason : Reasons \cup {None}]
Frames == ThinkingFrames \cup TextFrames \cup ToolFrames \cup MetadataFrames

ASSUME KindsAssumption == Kinds \subseteq Frames
ASSUME MaxFramesAssumption == MaxFrames \in Nat
ASSUME NoneAssumption ==
    /\ None \notin Tools \cup Reasons \cup {"text", "thinking", "tool"}
    /\ None \notin Nat

VARIABLES
    frames,    \* the frames read so far
    turn       \* "reading", "ended" or "aborted"

turnVars == <<frames, turn>>

TurnInit == frames = <<>> /\ turn = "reading"

(* The next frame is complete and goes to the handler's callback. *)
ReadFrame(f) ==
    /\ turn = "reading"
    /\ Len(frames) < MaxFrames
    /\ frames' = Append(frames, f)
    /\ UNCHANGED turn

(* The body ends or fails, or a length is out of bounds: the reader        *)
(* returns, and the handler cannot tell which of them it was.              *)
EndOfBody ==
    /\ turn = "reading"
    /\ turn' = "ended"
    /\ UNCHANGED frames

(* A frame whose headers are longer than the frame itself: the slice of    *)
(* the payload panics and the server drops the connection.                 *)
Overrun ==
    /\ turn = "reading"
    /\ turn' = "aborted"
    /\ UNCHANGED frames

TurnTypeOK ==
    /\ frames \in Seq(Kinds)
    /\ Len(frames) <= MaxFrames
    /\ turn \in {"reading", "ended", "aborted"}
===============================================================================
