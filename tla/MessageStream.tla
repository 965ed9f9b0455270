----------------------------- MODULE MessageStream -----------------------------
(***************************************************************************)
(* What a client of the Anthropic endpoint may rely on, whatever upstream  *)
(* sends: a message that starts once, grows by content blocks that are     *)
(* numbered from 0 and open one at a time, receives in a block only what   *)
(* belongs to the block's type, gives its stop reason when every block is  *)
(* closed, and then stops for good.                                        *)
(***************************************************************************)
EXTENDS Integers, Sequences

CONSTANTS Tools, None, Reasons, Parts

VARIABLES
    phase,     \* "none", "open", "closing" or "stopped"
    blocks,    \* the content blocks the client has assembled
    reason     \* the stop reason

vars == <<phase, blocks, reason>>

Block(index, type, id) ==
    [index |-> index, type |-> type, id |-> id, open |-> TRUE, parts |-> <<>>]

(* The kinds of content a block of a type may receive. *)
Content(type) ==
    CASE type = "text"     -> {"text"}
      [] type = "thinking" -> {"thinking", "signature"}
      [] type = "tool"     -> {"input"}

AllClosed == \A i \in DOMAIN blocks : ~blocks[i].open

Init == phase = "none" /\ blocks = <<>> /\ reason = None

Start ==
    /\ phase = "none"
    /\ phase' = "open"
    /\ UNCHANGED <<blocks, reason>>

OpenBlock ==
    /\ phase = "open"
    /\ AllClosed
    /\ \/ \E type \in {"text", "thinking"} :
              blocks' = Append(blocks, Block(Len(blocks), type, None))
       \/ \E id \in Tools :
              blocks' = Append(blocks, Block(Len(blocks), "tool", id))
    /\ UNCHANGED <<phase, reason>>

GrowBlock ==
    /\ phase = "open"
    /\ \E i \in DOMAIN blocks :
           /\ blocks[i].open
           /\ \E kind \in Content(blocks[i].type), part \in Parts :
                  blocks' = [blocks EXCEPT ![i].parts = Append(@, <<kind, part>>)]
    /\ UNCHANGED <<phase, reason>>

CloseBlock ==
    /\ phase = "open"
    /\ \E i \in DOMAIN blocks :
           /\ blocks[i].open
           /\ blocks' = [blocks EXCEPT ![i].open = FALSE]
    /\ UNCHANGED <<phase, reason>>

GiveReason ==
    /\ phase = "open"
    /\ AllClosed
    /\ phase' = "closing"
    /\ reason' \in Reasons
    /\ UNCHANGED blocks

Stop ==
    /\ phase = "closing"
    /\ phase' = "stopped"
    /\ UNCHANGED <<blocks, reason>>

Next == Start \/ OpenBlock \/ GrowBlock \/ CloseBlock \/ GiveReason \/ Stop

Spec == Init /\ [][Next]_vars
================================================================================
